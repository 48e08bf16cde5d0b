----------------------------- MODULE CoreProofs -----------------------------
(***************************************************************************)
(* Theorems about two parts of the core that software and the debugger     *)
(* reach.                                                                  *)
(*                                                                         *)
(* The GDB stub, for any packets, any number of packets in the stream and  *)
(* any number of connections: the packet and the connection it came from   *)
(* are handed over exclusively, the event that announces a packet is not   *)
(* missed once the simulation has begun, and the hart stands still while   *)
(* it is looked at.                                                        *)
(*                                                                         *)
(* The control and status registers, for any addresses, values, times and  *)
(* numbers of instructions: an access that traps has no effect, and one    *)
(* that does not affects the register it names.                            *)
(***************************************************************************)
EXTENDS MCGdbServer, MCCore, WellFoundedInduction, TLAPS

-----------------------------------------------------------------------------
(* The inductive invariant.                                                *)

\* The queue holds at most one packet, of the current connection, whose answer
\* prevpkt is the only one kept; between connections there is none.
OnePacket ==
  /\ \/ pktq = <<>>
     \/ \E p : pktq = <<[session |-> session, packet |-> p]>>
  /\ prevpkt \in {0, session}
  /\ host = "accept" => prevpkt = 0

\* The mutex is locked from the moment the host thread waits for a packet until
\* run() has served it, and the host thread is where the mutex keeps it.
Handover ==
  /\ host \in {"accept", "lock", "parse", "close"}
  /\ mtx <=> host = "parse" \/ pktq # <<>>
  /\ pktq # <<>> => host = "lock"
  /\ host # "accept" => conn # "none"

\* The event is pending as long as run() has not taken up the packet, unless the
\* simulation had not begun, and run() is busy only with a packet.
Idle == {"start", "wait", "loop"}
Busy == {"packet", "vCont", "allharts", "stuck", "release"}

Announced ==
  /\ server \in Idle \cup Busy
  /\ event => pktq # <<>> /\ server \in Idle
  /\ server \in Busy => pktq # <<>>
  /\ missed => pktq # <<>> /\ server \in {"loop", "wait"} /\ ~event
  /\ pktq # <<>> /\ server \in Idle => event \/ missed

IInv == OnePacket /\ Handover /\ Announced /\ AllStop

\* The packet at the front of the queue.
LEMMA FrontPacket ==
  ASSUME OnePacket, pktq # <<>>
  PROVE  Len(pktq) = 1 /\ Head(pktq).session = session /\ Tail(pktq) = <<>>
  <1>1. PICK p : pktq = <<[session |-> session, packet |-> p]>>
    BY DEF OnePacket
  <1>2. ASSUME NEW r PROVE Len(<<r>>) = 1 /\ Head(<<r>>) = r /\ Tail(<<r>>) = <<>>
    OBVIOUS
  <1>3. Len(pktq) = 1 /\ Head(pktq) = [session |-> session, packet |-> p] /\ Tail(pktq) = <<>>
    BY <1>1, <1>2
  <1> QED
    BY <1>3

\* The invariant is what PacketIsOwned needs.
LEMMA IInvOwned == IInv => PacketIsOwned
  BY FrontPacket DEF IInv, OnePacket, Handover, Announced, Idle, Busy, PacketIsOwned

\* An answer goes to the connection the packet came from, if it can be written.
LEMMA AnswerIsOwn ==
  ASSUME IInv, pktq # <<>>, Answer PROVE prevpkt' \in {prevpkt, session}
  BY FrontPacket DEF IInv, Answer

-----------------------------------------------------------------------------
\* It holds before the first connection.
LEMMA InitIInv == Init => IInv
  BY DEF Init, IInv, OnePacket, Handover, Announced, Idle, Busy, AllStop

\* Steps that serve a packet without popping it: run() goes on with the packet or
\* is about to release it.
LEMMA ServeKeeps ==
  ASSUME IInv, UNCHANGED <<stream, host, mtx, pktq, event, missed, hart>>,
         pktq # <<>>, server \in {"packet", "vCont"}, server' \in {"packet", "vCont", "release"},
         prevpkt' \in {prevpkt, session}
  PROVE  IInv'
  BY DEF IInv, OnePacket, Handover, Announced, Idle, Busy, AllStop, stream, hart

\* Every step preserves it.
LEMMA NextIInv == IInv /\ [Next]_vars => IInv'
  <1> SUFFICES ASSUME IInv, [Next]_vars PROVE IInv'
    OBVIOUS
  <1> USE DEF stream, vcont, hart
  <1>0. server \in {"packet", "vCont", "allharts", "release"} => pktq # <<>> /\ ~missed
    BY DEF IInv, Announced, Idle, Busy
  <1>1. ASSUME NEW p \in Packet, Send(p) PROVE IInv'
    BY <1>1 DEF Send, IInv, OnePacket, Handover, Announced, Idle, Busy, AllStop
  <1>2. CASE HangUp
    BY <1>2 DEF HangUp, IInv, OnePacket, Handover, Announced, Idle, Busy, AllStop
  <1>3. CASE Accept
    BY <1>3 DEF Accept, IInv, OnePacket, Handover, Announced, Idle, Busy, AllStop
  <1>4. CASE Lock
    BY <1>4 DEF Lock, IInv, OnePacket, Handover, Announced, Idle, Busy, AllStop
  <1>5. CASE Parse
    <2>1. pktq = <<>>
      BY <1>5 DEF Parse, IInv, Handover
    <2>2. pktq' = <<[session |-> session, packet |-> Head(input)]>> /\ pktq' # <<>>
      BY <1>5, <2>1 DEF Parse
    <2>3. mtx /\ ~missed /\ server \in Idle
      BY <1>5, <2>1 DEF Parse, IInv, Handover, Announced, Idle, Busy
    <2> QED
      BY <1>5, <2>2, <2>3 DEF Parse, IInv, OnePacket, Handover, Announced, Idle, Busy, AllStop
  <1>6. CASE EndOfStream
    BY <1>6 DEF EndOfStream, IInv, OnePacket, Handover, Announced, Idle, Busy, AllStop
  <1>7. CASE Close
    BY <1>7 DEF Close, IInv, OnePacket, Handover, Announced, Idle, Busy, AllStop
  <1>8. CASE Deliver
    BY <1>8 DEF Deliver, IInv, OnePacket, Handover, Announced, Idle, Busy, AllStop
  <1>9. CASE ServeQuiet
    BY <1>0, <1>9, ServeKeeps DEF ServeQuiet, Serving
  <1>10. CASE ServeCommand
    <2>1. server = "packet"
      BY <1>10 DEF ServeCommand, ServeQuery, readMemory, readRegister, setThread, setBreakpoint,
                  removeBreakpoint, Serving
    <2>2. prevpkt' \in {prevpkt, session}
      BY <1>0, <1>10, <2>1, AnswerIsOwn DEF ServeCommand
    <2> QED
      BY <1>0, <1>10, <2>1, <2>2, ServeKeeps DEF ServeCommand
  <1>11. CASE ThrowOutOfRange \/ killServer
    BY <1>0, <1>11, ServeKeeps DEF ThrowOutOfRange, killServer, Serving
  <1>12. CASE Release
    <2>1. pktq' = <<>>
      BY <1>0, <1>12, FrontPacket DEF Release, IInv
    <2>2. host = "lock" /\ ~event /\ ~missed
      BY <1>0, <1>12 DEF Release, IInv, Handover, Announced, Idle, Busy
    <2> QED
      BY <1>12, <2>1, <2>2 DEF Release, IInv, OnePacket, Handover, Announced, Idle, Busy, AllStop
  <1>13. CASE Wait
    BY <1>13 DEF Wait, IInv, OnePacket, Handover, Announced, Idle, Busy, AllStop
  <1>14. CASE ServeVCont
    BY <1>0, <1>14, ServeKeeps DEF ServeVCont, Serving
  <1>15. CASE ThrowUnimplemented
    BY <1>0, <1>15, ServeKeeps DEF ThrowUnimplemented
  <1>16. CASE RefuseAction
    <2>1. server = "vCont"
      BY <1>16 DEF RefuseAction, AtAction
    <2>2. prevpkt' \in {prevpkt, session}
      BY <1>0, <1>16, <2>1, AnswerIsOwn DEF RefuseAction
    <2> QED
      BY <1>0, <1>16, <2>1, <2>2, ServeKeeps DEF RefuseAction
  <1>17. ASSUME NextAction, server \in {"vCont", "allharts"}
         PROVE  server' \in {"vCont", "release"} /\ prevpkt' \in {prevpkt, session}
    BY <1>0, <1>17, AnswerIsOwn DEF NextAction
  <1>18. CASE SkipAction
    <2>1. server = "vCont"
      BY <1>18 DEF SkipAction, AtAction
    <2> QED
      BY <1>0, <1>17, <1>18, <2>1, ServeKeeps DEF SkipAction
  <1>19. CASE Resume
    <2>1. server = "vCont" /\ server' = IF runner = "ended" THEN "stuck" ELSE "allharts"
      BY <1>19 DEF Resume, AtAction
    <2> QED
      BY <1>0, <1>19, <2>1 DEF Resume, IInv, OnePacket, Handover, Announced, Idle, Busy, AllStop
  <1>20. CASE Stops
    BY <1>20 DEF Stops, EndOfRun, IInv, OnePacket, Handover, Announced, Idle, Busy, AllStop
  <1>21. CASE NotifyStop
    <2>1. server = "allharts" /\ server' \in {"vCont", "release"} /\ prevpkt' \in {prevpkt, session}
      BY <1>17, <1>21 DEF NotifyStop
    <2> QED
      BY <1>0, <1>21, <2>1 DEF NotifyStop, IInv, OnePacket, Handover, Announced, Idle, Busy, AllStop
  <1>22. CASE Start
    BY <1>22 DEF Start, IInv, OnePacket, Handover, Announced, Idle, Busy, AllStop
  <1>23. CASE UNCHANGED vars
    BY <1>23 DEF vars, IInv, OnePacket, Handover, Announced, Idle, Busy, AllStop
  <1> QED
    BY <1>1, <1>2, <1>3, <1>4, <1>5, <1>6, <1>7, <1>8, <1>9, <1>10, <1>11, <1>12, <1>13, <1>14,
       <1>15, <1>16, <1>18, <1>19, <1>20, <1>21, <1>22, <1>23 DEF Next, HostStep, ServerStep

\* IInv is an invariant.
LEMMA StubInvariance == Spec => []IInv
  BY InitIInv, NextIInv, PTL DEF Spec

\* The packet queue and prevpkt, which have no lock of their own, are used by one
\* thread at a time, and no answer goes to a connection that was closed or reused.
THEOREM PacketOwnership == Spec => []PacketIsOwned
  BY StubInvariance, IInvOwned, PTL

\* Registers and memory are read, and commands served, only while the hart waits to be
\* resumed or has ended; a hart that can be resumed is waiting for its run event.
THEOREM HartStandsStill == Spec => []AllStop
  <1>1. IInv => AllStop
    BY DEF IInv
  <1> QED
    BY <1>1, StubInvariance, PTL

\* The safety half of PacketIsServed: once the simulation has begun, run() does not
\* wait for a packet that is in the queue without an event on its way to it, unless
\* the packet was read before.
THEOREM EventIsPending ==
  Spec => [](pktq # <<>> /\ server = "wait" => event \/ missed)
  <1>1. IInv => (pktq # <<>> /\ server = "wait" => event \/ missed)
    BY DEF IInv, Announced, Idle
  <1> QED
    BY <1>1, StubInvariance, PTL

-----------------------------------------------------------------------------
(* Control and status registers: the addresses as numbers.                 *)

\* A non-empty set of naturals has a least element.
LEMMA Least ==
  ASSUME NEW S, S \subseteq Nat, S # {}
  PROVE  \E x \in S : \A y \in S : x <= y
  <1>1. PICK x \in S : \A y \in S : ~ (<<y, x>> \in OpToRel(<, Nat))
    BY WFMin, NatLessThanWellFounded
  <1>2. ASSUME NEW y \in S PROVE x <= y
    <2>1. x \in Nat /\ y \in Nat /\ ~ (y < x)
      BY <1>1 DEF OpToRel
    <2> QED
      BY <2>1
  <1> QED
    BY <1>2

\* The numbers of the addresses that have a case of their own somewhere.
LEMMA AddressNumbers ==
  /\ ADDR.CYCLE = 3072 /\ ADDR.CYCLEH = 3200 /\ ADDR.TIME = 3073 /\ ADDR.TIMEH = 3201
  /\ ADDR.INSTRET = 3074 /\ ADDR.INSTRETH = 3202
  /\ ADDR.MCYCLE = 2816 /\ ADDR.MCYCLEH = 2944 /\ ADDR.MTIME = 2817 /\ ADDR.MTIMEH = 2945
  /\ ADDR.MINSTRET = 2818 /\ ADDR.MINSTRETH = 2946
  /\ ADDR.MSTATUS = 768 /\ ADDR.SSTATUS = 256 /\ ADDR.USTATUS = 0
  /\ ADDR.MIE = 772 /\ ADDR.SIE = 260 /\ ADDR.UIE = 4
  /\ ADDR.MIP = 836 /\ ADDR.SIP = 324 /\ ADDR.UIP = 68
  /\ ADDR.FCSR = 3 /\ ADDR.FFLAGS = 1 /\ ADDR.FRM = 2
  /\ ADDR.MISA = 769 /\ ADDR.SATP = 384 /\ ADDR.MTVEC = 773 /\ ADDR.STVEC = 261 /\ ADDR.UTVEC = 5
  /\ ADDR.MEPC = 833 /\ ADDR.SEPC = 321 /\ ADDR.UEPC = 65
  /\ ADDR.MIDELEG = 771 /\ ADDR.SIDELEG = 259 /\ ADDR.MEDELEG = 770 /\ ADDR.SEDELEG = 258
  /\ ADDR.MCOUNTEREN = 774 /\ ADDR.SCOUNTEREN = 262 /\ ADDR.MCOUNTINHIBIT = 800
BY DEF ADDR

\* The addresses of the counters as numbers.
LEMMA CountersAre ==
  Counters = {3072, 3200, 3073, 3201, 3074, 3202, 2816, 2944, 2817, 2945, 2818, 2946}
BY AddressNumbers DEF Counters, At

\* The addresses of the views of other registers as numbers.
LEMMA ViewsAre == Views = {256, 0, 260, 4, 324, 68, 1, 2}
BY AddressNumbers DEF Views, At

\* The addresses that are read or written through a mask as numbers.
LEMMA MaskedAre ==
  Masked = {256, 0, 260, 4, 324, 68, 1, 2, 768, 836, 772, 3, 384, 773, 261, 5, 833, 321, 65, 771, 770, 259, 258,
            774, 262, 800}
BY AddressNumbers, ViewsAre DEF Masked, At

\* Some registers of the table.
LEMMA MappedHas == {3072, 3073, 3074, 768, 772, 836, 3, 769} \subseteq Mapped
<1>1. {"CYCLE", "TIME", "INSTRET", "MSTATUS", "MIE", "MIP", "FCSR", "MISA"} \subseteq DOMAIN ADDR
  BY DEF ADDR
<1> QED BY <1>1, AddressNumbers, ViewsAre DEF Mapped, At

-----------------------------------------------------------------------------
(* Reading and writing in one form.                                         *)

\* The registers of which an address shows the part ReadAs(a)[2].
Plain == AnyHpmcounter \cup Debug

Tables == [Registers -> SUBSET Int]

\* The register behind an address.
LEMMA Behind ==
  ASSUME NEW a \in Mapped \cup Views, a \notin Counters
  PROVE  ReadAs(a)[1] \in Registers \ Counters
<1>1. a \in Mapped => register_mapping(a)[1] = a
  BY DEF register_mapping
<1>2. a \in Mapped => a \in Registers
  BY <1>1 DEF Registers
<1>3. {768, 772, 836, 3} \subseteq Registers \ Counters
  BY MappedHas, CountersAre DEF Registers, register_mapping
<1>4. a \in Views => ReadAs(a)[1] \in {768, 772, 836, 3}
  BY ViewsAre, AddressNumbers DEF ReadAs
<1>5. ReadAs(a)[1] \in {768, 772, 836, 3, a}
  BY AddressNumbers DEF ReadAs
<1> QED BY <1>2, <1>3, <1>4, <1>5

\* The low halves of the counters are registers of the table.
LEMMA CounterRegisters == {3072, 3073, 3074} \subseteq Registers
BY MappedHas, CountersAre DEF Registers, register_mapping

\* No write goes beyond what its address shows.
LEMMA WriteMaskIsShown ==
  ASSUME NEW a
  PROVE  WriteMask(a) \subseteq ReadAs(a)[2] /\ ReadAs(a)[2] \subseteq Word
<1> USE AddressNumbers DEF Word, SIE_MASK, MIE_MASK, UIE_MASK, MSTATUS_MASK, SSTATUS_MASK, USTATUS_MASK
<1>1. ReadAs(a)[2] \subseteq Word
  BY DEF ReadAs
<1>2. ReadAs(a)[2] = Word \/ a \in {768, 256, 0, 836, 324, 68, 772, 260, 4, 3, 1, 2}
  BY DEF ReadAs
<1>3. a \in {768, 256, 0, 324, 68, 772, 260, 4, 3, 1, 2} => WriteMask(a) = ReadAs(a)[2]
  BY DEF WriteMask, At
<1>4. a = 836 => WriteMask(a) \subseteq ReadAs(a)[2]
  <2>1. a = 836 => WriteMask(a) = SIE_MASK
    BY DEF WriteMask, At
  <2>2. a = 836 => ReadAs(a)[2] = MIE_MASK
    BY DEF ReadAs
  <2> QED BY <2>1, <2>2
<1>5. a \notin {768, 256, 0, 836, 324, 68, 772, 260, 4, 3, 1, 2} => WriteMask(a) \subseteq Word
  BY <1>1 DEF WriteMask, At, CY, IR
<1> QED BY <1>1, <1>2, <1>3, <1>4, <1>5

\* A plain register has no mask.
LEMMA PlainIsApart == Plain \cap Masked = {} /\ ADDR.MISA \notin Masked
BY MaskedAre, AddressNumbers DEF Plain, AnyHpmcounter, HPMCOUNTER, MHPMCOUNTER, MHPMEVENT, Debug

\* get_csr_value on the registers that are neither counters nor plain: the
\* masked part of one register of the table.
LEMMA ReadForm ==
  ASSUME NEW c \in Tables, NEW a \in Mapped \cup Views, a \notin Counters \cup Plain
  PROVE  get_csr_value(c, a) = {x - Offset(a) : x \in c[ReadAs(a)[1]] \cap ReadAs(a)[2]}
<1>1. a # TSELECT
  BY DEF TSELECT, Debug, Plain
<1>2. CASE a \in Views \cup At({"MSTATUS", "MIP", "MIE", "FCSR"})
  BY <1>1, <1>2 DEF get_csr_value, Plain
<1>3. CASE a \notin Views \cup At({"MSTATUS", "MIP", "MIE", "FCSR"})
  <2>1. get_csr_value(c, a) = default_read32(c, a)
    BY <1>1, <1>3 DEF get_csr_value, Plain
  <2>2. ReadAs(a) = <<a, Word>> /\ Offset(a) = 0
    BY <1>3, AddressNumbers, ViewsAre DEF ReadAs, Offset, At
  <2>3. register_mapping(a) = <<a, 0>>
    BY DEF register_mapping
  <2>4. 32 * 0 = 0 /\ 32 * 0 + 31 = 31
    OBVIOUS
  <2> QED BY <2>1, <2>2, <2>3, <2>4 DEF default_read32, Half, Word
<1> QED BY <1>2, <1>3

\* set_csr_value on the same: the writable part of one register of the table is
\* replaced.
LEMMA WriteForm ==
  ASSUME NEW c \in Tables, NEW a \in Mapped \cup Views, a \notin Counters \cup Plain \cup {ADDR.MISA},
         NEW v \in SUBSET Word
  PROVE  set_csr_value(c, a, v) =
           [c EXCEPT ![ReadAs(a)[1]] = (@ \ WriteMask(a)) \cup ({x + Offset(a) : x \in v} \cap WriteMask(a))]
<1>2. CASE a \in Masked
  BY <1>2 DEF set_csr_value, Plain
<1>3. CASE a \notin Masked
  <2>1. set_csr_value(c, a, v) = default_write32(c, a, v)
    BY <1>3 DEF set_csr_value, Plain
  <2>2. ReadAs(a)[1] = a /\ Offset(a) = 0 /\ WriteMask(a) = Word
    BY <1>3, AddressNumbers, MaskedAre DEF ReadAs, Offset, WriteMask, At
  <2>3. register_mapping(a)[1] = a /\ register_mapping(a)[2] = 0
    BY DEF register_mapping
  <2>4. 32 * 0 .. 32 * 0 + 31 = Word
    BY DEF Word
  <2>5. \A x \in v : x + 32 * 0 = x /\ x + 0 = x /\ x \in Word
    BY DEF Word
  <2>6. {x + 32 * 0 : x \in v} = v
    BY <2>5
  <2>7. {x + Offset(a) : x \in v} \cap WriteMask(a) = v
    BY <2>2, <2>5
  <2>8. default_write32(c, a, v) = [c EXCEPT ![a] = (@ \ (32 * 0 .. 32 * 0 + 31)) \cup {x + 32 * 0 : x \in v}]
    BY <2>3, Zenon DEF default_write32
  <2>9. default_write32(c, a, v) = [c EXCEPT ![a] = (@ \ Word) \cup v]
    BY <2>4, <2>6, <2>8, Zenon
  <2> QED BY <2>1, <2>2, <2>7, <2>9, Zenon
<1> QED BY <1>2, <1>3

-----------------------------------------------------------------------------
(* Every register keeps to its width.                                       *)

Wide == 0 .. 63

\* Only the counters have more than 32 bits.
Table(c) == /\ c \in [Registers -> SUBSET Wide]
            /\ \A r \in Registers \ Counters : c[r] \subseteq Word

Known == Mapped \cup Views \cup Plain

\* A word is part of a counter.
LEMMA WordIsWide == Word \subseteq Wide /\ Word \subseteq Int /\ Wide \subseteq Int
BY DEF Word, Wide

\* A table maps every register to a value.
LEMMA TableIs == ASSUME NEW c, Table(c) PROVE c \in Tables
BY WordIsWide DEF Table, Tables

\* The counter and the half of it that a counter's address stands for.
LEMMA CounterMapping ==
  ASSUME NEW a \in Counters
  PROVE  /\ register_mapping(a)[1] \in {3072, 3073, 3074}
         /\ register_mapping(a)[2] \in {0, 1}
BY CountersAre DEF register_mapping

\* A counter is no other register.
LEMMA CountersAreApart == Counters \cap (Masked \cup Views \cup Plain \cup {ADDR.MISA}) = {}
<1>1. Counters \cap (Masked \cup Views \cup {ADDR.MISA}) = {}
  BY CountersAre, MaskedAre, ViewsAre, AddressNumbers
<1>2. Counters \cap Plain = {}
  BY CountersAre DEF Plain, AnyHpmcounter, HPMCOUNTER, MHPMCOUNTER, MHPMEVENT, Debug
<1> QED BY <1>1, <1>2

\* A read gives a word.
LEMMA ReadIsWord ==
  ASSUME NEW c, Table(c), NEW a \in Known
  PROVE  get_csr_value(c, a) \subseteq Word
<1>1. CASE a \in Plain
  <2>1. get_csr_value(c, a) \in {{}, {0}}
    <3>1. a \notin Views \cup At({"MSTATUS", "MIP", "MIE", "FCSR"})
      BY <1>1, PlainIsApart DEF Masked, At
    <3> QED BY <1>1, <3>1 DEF get_csr_value, Plain, AnyHpmcounter, HPMCOUNTER, MHPMCOUNTER, MHPMEVENT, Debug, TSELECT
  <2> QED BY <2>1 DEF Word
<1>2. CASE a \in Counters
  <2>1. get_csr_value(c, a) = default_read32(c, a)
    <3>1. a \notin At({"MSTATUS", "MIP", "MIE", "FCSR"})
      BY <1>2, CountersAre, AddressNumbers DEF At
    <3>2. a \notin Plain /\ a # TSELECT
      BY <1>2, CountersAreApart DEF Plain, Debug, TSELECT
    <3> QED BY <1>2, <3>1, <3>2, CountersAreApart DEF get_csr_value, Plain
  <2>2. PICK i \in {0, 1} : i = register_mapping(a)[2]
    BY <1>2, CounterMapping
  <2>3. \A x \in 32 * i .. 32 * i + 31 : x - 32 * i \in Word
    BY DEF Word
  <2> QED BY <2>1, <2>2, <2>3 DEF default_read32, Half
<1>3. CASE a \notin Plain \cup Counters
  <2>1. get_csr_value(c, a) = {x - Offset(a) : x \in c[ReadAs(a)[1]] \cap ReadAs(a)[2]}
    BY <1>3, ReadForm, TableIs DEF Known
  <2>2. ReadAs(a)[2] \subseteq Word
    BY WriteMaskIsShown
  <2>3. a = ADDR.FRM => ReadAs(a)[2] = 5 .. 7
    BY AddressNumbers DEF ReadAs
  <2>4. \A x \in ReadAs(a)[2] : x - Offset(a) \in Word
    BY <2>2, <2>3 DEF Offset, Word
  <2> QED BY <2>1, <2>4
<1> QED BY <1>1, <1>2, <1>3

\* A write keeps the table well formed.
LEMMA WriteKeepsTable ==
  ASSUME NEW c, Table(c), NEW a \in Known, NEW v \in SUBSET Word
  PROVE  Table(set_csr_value(c, a, v))
<1>1. CASE a \in Plain \cup {ADDR.MISA}
  BY <1>1, PlainIsApart DEF set_csr_value, Plain
<1>2. CASE a \in Counters
  <2>1. set_csr_value(c, a, v) = default_write32(c, a, v)
    BY <1>2, CountersAreApart DEF set_csr_value, Plain
  <2> DEFINE i == register_mapping(a)[2]
             r == register_mapping(a)[1]
  <2>2. i \in {0, 1} /\ r \in {3072, 3073, 3074}
    BY <1>2, CounterMapping
  <2>4. set_csr_value(c, a, v) = [c EXCEPT ![r] = (@ \ (32 * i .. 32 * i + 31)) \cup {b + 32 * i : b \in v}]
    BY <2>1 DEF default_write32
  <2> HIDE DEF i, r
  <2>5. \A b \in v : b + 32 * i \in Wide
    BY <2>2 DEF Word, Wide
  <2>6. r \in Registers \cap Counters
    BY <2>2, CounterRegisters, CountersAre
  <2>7. (c[r] \ (32 * i .. 32 * i + 31)) \cup {b + 32 * i : b \in v} \in SUBSET Wide
    BY <2>5, <2>6 DEF Table
  <2> QED BY <2>4, <2>6, <2>7 DEF Table
<1>3. CASE a \notin Plain \cup {ADDR.MISA} \cup Counters
  <2> DEFINE r == ReadAs(a)[1]
             w == (c[r] \ WriteMask(a)) \cup ({x + Offset(a) : x \in v} \cap WriteMask(a))
  <2>1. set_csr_value(c, a, v) = [c EXCEPT ![r] = w]
    BY <1>3, WriteForm, TableIs DEF Known
  <2>2. r \in Registers \ Counters
    BY <1>3, Behind DEF Known
  <2>3. w \subseteq Word
    BY <2>2, WriteMaskIsShown DEF Table
  <2> HIDE DEF r, w
  <2> QED BY <2>1, <2>2, <2>3, WordIsWide DEF Table
<1> QED BY <1>1, <1>2, <1>3

\* An incremented counter is one.
LEMMA IncrementedIsWide ==
  ASSUME NEW s \in SUBSET Wide
  PROVE  Incremented(s) \in SUBSET Wide
<1>1. CASE s = 0 .. 63
  BY <1>1 DEF Incremented
<1>2. CASE s # 0 .. 63
  <2> DEFINE S == 0 .. 63 \ s
  <2>0. S # {}
    BY <1>2, Zenon DEF Wide
  <2>1. S # {} /\ S \subseteq Nat
    BY <2>0
  <2>2. \E x \in S : \A y \in S : x <= y
    BY <2>1, Least
  <2>3. Min(S) \in S
    BY <2>2 DEF Min
  <2> QED BY <1>2, <2>3 DEF Incremented, Wide
<1> QED BY <1>1, <1>2

-----------------------------------------------------------------------------
(* What a write shows.                                                      *)

\* Two tables that differ in the counters alone.
SameBut(c, d) == \A r \in Registers \ Counters : d[r] = c[r]

\* Reading time or cycles into the table leaves all but the counters alone.
LEMMA SampledTable ==
  ASSUME NEW c, Table(c), NEW a, NEW mtime \in SUBSET Wide, cycle_counter \in SUBSET Wide
  PROVE  Table(Sampled(c, a, mtime)) /\ SameBut(c, Sampled(c, a, mtime))
<1>1. Time \cap MCycle = {}
  BY AddressNumbers DEF Time, MCycle, At
<1>2. ADDR.TIME \in Registers \cap Counters /\ ADDR.CYCLE \in Registers \cap Counters
  BY AddressNumbers, CounterRegisters, CountersAre
<1>3. CASE a \in Time
  <2>1. Sampled(c, a, mtime) = [c EXCEPT ![ADDR.TIME] = mtime]
    BY <1>1, <1>3 DEF Sampled
  <2> QED BY <1>2, <2>1 DEF Table, SameBut
<1>4. CASE a \in MCycle
  <2>1. Sampled(c, a, mtime) = [c EXCEPT ![ADDR.CYCLE] = cycle_counter]
    BY <1>1, <1>4 DEF Sampled
  <2> QED BY <1>2, <2>1 DEF Table, SameBut
<1>5. CASE a \notin Time \cup MCycle
  BY <1>5 DEF Sampled, Table, SameBut
<1> QED BY <1>3, <1>4, <1>5

\* So does counting the instruction.
LEMMA CountTable ==
  ASSUME NEW c, Table(c), cycle_counter \in SUBSET Wide, Count(c)
  PROVE  Table(csrs') /\ SameBut(c, csrs') /\ cycle_counter' \in SUBSET Wide
<1>1. ADDR.INSTRET \in Registers \cap Counters
  BY AddressNumbers, CounterRegisters, CountersAre
<1>2. Incremented(c[ADDR.INSTRET]) \in SUBSET Wide /\ Incremented(cycle_counter) \in SUBSET Wide
  BY <1>1, IncrementedIsWide DEF Table
<1>3. cycle_counter' \in SUBSET Wide
  BY <1>2 DEF Count
<1>4. csrs' = c \/ csrs' = [c EXCEPT ![ADDR.INSTRET] = Incremented(c[ADDR.INSTRET])]
  BY DEF Count
<1> QED BY <1>1, <1>2, <1>3, <1>4 DEF Table, SameBut

\* Registers that are not counters read the same in two tables that agree on
\* them.
LEMMA SameLooks ==
  ASSUME NEW c, Table(c), NEW d, Table(d), SameBut(c, d), NEW b \in Known, b \notin Counters
  PROVE  get_csr_value(d, b) = get_csr_value(c, b)
<1>1. CASE b \in Plain
  <2>1. b \notin Views \cup At({"MSTATUS", "MIP", "MIE", "FCSR"})
    BY <1>1, PlainIsApart DEF Masked, At
  <2> QED BY <1>1, <2>1 DEF get_csr_value, Plain, AnyHpmcounter, HPMCOUNTER, MHPMCOUNTER, MHPMEVENT, Debug, TSELECT
<1>2. CASE b \notin Plain
  <2>1. d[ReadAs(b)[1]] = c[ReadAs(b)[1]]
    BY <1>2, Behind DEF SameBut, Known
  <2> QED BY <1>2, <2>1, ReadForm, TableIs DEF Known
<1> QED BY <1>1, <1>2

\* The bits of the register that an address shows changed.
LEMMA ChangedIs ==
  ASSUME NEW c, Table(c), NEW d, Table(d), NEW b \in Mapped \cup Views, b \notin Counters \cup Plain
  PROVE  Changed(c, d, b) =
           ((c[ReadAs(b)[1]] \ d[ReadAs(b)[1]]) \cup (d[ReadAs(b)[1]] \ c[ReadAs(b)[1]])) \cap ReadAs(b)[2]
<1> DEFINE r == ReadAs(b)[1]
           m == ReadAs(b)[2]
           o == Offset(b)
           s == c[r]
           t == d[r]
           x == get_csr_value(c, b)
           y == get_csr_value(d, b)
<1>1. r \in Registers \ Counters
  BY Behind
<1>2. s \subseteq Int /\ t \subseteq Int
  BY <1>1, WordIsWide DEF Table
<1>3. o \in Int
  BY DEF Offset
<1>4. x = {n - o : n \in s \cap m} /\ y = {n - o : n \in t \cap m}
  BY ReadForm, TableIs
<1>5. Changed(c, d, b) = {n + o : n \in (x \ y) \cup (y \ x)}
  BY DEF Changed
<1> HIDE DEF r, m, o, s, t, x, y
<1>6. \A n \in Int : /\ n - o \in x <=> n \in s \cap m
                     /\ n - o \in y <=> n \in t \cap m
  BY <1>2, <1>3, <1>4
<1>7. \A n \in Int : (n - o) + o = n
  BY <1>3
<1>8. x \cup y \subseteq {n - o : n \in Int}
  BY <1>2, <1>4
<1>9. Changed(c, d, b) = ((s \ t) \cup (t \ s)) \cap m
  <2>1. ASSUME NEW k \in (x \ y) \cup (y \ x) PROVE k + o \in ((s \ t) \cup (t \ s)) \cap m
    <3>1. PICK n \in Int : k = n - o
      BY <1>8
    <3> QED BY <1>6, <1>7, <3>1
  <2>2. ASSUME NEW n \in ((s \ t) \cup (t \ s)) \cap m PROVE n - o \in (x \ y) \cup (y \ x) /\ n = (n - o) + o
    BY <1>2, <1>6, <1>7
  <2> QED BY <1>5, <2>1, <2>2
<1> QED BY <1>9 DEF r, m, s, t

\* Addresses of the same register are views of it.
LEMMA SharedIs ==
  ASSUME NEW a \in Mapped \cup Views, NEW b \in Mapped \cup Views, ReadAs(a)[1] = ReadAs(b)[1]
  PROVE  b \in SharedWith(a)
<1> DEFINE M1 == At({"MSTATUS", "SSTATUS", "USTATUS"})
           M2 == At({"MIE", "SIE", "UIE"})
           M3 == At({"MIP", "SIP", "UIP"})
           M4 == At({"FCSR", "FFLAGS", "FRM"})
<1>1. /\ M1 = {768, 256, 0} /\ M2 = {772, 260, 4} /\ M3 = {836, 324, 68} /\ M4 = {3, 1, 2}
  BY AddressNumbers DEF At
<1>2. ASSUME NEW n PROVE ReadAs(n)[1] = IF n \in M1 THEN 768 ELSE IF n \in M2 THEN 772 ELSE
                                        IF n \in M3 THEN 836 ELSE IF n \in M4 THEN 3 ELSE n
  BY <1>1, AddressNumbers DEF ReadAs
<1>3. \E s \in {M1, M2, M3, M4, {a}} : a \in s /\ b \in s
  BY <1>1, <1>2
<1> QED BY <1>3 DEF SharedWith

\* A write shows where it is made, and in views of the same register the same bits;
\* it makes the bits that were asked for, or leaves them.
LEMMA WriteShows ==
  ASSUME NEW c, Table(c), NEW a \in Known, NEW v \in SUBSET Word, NEW d, d = set_csr_value(c, a, v)
  PROVE  /\ \A b \in (Mapped \cup Views) \ Counters :
              Changed(c, d, b) \subseteq IF b \in SharedWith(a) THEN Changed(c, d, a) ELSE {}
         /\ a \notin Counters => /\ get_csr_value(c, a) \cap v \subseteq get_csr_value(d, a)
                                /\ get_csr_value(d, a) \subseteq get_csr_value(c, a) \cup v
<1>0. Table(d)
  BY WriteKeepsTable
<1>1. ASSUME NEW b \in (Mapped \cup Views) \ Counters, get_csr_value(d, b) = get_csr_value(c, b)
      PROVE  Changed(c, d, b) = {}
  BY <1>1 DEF Changed
<1>2. CASE a \in Plain \cup {ADDR.MISA}
  <2>1. d = c
    BY <1>2, PlainIsApart DEF set_csr_value, Plain
  <2> QED BY <1>1, <2>1
<1>3. CASE a \in Counters
  <2>1. d = default_write32(c, a, v)
    BY <1>3, CountersAreApart DEF set_csr_value, Plain
  <2>2. register_mapping(a)[1] \in Counters
    BY <1>3, CounterMapping, CountersAre
  <2>3. SameBut(c, d)
    BY <2>1, <2>2 DEF default_write32, SameBut, Table
  <2>4. \A b \in (Mapped \cup Views) \ Counters : get_csr_value(d, b) = get_csr_value(c, b)
    BY <1>0, <2>3, SameLooks DEF Known
  <2> QED BY <1>1, <1>3, <2>4
<1>4. CASE a \notin Plain \cup {ADDR.MISA} \cup Counters
  <2> DEFINE r == ReadAs(a)[1]
             m == ReadAs(a)[2]
             w == WriteMask(a)
             o == Offset(a)
  <2>1. d = [c EXCEPT ![r] = (@ \ w) \cup ({x + o : x \in v} \cap w)]
    BY <1>4, WriteForm, TableIs DEF Known
  <2>2. r \in Registers \ Counters /\ a \in Mapped \cup Views
    BY <1>4, Behind DEF Known
  <2>3. d[r] = (c[r] \ w) \cup ({x + o : x \in v} \cap w)
    BY <2>1, <2>2 DEF Table
  <2>4. w \subseteq m /\ m \subseteq Int
    BY WriteMaskIsShown, WordIsWide
  <2>5. Changed(c, d, a) = (c[r] \ d[r]) \cup (d[r] \ c[r])
    <3>1. Changed(c, d, a) = ((c[r] \ d[r]) \cup (d[r] \ c[r])) \cap m
      BY <1>0, <1>4, <2>2, ChangedIs
    <3> QED BY <2>3, <2>4, <3>1
  <2>6. ASSUME NEW b \in (Mapped \cup Views) \ Counters
        PROVE  Changed(c, d, b) \subseteq IF b \in SharedWith(a) THEN Changed(c, d, a) ELSE {}
    <3>1. CASE b \in Plain
      <4>1. b \notin Views \cup At({"MSTATUS", "MIP", "MIE", "FCSR"})
        BY <3>1, PlainIsApart DEF Masked, At
      <4>2. get_csr_value(d, b) = get_csr_value(c, b)
        BY <3>1, <4>1
           DEF get_csr_value, Plain, AnyHpmcounter, HPMCOUNTER, MHPMCOUNTER, MHPMEVENT, Debug, TSELECT
      <4> QED BY <1>1, <4>2
    <3>2. CASE b \notin Plain /\ ReadAs(b)[1] = r
      <4>1. b \in SharedWith(a)
        BY <2>2, <3>2, SharedIs
      <4>2. Changed(c, d, b) = ((c[r] \ d[r]) \cup (d[r] \ c[r])) \cap ReadAs(b)[2]
        BY <1>0, <3>2, ChangedIs
      <4> QED BY <2>5, <4>1, <4>2
    <3>3. CASE b \notin Plain /\ ReadAs(b)[1] # r
      <4>1. d[ReadAs(b)[1]] = c[ReadAs(b)[1]]
        BY <2>1, <3>3, Behind DEF Table
      <4>2. Changed(c, d, b) = {}
        BY <1>0, <3>3, <4>1, ChangedIs
      <4> QED BY <4>2
    <3> QED BY <3>1, <3>2, <3>3
  <2>7. /\ get_csr_value(c, a) = {x - o : x \in c[r] \cap m}
        /\ get_csr_value(d, a) = {x - o : x \in d[r] \cap m}
    BY <1>0, <1>4, <2>2, ReadForm, TableIs
  <2>8. o \in Int /\ v \subseteq Int /\ c[r] \subseteq Int
    <3>1. o \in Int
      BY DEF Offset
    <3>2. c[r] \subseteq Int
      BY <2>2, WordIsWide DEF Table
    <3> QED BY <3>1, <3>2, WordIsWide
  <2> HIDE DEF r, m, w, o
  <2>9. ASSUME NEW k \in get_csr_value(c, a) \cap v PROVE k \in get_csr_value(d, a)
    <3>1. PICK x \in c[r] \cap m : k = x - o
      BY <2>7
    <3>2. x = k + o
      BY <2>8, <3>1
    <3>3. x \in d[r]
      BY <2>3, <3>2
    <3> QED BY <2>7, <3>1, <3>3
  <2>10. ASSUME NEW k \in get_csr_value(d, a) PROVE k \in get_csr_value(c, a) \cup v
    <3>1. PICK x \in d[r] \cap m : k = x - o
      BY <2>7
    <3>2. CASE x \in c[r]
      BY <2>7, <3>1, <3>2
    <3>3. CASE x \notin c[r]
      <4>1. PICK y \in v : x = y + o
        BY <2>3, <3>1, <3>3
      <4>2. k = y
        BY <2>8, <3>1, <4>1
      <4> QED BY <4>2
    <3> QED BY <3>2, <3>3
  <2> QED BY <2>6, <2>9, <2>10
<1> QED BY <1>2, <1>3, <1>4

-----------------------------------------------------------------------------
(* The invariant, and one instruction.                                      *)

CsrTypeOK ==
  /\ Table(csrs)
  /\ cycle_counter \in SUBSET Wide
  /\ rd \in SUBSET Word
  /\ illegal \in BOOLEAN
  /\ firmware \in [value : SUBSET Word, left : SUBSET Addresses]
  /\ executed \in 0 .. MaxInstrs

\* An instruction that traps leaves everything but the counters; one that does not
\* leaves the table that a write to its address makes, but for the counters.
Effect(op, a, writes, v) ==
  /\ Table(csrs') /\ cycle_counter' \in SUBSET Wide /\ rd' \in SUBSET Word /\ illegal' \in BOOLEAN
  /\ illegal' => rd' = rd /\ SameBut(csrs, csrs')
  /\ ~illegal' /\ ~Writes(op, writes) => SameBut(csrs, csrs')
  /\ ~illegal' /\ Writes(op, writes) =>
       \E c : /\ Table(c) /\ SameBut(csrs, c) /\ a \in Known
              /\ Result(op, get_csr_value(c, a), v) \in SUBSET Word
              /\ SameBut(set_csr_value(c, a, Result(op, get_csr_value(c, a), v)), csrs')

\* The effect of one CSR instruction: nothing but counters when it traps, and
\* only what the address shares when it does not.
LEMMA OneInstruction ==
  ASSUME Table(csrs), cycle_counter \in SUBSET Wide, rd \in SUBSET Word,
         NEW prv, NEW op \in {"CSRRW", "CSRRS", "CSRRC"}, NEW a, NEW reads, NEW writes,
         NEW v \in SUBSET Word, NEW mtime \in SUBSET Wide,
         CsrInstruction(prv, op, a, reads, writes, v, mtime)
  PROVE  Effect(op, a, writes, v)
<1> DEFINE denied == \/ is_invalid_csr_access(csrs, prv, a, Writes(op, writes))
                     \/ Reads(op, reads) /\ ReadIllegal(csrs, prv, a)
           c == IF Reads(op, reads) THEN Sampled(csrs, a, mtime) ELSE csrs
           old == get_csr_value(c, a)
           bad == Writes(op, writes) /\ WriteIllegal(c, a)
           d == IF Writes(op, writes) /\ ~bad THEN set_csr_value(c, a, Result(op, old, v)) ELSE c
<1>1. CASE denied
  <2>1. Count(csrs) /\ illegal' = TRUE /\ rd' = rd
    BY <1>1, Zenon DEF CsrInstruction
  <2> QED BY <2>1, CountTable DEF Effect
<1>2. CASE ~denied
  <2>1. Table(c) /\ SameBut(csrs, c)
    BY SampledTable DEF SameBut
  <2>2. illegal' = bad /\ rd' = (IF reads THEN old ELSE rd)
    BY <1>2, Zenon DEF CsrInstruction
  <2>3. Count(d)
    BY <1>2, Zenon DEF CsrInstruction
  <2>4. Reads(op, reads) => a \in Known
    BY <1>2 DEF ReadIllegal, Known, Plain
  <2>5. reads => Reads(op, reads)
    BY DEF Reads
  <2>6. a \in Known => old \in SUBSET Word /\ Result(op, old, v) \in SUBSET Word
    BY <2>1, ReadIsWord DEF Result
  <2>7. Writes(op, writes) /\ ~bad => a \in Known
    BY DEF WriteIllegal, Known, Plain
  <2>8. Table(d)
    BY <2>1, <2>6, <2>7, WriteKeepsTable
  <2>9. Table(csrs') /\ SameBut(d, csrs') /\ cycle_counter' \in SUBSET Wide
    BY <2>3, <2>8, CountTable
  <2>10. rd' \in SUBSET Word
    BY <2>2, <2>4, <2>5, <2>6
  <2>11. reads => ~bad
    <3>1. ASSUME reads PROVE ~WriteIllegal(c, a)
      <4>1. ~ReadIllegal(csrs, prv, a) /\ Reads(op, reads)
        BY <1>2, <2>5, <3>1
      <4>2. a = ADDR.SATP => c = csrs
        BY AddressNumbers DEF Sampled, Time, MCycle, At
      <4> QED BY <4>1, <4>2 DEF ReadIllegal, WriteIllegal, TranslationTrapped
    <3> QED BY <3>1
  <2>12. bad => SameBut(csrs, csrs') /\ rd' = rd
    BY <2>1, <2>2, <2>9, <2>11 DEF SameBut
  <2>13. ~Writes(op, writes) => SameBut(csrs, csrs')
    BY <2>1, <2>9 DEF SameBut
  <2>14. illegal' \in BOOLEAN
    BY <2>2, Zenon
  <2>15. ASSUME ~illegal', Writes(op, writes)
         PROVE  /\ a \in Known /\ Result(op, get_csr_value(c, a), v) \in SUBSET Word
                /\ SameBut(set_csr_value(c, a, Result(op, get_csr_value(c, a), v)), csrs')
    BY <2>2, <2>6, <2>7, <2>9, <2>15
  <2>16. illegal' => rd' = rd /\ SameBut(csrs, csrs')
    BY <2>2, <2>12
  <2> HIDE DEF c, bad, old, d, denied
  <2> QED BY <2>1, <2>9, <2>10, <2>13, <2>14, <2>15, <2>16 DEF Effect
<1> QED BY <1>1, <1>2

\* The initial tables are well typed.
LEMMA InitType == CoreInit => CsrTypeOK
<1> SUFFICES ASSUME CoreInit PROVE CsrTypeOK
  OBVIOUS
<1>1. misa \subseteq Word
  BY DEF misa, Extension, Word
<1>2. Table(csrs)
  BY <1>1, WordIsWide DEF CoreInit, CsrInit, Table
<1>3. firmware \in [value : SUBSET Word, left : SUBSET Addresses]
  BY CoreAssumption DEF CoreInit
<1>4. executed \in 0 .. MaxInstrs
  BY CoreAssumption DEF CoreInit
<1>5. cycle_counter = {} /\ rd = {} /\ illegal = FALSE
  BY DEF CoreInit, CsrInit
<1> QED BY <1>2, <1>3, <1>4, <1>5 DEF CsrTypeOK

\* The firmware's writes keep them so.
LEMMA ConfigureType ==
  ASSUME CsrTypeOK, NEW a \in Addresses, Configure(a)
  PROVE  CsrTypeOK'
<1>1. Table(csrs')
  <2>1. CASE WriteIllegal(csrs, a) \/ ReadOnly(a)
    BY <2>1 DEF Configure, CsrTypeOK
  <2>2. CASE ~(WriteIllegal(csrs, a) \/ ReadOnly(a))
    <3>1. a \in Known
      BY <2>2 DEF WriteIllegal, Known, Plain
    <3> QED BY <2>2, <3>1, WriteKeepsTable DEF Configure, CsrTypeOK
  <2> QED BY <2>1, <2>2
<1>2. firmware' \in [value : SUBSET Word, left : SUBSET Addresses]
  BY DEF Configure, CsrTypeOK
<1>3. Table(csrs)'
  BY <1>1 DEF Table
<1> QED BY <1>2, <1>3 DEF Configure, CsrTypeOK

\* So does every CSR instruction.
LEMMA ExecuteType ==
  ASSUME CsrTypeOK, executed < MaxInstrs, NEW prv, NEW op \in {"CSRRW", "CSRRS", "CSRRC"}, NEW a \in Addresses,
         NEW reads \in BOOLEAN, NEW writes \in BOOLEAN, NEW v \in Values, ExecuteCsr(prv, op, a, reads, writes, v)
  PROVE  CsrTypeOK'
<1>1. PICK mtime \in Times : CsrInstruction(prv, op, a, reads, writes, v, mtime)
  BY DEF ExecuteCsr
<1>2. mtime \in SUBSET Wide /\ v \in SUBSET Word
  BY CsrAssumption DEF Wide
<1>3. Table(csrs') /\ cycle_counter' \in SUBSET Wide /\ rd' \in SUBSET Word /\ illegal' \in BOOLEAN
  <2>1. Table(csrs) /\ cycle_counter \in SUBSET Wide /\ rd \in SUBSET Word
    BY DEF CsrTypeOK
  <2>2. Effect(op, a, writes, v)
    BY <1>1, <1>2, <2>1, OneInstruction, SMT
  <2> QED BY <2>2 DEF Effect
<1>4. Table(csrs)'
  BY <1>3 DEF Table
<1>5. executed' \in 0 .. MaxInstrs /\ firmware' = firmware
  BY CoreAssumption DEF ExecuteCsr, CsrTypeOK
<1> QED BY <1>3, <1>4, <1>5 DEF CsrTypeOK

\* So does every step.
LEMMA NextType == CsrTypeOK /\ [CoreNext]_coreVars => CsrTypeOK'
<1> SUFFICES ASSUME CsrTypeOK, [CoreNext]_coreVars PROVE CsrTypeOK'
  OBVIOUS
<1>1. CASE UNCHANGED <<csrVars, firmware, executed>>
  BY <1>1 DEF csrVars, CsrTypeOK, Table
<1>2. CASE \E a \in Addresses : Configure(a)
  BY <1>2, ConfigureType
<1>3. CASE /\ executed < MaxInstrs
           /\ \E prv \in {0, 1, 3}, op \in {"CSRRW", "CSRRS", "CSRRC"}, a \in Addresses, v \in Values,
                 reads, writes \in BOOLEAN : ExecuteCsr(prv, op, a, reads, writes, v)
  BY <1>3, ExecuteType
<1> QED BY <1>1, <1>2, <1>3 DEF CoreNext, coreVars

\* Type correctness of the control and status registers: csr_table keeps a value of
\* the right width in every register whatever is written.
THEOREM CsrTypeCorrect == CoreSpec => []CsrTypeOK
BY InitType, NextType, PTL DEF CoreSpec

\* A step that counts an instruction executes one.
LEMMA CountedIsExecuted ==
  ASSUME CsrTypeOK, [CoreNext]_coreVars, executed' # executed
  PROVE  \E prv \in {0, 1, 3}, op \in {"CSRRW", "CSRRS", "CSRRC"}, a \in Addresses, v \in Values,
            reads, writes \in BOOLEAN : ExecuteCsr(prv, op, a, reads, writes, v)
BY DEF CoreNext, coreVars, Configure

\* A step that traps changes neither rd nor a register, counters aside.
LEMMA StepHasNoEffect ==
  ASSUME CsrTypeOK, [CoreNext]_coreVars, illegal', executed' # executed
  PROVE  rd' = rd /\ \A r \in Registers \ Counters : csrs'[r] = csrs[r]
<1>1. PICK prv \in {0, 1, 3}, op \in {"CSRRW", "CSRRS", "CSRRC"}, a \in Addresses, v \in Values,
           reads \in BOOLEAN, writes \in BOOLEAN : ExecuteCsr(prv, op, a, reads, writes, v)
  BY CountedIsExecuted
<1>2. PICK mtime \in Times : CsrInstruction(prv, op, a, reads, writes, v, mtime)
  BY <1>1 DEF ExecuteCsr
<1>3. mtime \in SUBSET Wide /\ v \in SUBSET Word
  BY CsrAssumption DEF Wide
<1>4. Table(csrs) /\ cycle_counter \in SUBSET Wide /\ rd \in SUBSET Word
  BY DEF CsrTypeOK
<1>5. Effect(op, a, writes, v)
  BY <1>2, <1>3, <1>4, OneInstruction, SMT
<1> QED BY <1>5 DEF Effect, SameBut

\* A step that does not trap changes only what the written address shares.
LEMMA StepIsConfined ==
  ASSUME CsrTypeOK, [CoreNext]_coreVars, ~illegal', executed' # executed
  PROVE  /\ \A b \in (Mapped \cup Views) \ Counters :
              Changed(csrs, csrs', b) \subseteq
                IF last'.writes /\ b \in SharedWith(last'.addr) THEN Changed(csrs, csrs', last'.addr) ELSE {}
         /\ last'.writes /\ last'.addr \notin Counters =>
              LET old == get_csr_value(csrs, last'.addr)
                  new == get_csr_value(csrs', last'.addr)
                  wanted == Result(last'.op, old, last'.value)
              IN  old \cap wanted \subseteq new /\ new \subseteq old \cup wanted
<1>1. PICK prv \in {0, 1, 3}, op \in {"CSRRW", "CSRRS", "CSRRC"}, a \in Addresses, v \in Values,
           reads \in BOOLEAN, writes \in BOOLEAN : ExecuteCsr(prv, op, a, reads, writes, v)
  BY CountedIsExecuted
<1>2. PICK mtime \in Times : CsrInstruction(prv, op, a, reads, writes, v, mtime)
  BY <1>1 DEF ExecuteCsr
<1>3. mtime \in SUBSET Wide /\ v \in SUBSET Word
  BY CsrAssumption DEF Wide
<1>4. Table(csrs) /\ cycle_counter \in SUBSET Wide /\ rd \in SUBSET Word
  BY DEF CsrTypeOK
<1>e. Effect(op, a, writes, v)
  BY <1>2, <1>3, <1>4, OneInstruction, SMT
<1>5. Table(csrs')
  BY <1>e DEF Effect
<1>6. last' = [op |-> op, addr |-> a, writes |-> Writes(op, writes), value |-> v]
  BY <1>1 DEF ExecuteCsr
<1>7. last'.op = op /\ last'.addr = a /\ last'.writes = Writes(op, writes) /\ last'.value = v
  BY <1>6
<1>8. CASE ~Writes(op, writes)
  <2>1. SameBut(csrs, csrs')
    BY <1>e, <1>8 DEF Effect
  <2>2. \A b \in (Mapped \cup Views) \ Counters : get_csr_value(csrs', b) = get_csr_value(csrs, b)
    BY <1>4, <1>5, <2>1, SameLooks DEF Known
  <2>3. \A b \in (Mapped \cup Views) \ Counters : Changed(csrs, csrs', b) = {}
    BY <2>2 DEF Changed
  <2> QED BY <1>7, <1>8, <2>3
<1>9. CASE Writes(op, writes)
  <2>1. PICK c : /\ Table(c) /\ SameBut(csrs, c) /\ a \in Known
                 /\ Result(op, get_csr_value(c, a), v) \in SUBSET Word
                 /\ SameBut(set_csr_value(c, a, Result(op, get_csr_value(c, a), v)), csrs')
    BY <1>e, <1>9 DEF Effect
  <2> DEFINE wanted == Result(op, get_csr_value(c, a), v)
             d == set_csr_value(c, a, wanted)
  <2>2. Table(d)
    BY <2>1, WriteKeepsTable
  <2>3. \A b \in Known \ Counters : /\ get_csr_value(c, b) = get_csr_value(csrs, b)
                                    /\ get_csr_value(csrs', b) = get_csr_value(d, b)
    BY <1>4, <1>5, <2>1, <2>2, SameLooks
  <2>4. /\ \A b \in (Mapped \cup Views) \ Counters :
             Changed(c, d, b) \subseteq IF b \in SharedWith(a) THEN Changed(c, d, a) ELSE {}
        /\ a \notin Counters => /\ get_csr_value(c, a) \cap wanted \subseteq get_csr_value(d, a)
                               /\ get_csr_value(d, a) \subseteq get_csr_value(c, a) \cup wanted
    BY <2>1, WriteShows
  <2> HIDE DEF d
  <2>5. \A b \in Known \ Counters : Changed(csrs, csrs', b) = Changed(c, d, b)
    BY <2>3 DEF Changed
  <2>6. ASSUME NEW b \in (Mapped \cup Views) \ Counters
        PROVE  Changed(csrs, csrs', b) \subseteq IF b \in SharedWith(a) THEN Changed(csrs, csrs', a) ELSE {}
    <3>1. CASE a \in Counters
      <4>1. b \notin SharedWith(a)
        <5>1. /\ At({"MSTATUS", "SSTATUS", "USTATUS"}) = {768, 256, 0} /\ At({"MIE", "SIE", "UIE"}) = {772, 260, 4}
              /\ At({"MIP", "SIP", "UIP"}) = {836, 324, 68} /\ At({"FCSR", "FFLAGS", "FRM"}) = {3, 1, 2}
          BY AddressNumbers DEF At
        <5> QED BY <3>1, <5>1, CountersAre DEF SharedWith
      <4> QED BY <2>4, <2>5, <4>1 DEF Known
    <3>2. CASE a \notin Counters
      BY <2>1, <2>4, <2>5, <3>2 DEF Known
    <3> QED BY <3>1, <3>2
  <2>7. a \notin Counters =>
          /\ get_csr_value(csrs, a) \cap Result(op, get_csr_value(csrs, a), v) \subseteq get_csr_value(csrs', a)
          /\ get_csr_value(csrs', a) \subseteq get_csr_value(csrs, a) \cup Result(op, get_csr_value(csrs, a), v)
    BY <2>1, <2>3, <2>4
  <2> QED BY <1>7, <1>9, <2>6, <2>7
<1> QED BY <1>8, <1>9

\* For every address, mode, operand and configuration by firmware: a CSR instruction
\* that raises an illegal instruction changed neither the destination register nor a
\* register of csr_table, but for the counters.
THEOREM TrapHasNoEffect == CoreSpec => TrappedAccessHasNoEffect
<1>1. CsrTypeOK /\ [CoreNext]_coreVars =>
        [illegal' /\ executed' # executed =>
           rd' = rd /\ \A r \in Registers \ Counters : csrs'[r] = csrs[r]]_coreVars
  BY StepHasNoEffect
<1> QED BY <1>1, CsrTypeCorrect, PTL DEF CoreSpec, TrappedAccessHasNoEffect

\* For every address, mode, operand and configuration by firmware: a CSR instruction
\* changes the bits that set_csr_value lets through of the register it names, and
\* other addresses show the change only as views of that register.
THEOREM WritesAreConfined == CoreSpec => WriteIsConfined
<1>1. CsrTypeOK /\ [CoreNext]_coreVars =>
        [executed' # executed /\ ~illegal' =>
           /\ \A b \in (Mapped \cup Views) \ Counters :
                Changed(csrs, csrs', b) \subseteq
                  IF last'.writes /\ b \in SharedWith(last'.addr) THEN Changed(csrs, csrs', last'.addr) ELSE {}
           /\ last'.writes /\ last'.addr \notin Counters =>
                LET old == get_csr_value(csrs, last'.addr)
                    new == get_csr_value(csrs', last'.addr)
                    wanted == Result(last'.op, old, last'.value)
                IN  old \cap wanted \subseteq new /\ new \subseteq old \cup wanted]_coreVars
  BY StepIsConfined
<1> QED BY <1>1, CsrTypeCorrect, PTL DEF CoreSpec, WriteIsConfined
=============================================================================
