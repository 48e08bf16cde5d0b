--------------------------- MODULE IssTrapProofs ---------------------------
(***************************************************************************)
(* Theorems about IssTrap, for every address space, every set of           *)
(* interrupts and exceptions, and any software; and about the software of  *)
(* MCNestedHandlers, for any depth to which it lets traps nest.            *)
(***************************************************************************)
EXTENDS MCNestedHandlers, SequenceTheorems, WellFoundedInduction, TLAPS

-----------------------------------------------------------------------------
(* Arithmetic.                                                             *)

\* A non-empty set of naturals has a least element.
LEMMA Least ==
  ASSUME NEW S, S \subseteq Nat, S # {}
  PROVE  \E x \in S : \A y \in S : x <= y
  <1>1. PICK x \in S : \A y \in S : ~ (<<y, x>> \in OpToRel(<, Nat))
    BY WFMin, NatLessThanWellFounded
  <1>2. ASSUME NEW y \in S PROVE x <= y
    <2>1. x \in Nat /\ y \in Nat /\ ~ (y < x)
      BY <1>1 DEF OpToRel
    <2> QED
      BY <2>1
  <1> QED
    BY <1>2

\* A non-empty bounded set of naturals has a greatest element: its distance from
\* the bound is least.
LEMMA Greatest ==
  ASSUME NEW n \in Nat, NEW S, S \subseteq 0..n, S # {}
  PROVE  \E x \in S : \A y \in S : y <= x
  <1>1. PICK t \in {n - y : y \in S} : \A u \in {n - y : y \in S} : t <= u
    <2>1. {n - y : y \in S} # {}
      OBVIOUS
    <2>2. ASSUME NEW y \in S PROVE n - y \in Nat
      OBVIOUS
    <2>3. {n - y : y \in S} \subseteq Nat
      BY <2>2
    <2> QED
      BY <2>1, <2>3, Least
  <1>2. PICK x \in S : t = n - x
    BY <1>1
  <1>3. ASSUME NEW y \in S PROVE y <= x
    <2>1. t <= n - y /\ x \in 0..n /\ y \in 0..n
      BY <1>1
    <2> QED
      BY <1>2, <2>1
  <1> QED
    BY <1>3

\* An even address stays in the address space, and even, when it wraps.
LEMMA WrapEven ==
  ASSUME NEW a \in Nat, a % 2 = 0
  PROVE  (a % AddrSpace) \in Addr /\ (a % AddrSpace) % 2 = 0
<1> DEFINE q == a \div AddrSpace
<1> DEFINE r == a % AddrSpace
<1>1. AddrSpace \in Nat /\ AddrSpace > 0
  BY AddrSpaceAssumption
<1>2. q \in Int /\ r \in Int /\ 0 <= r /\ r < AddrSpace /\ a = AddrSpace * q + r
  BY <1>1
<1>3. PICK k \in Int : AddrSpace = 2 * k
  <2>1. AddrSpace % 2 = 0
    BY <1>1, AddrSpaceAssumption
  <2>2. AddrSpace = 2 * (AddrSpace \div 2)
    BY <1>1, <2>1
  <2> QED BY <2>2, <1>1
<1>4. PICK j \in Int : a = 2 * j
  <2>1. a = 2 * (a \div 2)
    OBVIOUS
  <2> QED BY <2>1
<1>5. r = 2 * j - (2 * k) * q
  BY <1>2, <1>3, <1>4
<1>6. (2 * k) * q = 2 * (k * q)
  BY <1>2
<1>7. PICK z \in Int : r = 2 * z
  <2>1. k * q \in Int
    BY <1>2
  <2>2. r = 2 * (j - k * q)
    BY <1>5, <1>6, <2>1
  <2> QED BY <2>1, <2>2
<1>8. r % 2 = 0
  BY <1>7
<1> HIDE DEF r
<1>9. r \in 0 .. AddrSpace - 1
  BY <1>1, <1>2
<1> QED BY <1>8, <1>9 DEF Addr, r
-----------------------------------------------------------------------------
(* What every operator on the hart preserves.                              *)

\* The inductive invariant on the hart.  Its last part is what makes the
\* unchecked MRET harmless: outside machine mode, mpp is user mode and mpie
\* is set.
Sound(h) ==
  /\ h \in Hart
  /\ h.pc % 2 = 0
  /\ \A m \in Modes : h.epc[m] % 2 = 0
  /\ h.prv < MachineMode => h.mpp = UserMode /\ h.pie[MachineMode] = TRUE

\* The modes and the interrupts, one by one.
LEMMA ModesAre ==
  Modes = {0, 1, 3} /\ AllIrqs = {0, 1, 3, 4, 5, 7, 8, 9, 11}
BY DEF Modes, AllIrqs, Software, Timer, External, UserMode, SupervisorMode, MachineMode

\* The next instruction.
LEMMA AdvanceSound ==
  ASSUME NEW h, Sound(h), NEW size \in {2, 4}
  PROVE  Sound(Advance(h, size))
<1>1. h.pc + size \in Nat /\ (h.pc + size) % 2 = 0
  BY AddrSpaceAssumption DEF Sound, Hart, Addr
<1>2. (h.pc + size) % AddrSpace \in Addr /\ ((h.pc + size) % AddrSpace) % 2 = 0
  BY <1>1, WrapEven
<1> DEFINE w == (h.pc + size) % AddrSpace
<1> HIDE DEF w
<1>3. Advance(h, size) = [h EXCEPT !.pc = w]
  BY DEF Advance, w, Sound, Hart
<1> QED BY <1>2, <1>3 DEF Sound, Hart, w

\* A trap or an interrupt.
LEMMA SwitchSound ==
  ASSUME NEW h, Sound(h), NEW mode \in Modes, NEW interrupt \in BOOLEAN,
         NEW code \in 0 .. 15,
         mode = MachineMode \/ h.prv < MachineMode
  PROVE  Sound(switch_to_trap_handler(h, mode, interrupt, code))
<1> DEFINE a == h.tvec[mode].base + VectorOffset(h, mode, interrupt, code)
<1> DEFINE w == a % AddrSpace
<1>1. h.tvec[mode] \in TrapVector
  BY DEF Sound, Hart
<1>2. a \in Nat /\ a % 2 = 0
  <2> DEFINE b == h.tvec[mode].base
  <2> DEFINE o == VectorOffset(h, mode, interrupt, code)
  <2>1. b \in Nat /\ b % 4 = 0
    BY <1>1, AddrSpaceAssumption DEF TrapVector, Addr
  <2>2. o \in Nat /\ o % 4 = 0
    BY DEF VectorOffset
  <2> HIDE DEF b, o
  <2>3. b + o \in Nat /\ (b + o) % 2 = 0
    BY <2>1, <2>2
  <2> QED BY <2>3 DEF b, o
<1>3. w \in Addr /\ w % 2 = 0
  BY <1>2, WrapEven
<1>4. h.prv % 2 \in 0 .. 1
  BY DEF Sound, Hart
<1> DEFINE np == IF mode = MachineMode THEN h.prv ELSE h.mpp
<1> DEFINE ns == IF mode = SupervisorMode THEN h.prv % 2 ELSE h.spp
<1> DEFINE s == switch_to_trap_handler(h, mode, interrupt, code)
<1>5. s = [h EXCEPT !.prv = mode, !.epc = [@ EXCEPT ![mode] = h.pc],
                    !.pie = [@ EXCEPT ![mode] = h.ie[mode]],
                    !.ie = [@ EXCEPT ![mode] = FALSE],
                    !.mpp = np, !.spp = ns, !.pc = w]
  BY DEF switch_to_trap_handler, Sound, Hart
<1>a. np \in 0 .. 3 /\ ns \in 0 .. 1
  BY <1>4 DEF Sound, Hart
<1>b. /\ [h.epc EXCEPT ![mode] = h.pc] \in [Modes -> Addr]
      /\ [h.pie EXCEPT ![mode] = h.ie[mode]] \in [Modes -> BOOLEAN]
      /\ [h.ie EXCEPT ![mode] = FALSE] \in [Modes -> BOOLEAN]
  BY DEF Sound, Hart
<1>c. mode \in 0 .. 3
  BY ModesAre
<1> HIDE DEF w, a, s, np, ns
<1>6. s \in Hart
  BY <1>3, <1>5, <1>a, <1>b, <1>c DEF Sound, Hart
<1>7. s.pc = w /\ s.epc = [h.epc EXCEPT ![mode] = h.pc] /\ s.prv = mode
      /\ s.mpp = IF mode = MachineMode THEN h.prv ELSE h.mpp
  BY <1>5 DEF Sound, Hart, np
<1>d. mode # MachineMode => s.pie[MachineMode] = h.pie[MachineMode]
  <2>1. s.pie = [h.pie EXCEPT ![mode] = h.ie[mode]]
    BY <1>5 DEF Sound, Hart
  <2>2. h.pie \in [Modes -> BOOLEAN] /\ MachineMode \in Modes
    BY DEF Sound, Hart, Modes
  <2> QED BY <2>1, <2>2
<1>8. Sound(s)
  BY <1>3, <1>6, <1>7, <1>d, ModesAre DEF Sound, Hart, MachineMode, UserMode
<1> QED BY <1>8 DEF s

\* One of the pending interrupts is chosen.
LEMMA PrepareInterrupt ==
  ASSUME NEW P, P \subseteq AllIrqs, P # {}
  PROVE  prepare_interrupt(P) \in P
<1> DEFINE R == {Rank(i) : i \in P}
<1>1. \A i \in AllIrqs : Rank(i) \in 0 .. 14
  BY ModesAre DEF Rank
<1>2. R \subseteq 0 .. 14 /\ R # {}
  BY <1>1
<1>3. PICK r \in R : \A y \in R : y <= r
  BY <1>2, Greatest
<1>4. PICK i \in P : Rank(i) = r
  BY <1>3
<1>5. \A j \in P : Rank(j) <= Rank(i)
  BY <1>3, <1>4
<1> QED BY <1>5 DEF prepare_interrupt

\* The chosen target mode, when there is one.
LEMMA TargetMode ==
  ASSUME NEW h, compute_pending_interrupts(h) # {}
  PROVE  LET mode == Max(compute_pending_interrupts(h))
         IN  mode \in Modes /\ Deliverable(h, mode)
<1> DEFINE S == compute_pending_interrupts(h)
<1>1. S \subseteq {0, 1, 3}
  BY ModesAre DEF compute_pending_interrupts
<1> HIDE DEF S
<1>2. \E x \in S : \A y \in S : x >= y
  <2>1. S \subseteq 0 .. 3 /\ S # {}
    BY <1>1 DEF S
  <2>2. PICK x \in S : \A y \in S : y <= x
    BY <2>1, Greatest
  <2> QED BY <2>1, <2>2
<1>3. Max(S) \in S
  BY <1>2 DEF Max
<1> QED BY <1>3 DEF S, compute_pending_interrupts

\* The check after an instruction.
LEMMA CheckSound ==
  ASSUME NEW h, Sound(h)
  PROVE  Sound(check_interrupts(h))
<1>1. CASE compute_pending_interrupts(h) = {}
  BY <1>1 DEF check_interrupts
<1>2. CASE compute_pending_interrupts(h) # {}
  <2> DEFINE mode == Max(compute_pending_interrupts(h))
  <2> DEFINE irq == prepare_interrupt(Pending(h, mode))
  <2>1. mode \in Modes /\ Deliverable(h, mode)
    BY <1>2, TargetMode
  <2> HIDE DEF mode
  <2>2. Pending(h, mode) \subseteq AllIrqs /\ Pending(h, mode) # {}
    BY <2>1 DEF Pending, Deliverable, Sound, Hart
  <2>3. irq \in 0 .. 15
    BY <2>2, PrepareInterrupt, ModesAre
  <2> HIDE DEF irq
  <2>4. mode = MachineMode \/ h.prv < MachineMode
    BY <2>1, ModesAre DEF Deliverable, Sound, Hart, MachineMode
  <2>5. Sound(switch_to_trap_handler(h, mode, TRUE, irq))
    BY <2>1, <2>3, <2>4, SwitchSound
  <2> QED BY <1>2, <2>5 DEF check_interrupts, mode, irq
<1> QED BY <1>1, <1>2

\* MRET.
LEMMA ReturnSound ==
  ASSUME NEW h, Sound(h)
  PROVE  Sound(return_from_trap_handler(h))
<1> DEFINE s == return_from_trap_handler(h)
<1>1. MachineMode \in Modes /\ UserMode \in 0 .. 3
  BY DEF Modes, MachineMode, UserMode
<1>2. s = [h EXCEPT !.prv = h.mpp,
                    !.ie = [@ EXCEPT ![MachineMode] = h.pie[MachineMode]],
                    !.pie = [@ EXCEPT ![MachineMode] = TRUE],
                    !.pc = h.epc[MachineMode], !.mpp = UserMode]
  BY DEF return_from_trap_handler, Sound, Hart
<1>3. /\ [h.ie EXCEPT ![MachineMode] = h.pie[MachineMode]] \in [Modes -> BOOLEAN]
      /\ [h.pie EXCEPT ![MachineMode] = TRUE] \in [Modes -> BOOLEAN]
      /\ h.epc[MachineMode] \in Addr
  BY <1>1 DEF Sound, Hart
<1> HIDE DEF s
<1>4. s \in Hart
  BY <1>1, <1>2, <1>3 DEF Sound, Hart
<1>5. s.pc = h.epc[MachineMode] /\ s.epc = h.epc /\ s.mpp = UserMode
  BY <1>2 DEF Sound, Hart
<1>6. s.pie[MachineMode] = TRUE
  <2>1. s.pie = [h.pie EXCEPT ![MachineMode] = TRUE]
    BY <1>2 DEF Sound, Hart
  <2>2. h.pie \in [Modes -> BOOLEAN]
    BY DEF Sound, Hart
  <2> QED BY <1>1, <2>1, <2>2
<1>7. Sound(s)
  BY <1>1, <1>4, <1>5, <1>6 DEF Sound
<1> QED BY <1>7 DEF s

\* A jump, from any register value.
LEMMA JumpSound ==
  ASSUME NEW h, Sound(h), NEW target \in Addr
  PROVE  Sound([h EXCEPT !.pc = PcAligned(target)])
<1>1. PcAligned(target) \in Addr /\ PcAligned(target) % 2 = 0
  BY AddrSpaceAssumption DEF PcAligned, Addr
<1> QED BY <1>1 DEF Sound, Hart

\* What mstatus can hold.
Status == [ie : [Modes -> BOOLEAN], pie : [Modes -> BOOLEAN],
           mpp : 0 .. 3, spp : 0 .. 1, tw : BOOLEAN]

\* A write to mstatus or one of its views.
LEMMA StatusSound ==
  ASSUME NEW h, Sound(h), NEW mode \in Modes, NEW v \in Status,
         mode <= h.prv
  PROVE  Sound(WriteStatus(h, mode, v))
<1> DEFINE i == [m \in Modes |-> IF m <= mode THEN v.ie[m] ELSE h.ie[m]]
<1> DEFINE p == [m \in Modes |-> IF m <= mode THEN v.pie[m] ELSE h.pie[m]]
<1> DEFINE ns == IF mode >= SupervisorMode THEN v.spp ELSE h.spp
<1> DEFINE np == IF mode = MachineMode THEN v.mpp ELSE h.mpp
<1> DEFINE nt == IF mode = MachineMode THEN v.tw ELSE h.tw
<1> DEFINE s == WriteStatus(h, mode, v)
<1>1. v \in [ie : [Modes -> BOOLEAN], pie : [Modes -> BOOLEAN],
             mpp : 0 .. 3, spp : 0 .. 1, tw : BOOLEAN]
  BY DEF Status
<1>2. i \in [Modes -> BOOLEAN] /\ p \in [Modes -> BOOLEAN]
  BY <1>1 DEF Sound, Hart
<1>3. ns \in 0 .. 1 /\ np \in 0 .. 3
  BY <1>1 DEF Sound, Hart
<1>4. nt \in BOOLEAN
  BY <1>1 DEF Sound, Hart
<1>5. s = [h EXCEPT !.ie = i, !.pie = p, !.spp = ns, !.mpp = np, !.tw = nt]
  BY DEF WriteStatus, Sound, Hart
<1>6. h.prv < MachineMode => np = h.mpp /\ p[MachineMode] = h.pie[MachineMode]
  BY DEF Sound, Hart, MachineMode, Modes, UserMode, SupervisorMode
<1> HIDE DEF i, p, ns, np, nt, s
<1>7. s \in Hart /\ s.pc = h.pc /\ s.epc = h.epc /\ s.prv = h.prv /\ s.mpp = np
      /\ s.pie = p
  BY <1>2, <1>3, <1>4, <1>5 DEF Sound, Hart
<1>8. Sound(s)
  BY <1>6, <1>7 DEF Sound
<1> QED BY <1>8 DEF s

\* A write to any CSR that the mode may access.
LEMMA CsrSound ==
  ASSUME NEW h, Sound(h), NEW csr \in Csrs, NEW v \in CsrValues(csr),
         ~is_invalid_csr_access(h, csr)
  PROVE  Sound(set_csr_value(h, csr, v))
<1>1. PICK n \in {"status", "ie", "ip", "tvec", "epc", "ideleg", "edeleg"},
           mode \in Modes :
        /\ csr = <<n, mode>>
        /\ n \in {"ideleg", "edeleg"} => mode \in {MachineMode, SupervisorMode}
  BY CsrsAssumption DEF CsrNames, Modes
<1>2. csr[1] = n /\ csr[2] = mode
  BY <1>1
<1>3. mode <= h.prv
  BY <1>2, ModesAre DEF is_invalid_csr_access, Sound, Hart
<1> DEFINE s == set_csr_value(h, csr, v)
<1>4. CASE n = "status"
  <2>1. s = WriteStatus(h, mode, v) /\ v \in StatusValues
    BY <1>1, <1>2, <1>4 DEF set_csr_value, CsrValues
  <2>2. v \in Status
    BY <2>1, StatusAssumption DEF Status
  <2> QED BY <2>1, <2>2, <1>3, StatusSound
<1>5. CASE n = "ie"
  <2>1. s = [h EXCEPT !.mie = Masked(h.mie, v, IE_MASK(mode))] /\ v \in SUBSET Irqs
    BY <1>1, <1>2, <1>5 DEF set_csr_value, CsrValues, Sound, Hart
  <2>2. Masked(h.mie, v, IE_MASK(mode)) \subseteq AllIrqs
    BY <2>1, IrqsAssumption DEF Masked, Sound, Hart
  <2> QED BY <2>1, <2>2 DEF Sound, Hart
<1>6. CASE n = "ip"
  <2>1. s = [h EXCEPT !.mip = Masked(h.mip, v, IP_MASK(mode))] /\ v \in SUBSET Irqs
    BY <1>1, <1>2, <1>6 DEF set_csr_value, CsrValues, Sound, Hart
  <2>2. Masked(h.mip, v, IP_MASK(mode)) \subseteq AllIrqs
    BY <2>1, IrqsAssumption DEF Masked, Sound, Hart
  <2> QED BY <2>1, <2>2 DEF Sound, Hart
<1>7. CASE n = "tvec"
  <2> DEFINE t == [base |-> v - (v % 4), vectored |-> v % 2 = 1]
  <2>1. s = [h EXCEPT !.tvec = [@ EXCEPT ![mode] = t]] /\ v \in Addr
    BY <1>1, <1>2, <1>7 DEF set_csr_value, CsrValues, Sound, Hart
  <2>2. v - (v % 4) \in Addr /\ (v - (v % 4)) % 4 = 0
    BY <2>1, AddrSpaceAssumption DEF Addr
  <2>3. t \in TrapVector
    BY <2>2 DEF TrapVector
  <2> HIDE DEF t
  <2>4. [h.tvec EXCEPT ![mode] = t] \in [Modes -> TrapVector]
    BY <2>3 DEF Sound, Hart
  <2> QED BY <2>1, <2>4 DEF Sound, Hart
<1>8. CASE n = "epc"
  <2>1. s = [h EXCEPT !.epc = [@ EXCEPT ![mode] = PcAligned(v)]] /\ v \in Addr
    BY <1>1, <1>2, <1>8 DEF set_csr_value, CsrValues, Sound, Hart
  <2>2. PcAligned(v) \in Addr /\ PcAligned(v) % 2 = 0
    BY <2>1, AddrSpaceAssumption DEF Addr, PcAligned
  <2>3. [h.epc EXCEPT ![mode] = PcAligned(v)] \in [Modes -> Addr]
    BY <2>2 DEF Sound, Hart
  <2>4. s \in Hart /\ s.epc = [h.epc EXCEPT ![mode] = PcAligned(v)]
        /\ s.pc = h.pc /\ s.prv = h.prv /\ s.mpp = h.mpp /\ s.pie = h.pie
    BY <2>1, <2>3 DEF Sound, Hart
  <2> HIDE DEF s
  <2>5. Sound(s)
    BY <2>2, <2>4 DEF Sound, Hart
  <2> QED BY <2>5 DEF s
<1>9. CASE n = "ideleg"
  <2>1. v \subseteq AllIrqs
    BY <1>1, <1>2, <1>9, IrqsAssumption DEF CsrValues
  <2>2. s = [h EXCEPT !.mideleg = v] \/ s = [h EXCEPT !.sideleg = v]
    BY <1>1, <1>2, <1>9 DEF set_csr_value, MachineMode, SupervisorMode
  <2> QED BY <2>1, <2>2 DEF Sound, Hart
<1>10. CASE n = "edeleg"
  <2>1. v \subseteq 0 .. 15
    BY <1>1, <1>2, <1>10, ExcsAssumption DEF CsrValues
  <2>2. s = [h EXCEPT !.medeleg = v \cap MEDELEG_MASK]
        \/ s = [h EXCEPT !.sedeleg = v \cap SEDELEG_MASK]
    BY <1>1, <1>2, <1>10 DEF set_csr_value, MachineMode, SupervisorMode
  <2>3. v \cap MEDELEG_MASK \subseteq 0 .. 15 /\ v \cap SEDELEG_MASK \subseteq 0 .. 15
    BY <2>1
  <2> QED BY <2>2, <2>3 DEF Sound, Hart
<1> QED BY <1>1, <1>4, <1>5, <1>6, <1>7, <1>8, <1>9, <1>10
-----------------------------------------------------------------------------
(* The invariant of the hart.                                              *)

IInv ==
  /\ Sound(hart)
  /\ status \in Statuses
  /\ wfi_event \in BOOLEAN

\* A trap is taken in a mode that has a handler, and not below machine mode from there.
LEMMA TrapMode ==
  ASSUME NEW h, Sound(h), NEW exc
  PROVE  /\ prepare_trap(h, exc) \in Modes
         /\ prepare_trap(h, exc) = MachineMode \/ h.prv < MachineMode
BY ModesAre DEF prepare_trap, Sound, Hart, MachineMode, SupervisorMode, UserMode

\* An exception.
LEMMA RaiseSound ==
  ASSUME IInv, NEW exc \in 0 .. 15, Raise(exc)
  PROVE  Sound(hart') /\ status' \in {status, "AssertFailed"}
<1>1. CASE hart' = switch_to_trap_handler(hart, prepare_trap(hart, exc), FALSE, exc)
           /\ status' = status
  BY <1>1, TrapMode, SwitchSound DEF IInv
<1>2. CASE hart' = hart /\ status' = "AssertFailed"
  BY <1>2 DEF IInv
<1> QED BY <1>1, <1>2 DEF Raise

\* The devices change nothing but mip.
LEMMA LineSound ==
  ASSUME IInv, NEW P \in SUBSET AllIrqs, hart' = [hart EXCEPT !.mip = P]
  PROVE  Sound(hart')
BY DEF IInv, Sound, Hart

\* What the interrupt lines do.
LEMMA LineStep ==
  ASSUME IInv, Lines
  PROVE  /\ \E P \in SUBSET AllIrqs : hart' = [hart EXCEPT !.mip = P]
         /\ status' = status
         /\ wfi_event' \in BOOLEAN /\ (wfi_event => wfi_event')
         /\ wfi_event' \/ hart'.mip \subseteq hart.mip
<1>0. hart \in Hart /\ hart.mip \subseteq AllIrqs
  BY DEF IInv, Sound, Hart
<1>1. ASSUME NEW mode \in Modes, trigger_external_interrupt(mode)
      PROVE  /\ hart' = [hart EXCEPT !.mip = hart.mip \cup {External(mode)}]
             /\ hart.mip \cup {External(mode)} \in SUBSET AllIrqs
             /\ status' = status /\ wfi_event' = TRUE
  BY <1>0, <1>1 DEF trigger_external_interrupt, AllIrqs, Hart
<1>2. ASSUME NEW mode \in Modes, clear_external_interrupt(mode)
      PROVE  /\ hart' = [hart EXCEPT !.mip = hart.mip \ {External(mode)}]
             /\ hart.mip \ {External(mode)} \in SUBSET AllIrqs
             /\ status' = status /\ wfi_event' = wfi_event
  BY <1>0, <1>2 DEF clear_external_interrupt, Hart
<1>3. ASSUME NEW irq \in AllIrqs, NEW level \in BOOLEAN, SetLine(irq, level)
      PROVE  /\ \E P \in SUBSET AllIrqs : hart' = [hart EXCEPT !.mip = P]
             /\ status' = status /\ wfi_event' = TRUE
  <2>1. CASE level
    <3>1. hart' = [hart EXCEPT !.mip = hart.mip \cup {irq}]
      BY <1>0, <1>3, <2>1 DEF SetLine, Hart
    <3>2. hart.mip \cup {irq} \in SUBSET AllIrqs
      BY <1>0
    <3> QED BY <1>3, <3>1, <3>2 DEF SetLine
  <2>2. CASE ~level
    <3>1. hart' = [hart EXCEPT !.mip = hart.mip \ {irq}]
      BY <1>0, <1>3, <2>2 DEF SetLine, Hart
    <3>2. hart.mip \ {irq} \in SUBSET AllIrqs
      BY <1>0
    <3> QED BY <1>3, <3>1, <3>2 DEF SetLine
  <2> QED BY <2>1, <2>2
<1>4. Timer(MachineMode) \in AllIrqs /\ Software(MachineMode) \in AllIrqs
  BY DEF AllIrqs, Modes
<1>5. CASE \E mode \in Modes : trigger_external_interrupt(mode)
  BY <1>1, <1>5
<1>6. CASE \E mode \in Modes : clear_external_interrupt(mode)
  <2>1. PICK mode \in Modes : clear_external_interrupt(mode)
    BY <1>6
  <2>2. /\ hart' = [hart EXCEPT !.mip = hart.mip \ {External(mode)}]
        /\ hart.mip \ {External(mode)} \in SUBSET AllIrqs
        /\ status' = status /\ wfi_event' = wfi_event
    BY <1>2, <2>1
  <2>3. hart'.mip \subseteq hart.mip
    BY <1>0, <2>2 DEF Hart
  <2> QED BY <2>2, <2>3 DEF IInv
<1>7. CASE \E level \in BOOLEAN : trigger_timer_interrupt(level)
  BY <1>3, <1>4, <1>7 DEF trigger_timer_interrupt
<1>8. CASE \E level \in BOOLEAN : trigger_software_interrupt(level)
  BY <1>3, <1>4, <1>8 DEF trigger_software_interrupt
<1> QED BY <1>5, <1>6, <1>7, <1>8 DEF Lines

\* What an instruction leaves of the hart before the interrupt check.
Executed ==
  {Advance(hart, 2), Advance(hart, 4), return_from_trap_handler(hart), hart}
    \cup {[hart EXCEPT !.pc = PcAligned(target)] : target \in Addr}
    \cup UNION {{set_csr_value(Advance(hart, 4), csr, v) : v \in CsrValues(csr)} :
                 csr \in {c \in Csrs : ~is_invalid_csr_access(hart, c)}}

Stops == {"Runnable", "HitBreakpoint", "Terminated"}

\* What a step of the hart can do: retire, trap, stop at an instruction that
\* does not come back, or begin to wait.
LEMMA RunStepCases ==
  ASSUME IInv, RunStep
  PROVE  /\ \/ \E h \in Executed : Retire(h) /\ status' \in Stops
            \/ \E exc \in 0 .. 15 : Raise(exc)
            \/ hart' = hart /\ status' = "Uncaught"
            \/ /\ hart' = Advance(hart, 4) /\ status' = "Waiting"
               /\ ~has_local_pending_enabled_interrupts(hart)
         /\ status = "Runnable"
         /\ wfi_event' = wfi_event
<1> USE DEF Stops
<1>0. EXC_ILLEGAL_INSTR \in 0 .. 15
  BY DEF EXC_ILLEGAL_INSTR
<1>1. ASSUME NEW size \in {2, 4}, Plain(size) \/ EBREAK(size)
      PROVE  Advance(hart, size) \in Executed /\ Retire(Advance(hart, size))
             /\ status' \in Stops /\ status = "Runnable" /\ wfi_event' = wfi_event
  BY <1>1 DEF Plain, EBREAK, Executed
<1>2. ASSUME NEW target \in Addr, Jump(target)
      PROVE  [hart EXCEPT !.pc = PcAligned(target)] \in Executed
             /\ Retire([hart EXCEPT !.pc = PcAligned(target)])
             /\ status' \in Stops /\ status = "Runnable" /\ wfi_event' = wfi_event
  BY <1>2 DEF Jump, Executed
<1>3. ASSUME NEW exc \in Excs, Fault(exc)
      PROVE  exc \in 0 .. 15 /\ Raise(exc) /\ status = "Runnable" /\ wfi_event' = wfi_event
  BY <1>3, ExcsAssumption DEF Fault
<1>4. CASE ECALL
  <2>1. CASE hart.prv = HypervisorMode
    BY <1>4, <2>1 DEF ECALL
  <2>2. CASE hart.prv # HypervisorMode
    <3>1. Raise(EXC_ECALL(hart.prv)) /\ status = "Runnable" /\ wfi_event' = wfi_event
      BY <1>4, <2>2 DEF ECALL
    <3>2. EXC_ECALL(hart.prv) \in 0 .. 15
      BY DEF EXC_ECALL, IInv, Sound, Hart
    <3> QED BY <3>1, <3>2
  <2> QED BY <2>1, <2>2
<1>5. ASSUME NEW csr \in Csrs, NEW v \in CsrValues(csr), CsrAccess(csr, v)
      PROVE  /\ \/ Raise(EXC_ILLEGAL_INSTR)
                \/ /\ set_csr_value(Advance(hart, 4), csr, v) \in Executed
                   /\ Retire(set_csr_value(Advance(hart, 4), csr, v))
                   /\ status' \in Stops
             /\ status = "Runnable" /\ wfi_event' = wfi_event
  <2>1. CASE is_invalid_csr_access(hart, csr)
    BY <1>5, <2>1 DEF CsrAccess
  <2>2. CASE ~is_invalid_csr_access(hart, csr)
    BY <1>5, <2>2 DEF CsrAccess, Executed
  <2> QED BY <2>1, <2>2
<1>6. CASE WFI
  <2>1. CASE WfiIsIllegal(hart)
    BY <1>0, <1>6, <2>1 DEF WFI
  <2>2. CASE ~WfiIsIllegal(hart) /\ has_local_pending_enabled_interrupts(hart)
    BY <1>6, <2>2 DEF WFI, Executed
  <2>3. CASE ~WfiIsIllegal(hart) /\ ~has_local_pending_enabled_interrupts(hart)
    BY <1>6, <2>3 DEF WFI
  <2> QED BY <2>1, <2>2, <2>3
<1>7. CASE MRET
  BY <1>7 DEF MRET, Executed
<1>8. CASE UnknownOpcode
  BY <1>8 DEF UnknownOpcode
<1>9. CASE SysExit
  BY <1>9 DEF SysExit, Executed
<1> QED BY <1>0, <1>1, <1>2, <1>3, <1>4, <1>5, <1>6, <1>7, <1>8, <1>9
        DEF RunStep, Instruction, RetiringStep

\* What an instruction leaves is sound.
LEMMA ExecutedSound ==
  ASSUME IInv, NEW h \in Executed
  PROVE  Sound(h)
<1>1. Sound(hart)
  BY DEF IInv
<1>2. Sound(Advance(hart, 2)) /\ Sound(Advance(hart, 4))
      /\ Sound(return_from_trap_handler(hart))
  BY <1>1, AdvanceSound, ReturnSound
<1>3. \A target \in Addr : Sound([hart EXCEPT !.pc = PcAligned(target)])
  BY <1>1, JumpSound
<1>4. ASSUME NEW csr \in Csrs, NEW v \in CsrValues(csr), ~is_invalid_csr_access(hart, csr)
      PROVE  Sound(set_csr_value(Advance(hart, 4), csr, v))
  <2>1. ~is_invalid_csr_access(Advance(hart, 4), csr)
    BY <1>1, <1>4 DEF is_invalid_csr_access, Advance, Sound, Hart
  <2> QED BY <1>2, <2>1, CsrSound
<1> QED BY <1>1, <1>2, <1>3, <1>4 DEF Executed

\* Every step preserves the invariant.
LEMMA StepInv ==
  ASSUME IInv, [Next]_vars
  PROVE  IInv'
<1> USE DEF Statuses, Stops
<1>1. CASE RunStep
  <2>1. status = "Runnable" /\ wfi_event' = wfi_event
    BY <1>1, RunStepCases
  <2>2. ASSUME NEW h \in Executed, Retire(h), status' \in Stops
        PROVE  Sound(hart') /\ status' \in Statuses
    BY <2>2, ExecutedSound, CheckSound DEF Retire
  <2>3. ASSUME NEW exc \in 0 .. 15, Raise(exc)
        PROVE  Sound(hart') /\ status' \in Statuses
    BY <2>1, <2>3, RaiseSound
  <2>4. ASSUME hart' = Advance(hart, 4), status' = "Waiting"
        PROVE  Sound(hart') /\ status' \in Statuses
    BY <2>4, AdvanceSound DEF IInv
  <2>5. ASSUME hart' = hart, status' = "Uncaught"
        PROVE  Sound(hart') /\ status' \in Statuses
    BY <2>5 DEF IInv
  <2>6. Sound(hart') /\ status' \in Statuses
    BY <1>1, <2>2, <2>3, <2>4, <2>5, RunStepCases
  <2> QED BY <2>1, <2>6 DEF IInv
<1>2. CASE Lines
  BY <1>2, LineStep, LineSound DEF IInv
<1>3. CASE DeltaCycle
  <2>1. CASE status = "Waiting"
    BY <1>3, <2>1, CheckSound DEF DeltaCycle, Retire, IInv
  <2>2. CASE status # "Waiting"
    BY <1>3, <2>2 DEF DeltaCycle, IInv
  <2> QED BY <2>1, <2>2
<1>4. CASE UNCHANGED vars
  BY <1>4 DEF vars, IInv
<1> QED BY <1>1, <1>2, <1>3, <1>4 DEF Next

\* It holds at reset.
LEMMA InitInv == Init => IInv
<1> SUFFICES ASSUME Init PROVE IInv
  OBVIOUS
<1>1. 0 \in Addr
  BY AddrSpaceAssumption DEF Addr
<1>2. [base |-> 0, vectored |-> FALSE] \in TrapVector
  BY <1>1 DEF TrapVector
<1>3. hart \in Hart
  BY <1>1, <1>2 DEF Init, Hart, MachineMode
<1>4. hart.pc = 0 /\ hart.prv = MachineMode /\ \A m \in Modes : hart.epc[m] = 0
  BY DEF Init
<1>5. Sound(hart)
  BY <1>3, <1>4 DEF Sound, MachineMode
<1> QED BY <1>5 DEF IInv, Init, Statuses

\* IInv is an invariant.
THEOREM Invariance == Spec => []IInv
<1>1. IInv /\ [Next]_vars => IInv'
  BY StepInv
<1> QED BY <1>1, InitInv, PTL DEF Spec

\* The state of the hart keeps its type, whatever the software does.
THEOREM IssTypeCorrect == Spec => []TypeOK
<1>1. IInv => TypeOK
  BY DEF IInv, TypeOK, Sound
<1> QED BY <1>1, Invariance, PTL

\* The assertion at the head of exec_step never fails.
THEOREM FetchAligned == Spec => []FetchIsAligned
<1>1. IInv => FetchIsAligned
  BY DEF IInv, FetchIsAligned, Sound
<1> QED BY <1>1, Invariance, PTL

\* No wakeup is lost: WFI never sleeps through an enabled interrupt.
THEOREM WakeupNotLost == Spec => []NoLostWakeup
<1>1. Init => NoLostWakeup
  BY DEF Init, NoLostWakeup
<1>2. ASSUME IInv, NoLostWakeup, [Next]_vars
      PROVE  NoLostWakeup'
  <2> SUFFICES ASSUME status' = "Waiting",
                      hart'.mie \cap hart'.mip # {}
               PROVE  wfi_event'
    BY DEF NoLostWakeup, has_local_pending_enabled_interrupts
  <2>1. CASE RunStep
    <3>1. hart' = Advance(hart, 4) /\ ~has_local_pending_enabled_interrupts(hart)
      BY <1>2, <2>1, RunStepCases DEF Raise, Stops
    <3>2. hart'.mie = hart.mie /\ hart'.mip = hart.mip
      BY <1>2, <3>1 DEF Advance, IInv, Sound, Hart
    <3> QED BY <3>1, <3>2 DEF has_local_pending_enabled_interrupts
  <2>2. CASE Lines
    <3>1. PICK P \in SUBSET AllIrqs : hart' = [hart EXCEPT !.mip = P]
      BY <1>2, <2>2, LineStep
    <3>2. hart'.mie = hart.mie
      BY <1>2, <3>1 DEF IInv, Sound, Hart
    <3> QED BY <1>2, <2>2, <3>2, LineStep DEF NoLostWakeup, has_local_pending_enabled_interrupts
  <2>3. CASE DeltaCycle
    BY <2>3 DEF DeltaCycle
  <2>4. CASE UNCHANGED vars
    BY <1>2, <2>4 DEF vars, NoLostWakeup, has_local_pending_enabled_interrupts
  <2> QED BY <1>2, <2>1, <2>2, <2>3, <2>4 DEF Next
<1> QED BY <1>1, <1>2, Invariance, PTL DEF Spec
-----------------------------------------------------------------------------
(* Privilege.                                                              *)

\* The check leaves the hart alone or enters a handler of no lower mode.
LEMMA CheckCases ==
  ASSUME NEW h, Sound(h)
  PROVE  \/ check_interrupts(h) = h
         \/ \E mode \in Modes, irq \in AllIrqs :
              /\ h.prv <= mode
              /\ check_interrupts(h) = switch_to_trap_handler(h, mode, TRUE, irq)
<1>1. CASE compute_pending_interrupts(h) = {}
  BY <1>1 DEF check_interrupts
<1>2. CASE compute_pending_interrupts(h) # {}
  <2> DEFINE mode == Max(compute_pending_interrupts(h))
  <2> DEFINE irq == prepare_interrupt(Pending(h, mode))
  <2>1. mode \in Modes /\ Deliverable(h, mode)
    BY <1>2, TargetMode
  <2>2. check_interrupts(h) = switch_to_trap_handler(h, mode, TRUE, irq)
    BY <1>2 DEF check_interrupts
  <2> HIDE DEF mode
  <2>3. Pending(h, mode) \subseteq AllIrqs /\ Pending(h, mode) # {}
    BY <2>1 DEF Pending, Deliverable, Sound, Hart
  <2>4. irq \in AllIrqs
    BY <2>3, PrepareInterrupt
  <2>5. h.prv <= mode
    BY <2>1, ModesAre DEF Deliverable, Sound, Hart
  <2> HIDE DEF irq
  <2> QED BY <2>1, <2>2, <2>4, <2>5
<1> QED BY <1>1, <1>2

\* The handler that a trap or interrupt enters.
LEMMA EntryPoint ==
  ASSUME NEW h, Sound(h), NEW mode \in Modes, NEW interrupt \in BOOLEAN, NEW code,
         interrupt => code \in AllIrqs,
         NEW r, r = switch_to_trap_handler(h, mode, interrupt, code)
  PROVE  r.pc \in Entries(r, mode)
<1>1. r.tvec = h.tvec
      /\ r.pc = (h.tvec[mode].base + VectorOffset(h, mode, interrupt, code)) % AddrSpace
  BY DEF switch_to_trap_handler, Sound, Hart
<1>2. PICK c \in AllIrqs : VectorOffset(h, mode, interrupt, code) = VectorOffset(r, mode, interrupt, c)
  <2>1. CASE interrupt
    BY <1>1, <2>1 DEF VectorOffset
  <2>2. CASE ~interrupt
    BY <2>2, ModesAre DEF VectorOffset
  <2> QED BY <2>1, <2>2
<1> QED BY <1>1, <1>2 DEF Entries

\* No CSR write changes the mode, and none below machine mode changes what
\* belongs to machine mode.
LEMMA CsrEffect ==
  ASSUME NEW h, Sound(h), NEW csr \in Csrs, NEW v \in CsrValues(csr),
         ~is_invalid_csr_access(h, csr), NEW r, r = set_csr_value(h, csr, v)
  PROVE  /\ r.prv = h.prv
         /\ r.mpp = h.mpp \/ (csr[1] = "status" /\ v \in StatusValues /\ r.mpp = v.mpp)
         /\ h.prv < MachineMode => /\ MachineState(r) = MachineState(h)
                                   /\ r.ie[MachineMode] = h.ie[MachineMode]
<1>1. PICK n \in {"status", "ie", "ip", "tvec", "epc", "ideleg", "edeleg"},
           mode \in Modes :
        /\ csr = <<n, mode>>
        /\ n \in {"ideleg", "edeleg"} => mode \in {MachineMode, SupervisorMode}
  BY CsrsAssumption DEF CsrNames, Modes
<1>2. csr[1] = n /\ csr[2] = mode /\ mode <= h.prv /\ h.prv \in 0 .. 3 /\ mode \in {0, 1, 3}
  BY <1>1, ModesAre DEF is_invalid_csr_access, Sound, Hart
<1> USE DEF MachineMode, SupervisorMode, MachineState
<1>4. CASE n = "status"
  <2>1. r = WriteStatus(h, mode, v) /\ v \in StatusValues
    BY <1>1, <1>2, <1>4 DEF set_csr_value, CsrValues
  <2>2. r.prv = h.prv /\ r.mpp = (IF mode = 3 THEN v.mpp ELSE h.mpp)
    BY <2>1 DEF WriteStatus, Sound, Hart
  <2>3. mode # 3 => r.tw = h.tw
    BY <2>1 DEF WriteStatus, Sound, Hart
  <2>5. mode # 3 => r.ie[3] = h.ie[3] /\ r.pie[3] = h.pie[3]
    <3>1. /\ r.ie = [m \in Modes |-> IF m <= mode THEN v.ie[m] ELSE h.ie[m]]
          /\ r.pie = [m \in Modes |-> IF m <= mode THEN v.pie[m] ELSE h.pie[m]]
      BY <2>1 DEF WriteStatus, Sound, Hart
    <3>2. 3 \in Modes /\ (mode # 3 => ~(3 <= mode))
      BY <1>2, ModesAre
    <3> QED BY <3>1, <3>2
  <2>4. /\ r.mideleg = h.mideleg /\ r.medeleg = h.medeleg
        /\ r.tvec = h.tvec /\ r.epc = h.epc /\ r.mie = h.mie
    BY <2>1 DEF WriteStatus, Sound, Hart
  <2> QED BY <1>2, <1>4, <2>1, <2>2, <2>3, <2>4, <2>5
<1>5. CASE n = "ie"
  <2>1. r = [h EXCEPT !.mie = Masked(h.mie, v, IE_MASK(mode))]
    BY <1>1, <1>2, <1>5 DEF set_csr_value, Sound, Hart
  <2>2. h.prv < 3 => IE_MASK(mode) \subseteq IE_MASK(1)
    BY <1>2, ModesAre DEF IE_MASK
  <2>3. h.prv < 3 => Masked(h.mie, v, IE_MASK(mode)) \ IE_MASK(1) = h.mie \ IE_MASK(1)
    BY <2>2 DEF Masked
  <2> QED BY <2>1, <2>3 DEF Sound, Hart
<1>6. CASE n = "ip"
  BY <1>1, <1>2, <1>6 DEF set_csr_value, Sound, Hart
<1>7. CASE n = "tvec"
  BY <1>1, <1>2, <1>7, ModesAre DEF set_csr_value, Sound, Hart
<1>8. CASE n = "epc"
  BY <1>1, <1>2, <1>8, ModesAre DEF set_csr_value, Sound, Hart
<1>9. CASE n = "ideleg"
  BY <1>1, <1>2, <1>9 DEF set_csr_value, Sound, Hart
<1>10. CASE n = "edeleg"
  BY <1>1, <1>2, <1>10 DEF set_csr_value, Sound, Hart
<1> QED BY <1>1, <1>4, <1>5, <1>6, <1>7, <1>8, <1>9, <1>10

\* Of the instructions, only MRET changes the mode.
LEMMA ExecutedCases ==
  ASSUME IInv, NEW h \in Executed
  PROVE  \/ h.prv = hart.prv
         \/ h = return_from_trap_handler(hart)
<1>0. Sound(hart) /\ Sound(Advance(hart, 4)) /\ Advance(hart, 4).prv = hart.prv
  <2>1. Sound(hart)
    BY DEF IInv
  <2>2. Advance(hart, 4).prv = hart.prv
    BY <2>1 DEF Advance, Sound, Hart
  <2> QED BY <2>1, <2>2, AdvanceSound
<1>1. CASE h \in {Advance(hart, 2), Advance(hart, 4), hart}
  BY <1>0, <1>1 DEF Advance, Sound, Hart
<1>2. CASE \E target \in Addr : h = [hart EXCEPT !.pc = PcAligned(target)]
  BY <1>0, <1>2 DEF Sound, Hart
<1>3. ASSUME NEW csr \in Csrs, NEW v \in CsrValues(csr), ~is_invalid_csr_access(hart, csr),
             h = set_csr_value(Advance(hart, 4), csr, v)
      PROVE  h.prv = hart.prv
  <2>1. ~is_invalid_csr_access(Advance(hart, 4), csr)
    BY <1>0, <1>3 DEF is_invalid_csr_access
  <2> QED BY <1>0, <1>3, <2>1, CsrEffect
<1> QED BY <1>1, <1>2, <1>3 DEF Executed

\* A step of the hart that raises the privilege is the entry to a handler.
RiseOk ==
  hart'.prv > hart.prv =>
    /\ hart'.prv \in Modes
    /\ hart'.pc \in Entries(hart', hart'.prv)
    /\ ~hart'.ie[hart'.prv]

\* An instruction that retires raises the privilege only by an interrupt.
LEMMA RetireRise ==
  ASSUME IInv, NEW h \in Executed, Retire(h)
  PROVE  RiseOk
<1>1. Sound(hart) /\ Sound(h) /\ hart' = check_interrupts(h)
  BY ExecutedSound DEF IInv, Retire
<1>2. CASE hart' = h
  <2>1. h.prv <= hart.prv
    <3>1. CASE h.prv = hart.prv
      BY <1>1, <3>1 DEF Sound, Hart
    <3>2. CASE h = return_from_trap_handler(hart)
      <4>1. h.prv = hart.mpp
        BY <1>1, <3>2 DEF return_from_trap_handler, Sound, Hart
      <4> QED BY <1>1, <4>1 DEF Sound, Hart, MachineMode, UserMode
    <3> QED BY <3>1, <3>2, ExecutedCases
  <2> QED BY <1>1, <1>2, <2>1 DEF RiseOk, Sound, Hart
<1>3. CASE \E mode \in Modes, irq \in AllIrqs :
             hart' = switch_to_trap_handler(h, mode, TRUE, irq)
  <2>1. PICK mode \in Modes, irq \in AllIrqs :
          hart' = switch_to_trap_handler(h, mode, TRUE, irq)
    BY <1>3
  <2>2. hart'.prv = mode /\ ~hart'.ie[mode]
    BY <1>1, <2>1 DEF switch_to_trap_handler, Sound, Hart
  <2>3. hart'.pc \in Entries(hart', mode)
    BY <1>1, <2>1, EntryPoint
  <2> QED BY <2>2, <2>3 DEF RiseOk
<1> QED BY <1>1, <1>2, <1>3, CheckCases

\* An exception enters the handler of the mode it raises the privilege to.
LEMMA RaiseRise ==
  ASSUME IInv, NEW exc \in 0 .. 15, Raise(exc)
  PROVE  RiseOk
<1>1. CASE hart' = hart
  BY <1>1 DEF RiseOk, IInv, Sound, Hart
<1>2. CASE hart' = switch_to_trap_handler(hart, prepare_trap(hart, exc), FALSE, exc)
  <2> DEFINE mode == prepare_trap(hart, exc)
  <2>1. mode \in Modes /\ Sound(hart)
    BY TrapMode DEF IInv
  <2>2. hart'.prv = mode /\ ~hart'.ie[mode]
    BY <1>2, <2>1 DEF switch_to_trap_handler, Sound, Hart
  <2>3. hart'.pc \in Entries(hart', mode)
    BY <1>2, <2>1, EntryPoint
  <2> QED BY <2>1, <2>2, <2>3 DEF RiseOk
<1> QED BY <1>1, <1>2 DEF Raise

\* Privilege rises only by entering the trap handler of the higher mode,
\* although MRET does not check the mode it is executed in.
THEOREM PrivilegeRises == Spec => PrivilegeRisesByTrap
<1>1. ASSUME IInv, [Next]_vars PROVE [RiseOk]_vars
  <2>0. hart.prv \in Int
    BY <1>1 DEF IInv, Sound, Hart
  <2>1. CASE RunStep
    <3>1. CASE hart' = Advance(hart, 4) \/ hart' = hart
      BY <1>1, <2>0, <3>1 DEF RiseOk, Advance, IInv, Sound, Hart
    <3> QED BY <1>1, <2>1, <3>1, RunStepCases, RetireRise, RaiseRise
  <2>2. CASE Lines
    <3>1. hart'.prv = hart.prv
      BY <1>1, <2>2, LineStep DEF IInv, Sound, Hart
    <3> QED BY <2>0, <3>1 DEF RiseOk
  <2>3. CASE DeltaCycle
    <3>1. CASE hart' = hart
      BY <2>0, <3>1 DEF RiseOk
    <3>2. CASE Retire(hart)
      BY <1>1, <3>2, RetireRise DEF Executed
    <3> QED BY <2>3, <3>1, <3>2 DEF DeltaCycle
  <2> QED BY <1>1, <2>1, <2>2, <2>3 DEF Next
<1>2. [RiseOk]_vars => [hart'.prv > hart.prv =>
                          /\ hart'.prv \in Modes
                          /\ hart'.pc \in Entries(hart', hart'.prv)
                          /\ ~hart'.ie[hart'.prv]]_vars
  BY DEF RiseOk
<1> QED BY <1>1, <1>2, Invariance, PTL DEF Spec, PrivilegeRisesByTrap
-----------------------------------------------------------------------------
(* What belongs to machine mode.                                           *)

\* The interrupt enable of machine mode is the same in h and g.
SameEnable(h, g) == h.ie[MachineMode] = g.ie[MachineMode]

\* No instruction below machine mode changes what belongs to it, but MRET sets
\* its interrupt enable.
LEMMA ExecutedKeeps ==
  ASSUME IInv, NEW h \in Executed, hart.prv < MachineMode
  PROVE  /\ MachineState(h) = MachineState(hart)
         /\ SameEnable(h, hart) \/ (h = return_from_trap_handler(hart) /\ h.ie[MachineMode] = TRUE)
<1>0. Sound(hart) /\ Sound(Advance(hart, 4))
  BY AdvanceSound DEF IInv
<1> DEFINE Kept(g) == MachineState(g) = MachineState(hart) /\ SameEnable(g, hart)
<1>1. \A size \in {2, 4} : Kept(Advance(hart, size))
  BY <1>0 DEF Advance, MachineState, SameEnable, Sound, Hart
<1>2. /\ MachineState(return_from_trap_handler(hart)) = MachineState(hart)
      /\ return_from_trap_handler(hart).ie[MachineMode] = TRUE
  <2> DEFINE r == return_from_trap_handler(hart)
  <2>1. /\ r.mideleg = hart.mideleg /\ r.medeleg = hart.medeleg /\ r.tvec = hart.tvec
        /\ r.epc = hart.epc /\ r.tw = hart.tw /\ r.mie = hart.mie /\ r.mpp = UserMode
        /\ r.ie = [hart.ie EXCEPT ![MachineMode] = hart.pie[MachineMode]]
        /\ r.pie = [hart.pie EXCEPT ![MachineMode] = TRUE]
    BY <1>0 DEF return_from_trap_handler, Sound, Hart
  <2>2. /\ hart.mpp = UserMode /\ hart.pie[MachineMode] = TRUE
        /\ hart.ie \in [Modes -> BOOLEAN] /\ hart.pie \in [Modes -> BOOLEAN]
        /\ MachineMode \in Modes
    BY <1>0 DEF Sound, Hart, Modes
  <2> HIDE DEF r
  <2>3. r.ie[MachineMode] = TRUE /\ r.pie[MachineMode] = TRUE
    BY <2>1, <2>2
  <2>4. MachineState(r) = MachineState(hart)
    BY <2>1, <2>2, <2>3 DEF MachineState
  <2> QED BY <2>3, <2>4 DEF r
<1>3. \A target \in Addr : Kept([hart EXCEPT !.pc = PcAligned(target)])
  BY <1>0 DEF MachineState, SameEnable, Sound, Hart
<1>4. ASSUME NEW csr \in Csrs, NEW v \in CsrValues(csr), ~is_invalid_csr_access(hart, csr)
      PROVE  Kept(set_csr_value(Advance(hart, 4), csr, v))
  <2>1. Advance(hart, 4).prv = hart.prv
    BY <1>0 DEF Advance, Sound, Hart
  <2>2. ~is_invalid_csr_access(Advance(hart, 4), csr) /\ Advance(hart, 4).prv < MachineMode
    BY <1>4, <2>1 DEF is_invalid_csr_access
  <2>3. /\ MachineState(set_csr_value(Advance(hart, 4), csr, v)) = MachineState(Advance(hart, 4))
        /\ SameEnable(set_csr_value(Advance(hart, 4), csr, v), Advance(hart, 4))
    BY <1>0, <2>2, CsrEffect DEF SameEnable
  <2> QED BY <1>1, <2>3 DEF SameEnable
<1>5. Kept(hart)
  BY DEF SameEnable
<1> QED BY <1>1, <1>2, <1>3, <1>4, <1>5 DEF Executed

\* Nor does a trap to a lower mode.
LEMMA SwitchKeeps ==
  ASSUME NEW h, Sound(h), NEW mode \in Modes, mode # MachineMode,
         NEW interrupt \in BOOLEAN, NEW code
  PROVE  /\ MachineState(switch_to_trap_handler(h, mode, interrupt, code)) = MachineState(h)
         /\ SameEnable(switch_to_trap_handler(h, mode, interrupt, code), h)
<1> DEFINE r == switch_to_trap_handler(h, mode, interrupt, code)
<1>1. /\ r.epc = [h.epc EXCEPT ![mode] = h.pc]
      /\ r.pie = [h.pie EXCEPT ![mode] = h.ie[mode]]
      /\ r.ie = [h.ie EXCEPT ![mode] = FALSE]
  BY DEF switch_to_trap_handler, Sound, Hart
<1>2. /\ r.mideleg = h.mideleg /\ r.medeleg = h.medeleg /\ r.tvec = h.tvec
      /\ r.tw = h.tw /\ r.mie = h.mie /\ r.mpp = h.mpp
  BY DEF switch_to_trap_handler, Sound, Hart
<1>3. /\ MachineMode \in Modes /\ h.epc \in [Modes -> Addr]
      /\ h.pie \in [Modes -> BOOLEAN] /\ h.ie \in [Modes -> BOOLEAN]
  BY DEF Sound, Hart, Modes
<1> HIDE DEF r
<1>4. /\ r.epc[MachineMode] = h.epc[MachineMode]
      /\ r.pie[MachineMode] = h.pie[MachineMode]
      /\ r.ie[MachineMode] = h.ie[MachineMode]
  BY <1>1, <1>3
<1>5. MachineState(r) = MachineState(h) /\ SameEnable(r, h)
  BY <1>2, <1>4 DEF MachineState, SameEnable
<1> QED BY <1>5 DEF r

KeepOk ==
  hart.prv < MachineMode /\ hart'.prv < MachineMode =>
    /\ MachineState(hart') = MachineState(hart)
    /\ \/ hart'.ie[MachineMode] = hart.ie[MachineMode]
       \/ hart'.ie[MachineMode] /\ Retire(return_from_trap_handler(hart))

\* Nor do both together.
LEMMA RetireKeeps ==
  ASSUME IInv, NEW h \in Executed, Retire(h)
  PROVE  KeepOk
<1> SUFFICES ASSUME hart.prv < MachineMode, hart'.prv < MachineMode
             PROVE  MachineState(hart') = MachineState(h) /\ SameEnable(hart', h)
  BY ExecutedKeeps DEF KeepOk, SameEnable
<1>1. Sound(h) /\ hart' = check_interrupts(h)
  BY ExecutedSound DEF Retire
<1>2. CASE \E mode \in Modes, irq \in AllIrqs :
             hart' = switch_to_trap_handler(h, mode, TRUE, irq)
  <2>1. PICK mode \in Modes, irq \in AllIrqs :
          hart' = switch_to_trap_handler(h, mode, TRUE, irq)
    BY <1>2
  <2>2. hart'.prv = mode
    BY <1>1, <2>1 DEF switch_to_trap_handler, Sound, Hart
  <2>3. mode # MachineMode
    BY <2>2 DEF MachineMode
  <2>4. /\ MachineState(switch_to_trap_handler(h, mode, TRUE, irq)) = MachineState(h)
        /\ SameEnable(switch_to_trap_handler(h, mode, TRUE, irq), h)
    BY <1>1, <2>3, SwitchKeeps, TRUE \in BOOLEAN
  <2> QED BY <2>1, <2>4
<1>3. CASE hart' = h
  BY <1>3 DEF SameEnable
<1> QED BY <1>1, <1>2, <1>3, CheckCases

\* Nor does an exception.
LEMMA RaiseKeeps ==
  ASSUME IInv, NEW exc \in 0 .. 15, Raise(exc)
  PROVE  KeepOk
<1>1. CASE hart' = hart
  BY <1>1 DEF KeepOk
<1>2. CASE hart' = switch_to_trap_handler(hart, prepare_trap(hart, exc), FALSE, exc)
  <2> DEFINE mode == prepare_trap(hart, exc)
  <2>1. mode \in Modes /\ Sound(hart)
    BY TrapMode DEF IInv
  <2> HIDE DEF mode
  <2>2. hart' = switch_to_trap_handler(hart, mode, FALSE, exc)
    BY <1>2 DEF mode
  <2>3. hart'.prv = mode
    BY <2>1, <2>2 DEF switch_to_trap_handler, Sound, Hart
  <2>4. CASE mode = MachineMode
    BY <2>3, <2>4 DEF KeepOk, MachineMode
  <2>5. CASE mode # MachineMode
    BY <2>1, <2>2, <2>5, SwitchKeeps DEF KeepOk, SameEnable
  <2> QED BY <2>4, <2>5
<1> QED BY <1>1, <1>2 DEF Raise

\* Whatever the modes below machine mode do, machine mode's delegation, vector,
\* return address, interrupt enables and its part of mstatus stay as it left them,
\* except that an MRET may set mstatus.mie.
THEOREM MachineStateProtected == Spec => MachineStateIsProtected
<1>1. ASSUME IInv, [Next]_vars PROVE [KeepOk]_vars
  <2>0. Sound(hart)
    BY <1>1 DEF IInv
  <2>1. CASE RunStep
    <3>1. CASE hart' = Advance(hart, 4) \/ hart' = hart
      BY <2>0, <3>1 DEF KeepOk, Advance, MachineState, Sound, Hart
    <3> QED BY <1>1, <2>1, <3>1, RunStepCases, RetireKeeps, RaiseKeeps
  <2>2. CASE Lines
    <3>1. PICK P \in SUBSET AllIrqs : hart' = [hart EXCEPT !.mip = P]
      BY <1>1, <2>2, LineStep
    <3> QED BY <2>0, <3>1 DEF KeepOk, MachineState, Sound, Hart
  <2>3. CASE DeltaCycle
    <3>1. CASE hart' = hart
      BY <3>1 DEF KeepOk
    <3>2. CASE Retire(hart)
      BY <1>1, <3>2, RetireKeeps DEF Executed
    <3> QED BY <2>3, <3>1, <3>2 DEF DeltaCycle
  <2> QED BY <1>1, <2>1, <2>2, <2>3 DEF Next
<1>2. [KeepOk]_vars =>
        [hart.prv < MachineMode /\ hart'.prv < MachineMode =>
           /\ MachineState(hart') = MachineState(hart)
           /\ \/ hart'.ie[MachineMode] = hart.ie[MachineMode]
              \/ hart'.ie[MachineMode] /\ Retire(return_from_trap_handler(hart))]_vars
  BY DEF KeepOk
<1> QED BY <1>1, <1>2, Invariance, PTL DEF Spec, MachineStateIsProtected
-----------------------------------------------------------------------------
(* Software that writes no reserved value to mpp.                          *)

LegalSoftware == \A v \in StatusValues : v.mpp \in Modes

Legal(h) == h.prv \in Modes /\ h.mpp \in Modes

\* The instructions of software that writes no reserved mode reach none.
LEMMA ExecutedLegal ==
  ASSUME IInv, LegalSoftware, Legal(hart), NEW h \in Executed
  PROVE  Legal(h)
<1>0. Sound(hart) /\ Sound(Advance(hart, 4))
  BY AdvanceSound DEF IInv
<1>1. \A size \in {2, 4} : Advance(hart, size).prv = hart.prv /\ Advance(hart, size).mpp = hart.mpp
  BY <1>0 DEF Advance, Sound, Hart
<1>2. /\ return_from_trap_handler(hart).prv = hart.mpp
      /\ return_from_trap_handler(hart).mpp = UserMode
  BY <1>0 DEF return_from_trap_handler, Sound, Hart
<1>3. \A target \in Addr : Legal([hart EXCEPT !.pc = PcAligned(target)])
  BY <1>0 DEF Legal, Sound, Hart
<1>4. ASSUME NEW csr \in Csrs, NEW v \in CsrValues(csr), ~is_invalid_csr_access(hart, csr)
      PROVE  Legal(set_csr_value(Advance(hart, 4), csr, v))
  <2>1. ~is_invalid_csr_access(Advance(hart, 4), csr)
    BY <1>1, <1>4 DEF is_invalid_csr_access
  <2> DEFINE r == set_csr_value(Advance(hart, 4), csr, v)
  <2>2. /\ r.prv = Advance(hart, 4).prv
        /\ r.mpp = Advance(hart, 4).mpp \/ (v \in StatusValues /\ r.mpp = v.mpp)
    BY <1>0, <2>1, CsrEffect
  <2> HIDE DEF r
  <2>3. Legal(r)
    BY <1>1, <2>2 DEF Legal, LegalSoftware
  <2> QED BY <2>3 DEF r
<1>5. Legal(Advance(hart, 2)) /\ Legal(Advance(hart, 4))
  BY <1>1 DEF Legal
<1>6. Legal(return_from_trap_handler(hart))
  BY <1>2 DEF Legal, Modes
<1> QED BY <1>3, <1>4, <1>5, <1>6 DEF Executed

\* Nor does a trap.
LEMMA SwitchLegal ==
  ASSUME NEW h, Sound(h), Legal(h), NEW mode \in Modes, NEW interrupt \in BOOLEAN, NEW code
  PROVE  Legal(switch_to_trap_handler(h, mode, interrupt, code))
<1> DEFINE r == switch_to_trap_handler(h, mode, interrupt, code)
<1>1. r.prv = mode /\ (r.mpp = h.prv \/ r.mpp = h.mpp)
  BY DEF switch_to_trap_handler, Sound, Hart
<1> HIDE DEF r
<1>2. Legal(r)
  BY <1>1 DEF Legal
<1> QED BY <1>2 DEF r

\* Nor does an instruction with its check for interrupts.
LEMMA RetireLegal ==
  ASSUME IInv, LegalSoftware, Legal(hart), NEW h \in Executed, Retire(h)
  PROVE  Legal(hart')
<1>1. Sound(h) /\ Legal(h) /\ hart' = check_interrupts(h)
  BY ExecutedSound, ExecutedLegal DEF Retire
<1>2. CASE \E mode \in Modes, irq \in AllIrqs :
             hart' = switch_to_trap_handler(h, mode, TRUE, irq)
  <2>1. PICK mode \in Modes, irq \in AllIrqs :
          hart' = switch_to_trap_handler(h, mode, TRUE, irq)
    BY <1>2
  <2>2. Legal(switch_to_trap_handler(h, mode, TRUE, irq))
    BY <1>1, SwitchLegal, TRUE \in BOOLEAN
  <2> QED BY <2>1, <2>2
<1> QED BY <1>1, <1>2, CheckCases

\* With a legal mode, the assertion in prepare_trap holds, and the trap is
\* not taken below the mode that caused it.
LEMMA RaiseLegal ==
  ASSUME IInv, Legal(hart), NEW exc \in 0 .. 15, Raise(exc)
  PROVE  /\ Legal(hart') /\ status' = status
         /\ hart'.prv >= hart.prv
<1> DEFINE mode == prepare_trap(hart, exc)
<1>1. mode \in Modes /\ Sound(hart)
  BY TrapMode DEF IInv
<1>2. mode >= hart.prv
  BY ModesAre DEF prepare_trap, Legal, MachineMode, SupervisorMode, UserMode
<1>3. mode = UserMode => hart.prv = UserMode
  BY <1>2, ModesAre DEF Legal, UserMode
<1>4. hart' = switch_to_trap_handler(hart, mode, FALSE, exc) /\ status' = status
  BY <1>3 DEF Raise
<1> HIDE DEF mode
<1>5. Legal(switch_to_trap_handler(hart, mode, FALSE, exc))
  BY <1>1, SwitchLegal, FALSE \in BOOLEAN
<1>6. hart'.prv = mode
  BY <1>1, <1>4 DEF switch_to_trap_handler, Sound, Hart
<1> QED BY <1>2, <1>4, <1>5, <1>6

LInv == Legal(hart) /\ NoAssertFails

\* No step of such software reaches a reserved mode or the failing assertion.
LEMMA StepLegal ==
  ASSUME IInv, LInv, LegalSoftware, [Next]_vars
  PROVE  LInv'
<1>0. Legal(hart) /\ Sound(hart) /\ status # "AssertFailed"
  BY DEF LInv, NoAssertFails, IInv
<1>1. CASE RunStep
  <2>1. ASSUME NEW h \in Executed, Retire(h), status' \in Stops
        PROVE  Legal(hart') /\ status' # "AssertFailed"
    BY <1>0, <2>1, RetireLegal DEF Stops
  <2>2. ASSUME NEW exc \in 0 .. 15, Raise(exc)
        PROVE  Legal(hart') /\ status' # "AssertFailed"
    BY <1>0, <2>2, RaiseLegal
  <2>3. ASSUME hart' \in {hart, Advance(hart, 4)}
        PROVE  Legal(hart')
    BY <1>0, <2>3 DEF Legal, Advance, Sound, Hart
  <2>4. Legal(hart') /\ status' # "AssertFailed"
    BY <1>1, <2>1, <2>2, <2>3, RunStepCases
  <2> QED BY <2>4 DEF LInv, NoAssertFails
<1>2. CASE Lines
  <2>1. PICK P \in SUBSET AllIrqs : hart' = [hart EXCEPT !.mip = P]
    BY <1>2, LineStep
  <2>2. Legal(hart')
    BY <1>0, <2>1 DEF Legal, Sound, Hart
  <2> QED BY <1>0, <1>2, <2>2, LineStep DEF LInv, NoAssertFails
<1>3. CASE DeltaCycle
  <2>1. CASE status = "Waiting"
    <3>1. Retire(hart) /\ status' = "Runnable"
      BY <1>3, <2>1 DEF DeltaCycle
    <3>2. Legal(hart')
      BY <1>0, <3>1, RetireLegal DEF Executed
    <3> QED BY <3>1, <3>2 DEF LInv, NoAssertFails
  <2>2. CASE status # "Waiting"
    BY <1>0, <1>3, <2>2 DEF DeltaCycle, LInv, NoAssertFails
  <2> QED BY <2>1, <2>2
<1>4. CASE UNCHANGED vars
  BY <1>0, <1>4 DEF vars, LInv, NoAssertFails
<1> QED BY <1>1, <1>2, <1>3, <1>4 DEF Next

\* Software that writes no reserved value to mpp never reaches the assertion
\* in prepare_trap, however it delegates.
THEOREM AssertHolds ==
  ASSUME LegalSoftware
  PROVE  Spec => []NoAssertFails
<1>1. Init => LInv
  BY DEF Init, LInv, NoAssertFails, Legal, Modes, MachineMode, UserMode
<1>2. IInv /\ LInv /\ [Next]_vars => LInv'
  BY StepLegal
<1>3. LInv => NoAssertFails
  BY DEF LInv
<1> QED BY <1>1, <1>2, <1>3, Invariance, PTL DEF Spec

-----------------------------------------------------------------------------
(* Falling privilege.                                                      *)

FallOk ==
  hart'.prv < hart.prv =>
    /\ hart'.prv >= hart.mpp
    /\ hart'.ie[MachineMode] = hart.pie[MachineMode]

\* MRET lowers the privilege no further than mpp, and restores the interrupt enable.
LEMMA RetireFall ==
  ASSUME IInv, NEW h \in Executed, Retire(h)
  PROVE  FallOk
<1> SUFFICES ASSUME hart'.prv < hart.prv
             PROVE  hart'.prv >= hart.mpp /\ hart'.ie[MachineMode] = hart.pie[MachineMode]
  BY DEF FallOk
<1>1. Sound(hart) /\ Sound(h) /\ hart' = check_interrupts(h)
  BY ExecutedSound DEF IInv, Retire
<1>2. hart.prv \in 0 .. 3 /\ h.prv \in 0 .. 3 /\ MachineMode \in Modes
  BY <1>1 DEF Sound, Hart, Modes
<1>3. h.prv <= hart'.prv /\ hart'.ie[MachineMode] = h.ie[MachineMode]
  <2>1. CASE hart' = h
    BY <1>2, <2>1
  <2>2. CASE \E mode \in Modes, irq \in AllIrqs :
               h.prv <= mode /\ hart' = switch_to_trap_handler(h, mode, TRUE, irq)
    <3>1. PICK mode \in Modes, irq \in AllIrqs :
            h.prv <= mode /\ hart' = switch_to_trap_handler(h, mode, TRUE, irq)
      BY <2>2
    <3>2. hart'.prv = mode
      BY <1>1, <3>1 DEF switch_to_trap_handler, Sound, Hart
    <3>3. mode # MachineMode
      BY <1>2, <3>2 DEF MachineMode
    <3>4. hart'.ie = [h.ie EXCEPT ![mode] = FALSE]
      BY <1>1, <3>1 DEF switch_to_trap_handler, Sound, Hart
    <3>5. h.ie \in [Modes -> BOOLEAN]
      BY <1>1 DEF Sound, Hart
    <3> HIDE DEF Modes, MachineMode
    <3>6. hart'.ie[MachineMode] = h.ie[MachineMode]
      BY <1>2, <3>3, <3>4, <3>5
    <3> QED BY <3>1, <3>2, <3>6
  <2> QED BY <1>1, <2>1, <2>2, CheckCases
<1>a. hart'.prv \in 0 .. 3
  BY <1>1, CheckSound DEF Sound, Hart
<1>4. h.prv # hart.prv
  BY <1>2, <1>3, <1>a
<1>5. h = return_from_trap_handler(hart)
  BY <1>4, ExecutedCases
<1>6. h.prv = hart.mpp /\ h.ie[MachineMode] = hart.pie[MachineMode]
  BY <1>1, <1>2, <1>5 DEF return_from_trap_handler, Sound, Hart
<1> QED BY <1>2, <1>3, <1>6 DEF IInv, Sound, Hart

\* Software that writes no reserved value to mpp lowers the privilege only by
\* MRET, and not below mpp: no delegation sends a trap or an interrupt to a
\* mode below the interrupted one.
THEOREM PrivilegeFalls ==
  ASSUME LegalSoftware
  PROVE  Spec => PrivilegeFallsByReturn
<1>1. Init => LInv
  BY DEF Init, LInv, NoAssertFails, Legal, Modes, MachineMode, UserMode
<1>2. IInv /\ LInv /\ [Next]_vars => LInv'
  BY StepLegal
<1>3. ASSUME IInv, LInv, [Next]_vars PROVE [FallOk]_vars
  <2>0. Sound(hart) /\ hart.prv \in Int /\ Legal(hart)
    BY <1>3 DEF IInv, Sound, Hart, LInv
  <2>1. CASE RunStep
    <3>1. CASE hart' = Advance(hart, 4) \/ hart' = hart
      BY <2>0, <3>1 DEF FallOk, Advance, Sound, Hart
    <3>2. ASSUME NEW exc \in 0 .. 15, Raise(exc)
          PROVE  FallOk
      <4>1. hart'.prv >= hart.prv /\ Legal(hart')
        BY <1>3, <2>0, <3>2, RaiseLegal
      <4>2. hart'.prv \in Int
        BY <4>1, ModesAre DEF Legal
      <4> QED BY <2>0, <4>1, <4>2 DEF FallOk
    <3> QED BY <1>3, <2>1, <3>1, <3>2, RunStepCases, RetireFall
  <2>2. CASE Lines
    <3>1. hart'.prv = hart.prv
      BY <1>3, <2>2, LineStep DEF IInv, Sound, Hart
    <3> QED BY <2>0, <3>1 DEF FallOk
  <2>3. CASE DeltaCycle
    <3>1. CASE hart' = hart
      BY <2>0, <3>1 DEF FallOk
    <3>2. CASE Retire(hart)
      BY <1>3, <3>2, RetireFall DEF Executed
    <3> QED BY <2>3, <3>1, <3>2 DEF DeltaCycle
  <2> QED BY <1>3, <2>1, <2>2, <2>3 DEF Next
<1>4. [FallOk]_vars => [hart'.prv < hart.prv =>
                          /\ hart'.prv >= hart.mpp
                          /\ hart'.ie[MachineMode] = hart.pie[MachineMode]]_vars
  BY DEF FallOk
<1> QED BY <1>1, <1>2, <1>3, <1>4, Invariance, PTL DEF Spec, PrivilegeFallsByReturn

-----------------------------------------------------------------------------
(* Traps are transparent to the program that they interrupt, for the       *)
(* software of MCNestedHandlers.  The invariant says for each place of the *)
(* software which context the hart and the stack hold.                     *)

\* What the hart was doing when it trapped: the outermost context is the main
\* program's, the others are those of handlers that were interrupted at work.
Interrupted(epc, mpp, pie, outermost) ==
  IF outermost
  THEN epc \in {Main, Main + 4, Main + 8} /\ mpp = MainMode /\ pie = MainEnabled
  ELSE epc \in {Handler + 8, Handler + 12} /\ mpp = MachineMode

Frame(f, outermost) ==
  /\ ~ f.mstatus.ie[MachineMode]
  /\ Interrupted(f.epc, f.mstatus.mpp, f.mstatus.pie[MachineMode], outermost)

Frames(s) ==
  /\ s \in Seq([epc : Addr, mstatus : Status])
  /\ \A i \in 1 .. Len(s) : Frame(s[i], i = Len(s))

\* Traps go to the table.
Ready(h) == h.tvec[MachineMode].base = Table

Booting(h, s) ==
  /\ h.pc \in {Boot, Boot + 4, Boot + 8, Boot + 12, Boot + 16}
  /\ s = <<>> /\ h.prv = MachineMode /\ ~ h.ie[MachineMode]
  /\ h.pc >= Boot + 4 => Ready(h)
  /\ h.pc >= Boot + 12 => h.epc[MachineMode] = Main
  /\ h.pc = Boot + 16 => h.mpp = MainMode /\ h.pie[MachineMode] = MainEnabled

InProgram(h, s) ==
  /\ h.pc \in {Main, Main + 4, Main + 8}
  /\ s = <<>> /\ h.prv = MainMode /\ h.ie[MachineMode] = MainEnabled
  /\ Ready(h)

Vectors == {Table + 4 * code : code \in {0} \cup AllIrqs}

\* Before the handler has saved the context, and after it has restored it.
AtEdge(h, s) ==
  /\ h.pc \in Vectors \cup {Handler, Handler + 24}
  /\ h.prv = MachineMode /\ ~ h.ie[MachineMode] /\ Ready(h)
  /\ Interrupted(h.epc[MachineMode], h.mpp, h.pie[MachineMode], s = <<>>)

\* In between, when a handler that enabled interrupts can be interrupted.
AtWork(h, s) ==
  /\ h.pc \in {Handler + 4, Handler + 8, Handler + 12, Handler + 16, Handler + 20}
  /\ s # <<>> /\ h.prv = MachineMode /\ Ready(h)
  /\ h.pc \notin {Handler + 8, Handler + 12} => ~ h.ie[MachineMode]
  /\ h.pc = Handler + 20 => /\ h.mpp = Head(s).mstatus.mpp
                            /\ h.pie[MachineMode] = Head(s).mstatus.pie[MachineMode]

Good(h, s) ==
  /\ Sound(h) /\ h.mideleg = {} /\ h.medeleg = {} /\ Frames(s)
  /\ Booting(h, s) \/ InProgram(h, s) \/ AtEdge(h, s) \/ AtWork(h, s)

NestInv ==
  /\ Good(hart, stack)
  /\ status \in {"Runnable", "Waiting"} /\ wfi_event \in BOOLEAN
  /\ status = "Waiting" => hart.pc = Main + 8

\* Where the main program is, as a function of the hart and the stack.
ViewOf(h, s) ==
  IF s # <<>>
  THEN <<s[Len(s)].epc, s[Len(s)].mstatus.mpp, s[Len(s)].mstatus.pie[MachineMode]>>
  ELSE IF h.pc \in Table .. Handler + 27
  THEN <<h.epc[MachineMode], h.mpp, h.pie[MachineMode]>>
  ELSE IF h.pc \in Main .. Main + 11
  THEN <<h.pc, h.prv, h.ie[MachineMode]>>
  ELSE <<Main, MainMode, MainEnabled>>

\* It is what the refinement mapping of MCNestedHandlers says.
LEMMA ViewIs == <<MainAt, MainPrv, MainIe>> = ViewOf(hart, stack)
  <1>1. CASE stack # <<>>
    BY <1>1 DEF MainAt, MainPrv, MainIe, ViewOf, Outermost
  <1>2. CASE stack = <<>> /\ InHandler
    <2>1. ASSUME NEW x \in Table .. Handler + 27 PROVE x \notin Main .. Main + 11
      BY DEF Table, Handler, Main
    <2>2. ~ InMain
      BY <1>2, <2>1 DEF InHandler, InMain
    <2>3. MainAt = hart.epc[MachineMode] /\ MainPrv = hart.mpp /\ MainIe = hart.pie[MachineMode]
      BY <1>2, <2>2 DEF MainAt, MainPrv, MainIe
    <2> QED
      BY <1>2, <2>3 DEF ViewOf, InHandler
  <1>3. CASE stack = <<>> /\ ~ InHandler /\ InMain
    BY <1>3 DEF MainAt, MainPrv, MainIe, ViewOf, InHandler, InMain, Table, Handler, Main
  <1>4. CASE stack = <<>> /\ ~ InHandler /\ ~ InMain
    BY <1>4 DEF MainAt, MainPrv, MainIe, ViewOf, InHandler, InMain
  <1> QED
    BY <1>1, <1>2, <1>3, <1>4

\* Saving a context.
LEMMA FramePushed ==
  ASSUME NEW s, Frames(s), NEW f \in [epc : Addr, mstatus : Status], Frame(f, s = <<>>)
  PROVE  /\ Frames(<<f>> \o s) /\ <<f>> \o s # <<>>
         /\ LET t == <<f>> \o s IN t[Len(t)] = IF s = <<>> THEN f ELSE s[Len(s)]
  <1> DEFINE S == [epc : Addr, mstatus : Status]
             t == <<f>> \o s
  <1>1. s \in Seq(S) /\ <<f>> \in Seq(S) /\ Len(<<f>>) = 1 /\ <<f>>[1] = f /\ Len(s) \in Nat
    BY DEF Frames
  <1>2. t \in Seq(S) /\ Len(t) = Len(s) + 1 /\ t[1] = f
    BY <1>1
  <1>3. ASSUME NEW i \in 2 .. Len(t) PROVE t[i] = s[i - 1] /\ i - 1 \in 1 .. Len(s)
    BY <1>1, <1>2
  <1>4. (s = <<>>) <=> Len(s) = 0
    BY <1>1, EmptySeq
  <1> HIDE DEF t, S
  <1>5. ASSUME NEW i \in 1 .. Len(t) PROVE Frame(t[i], i = Len(t))
    <2>1. CASE i = 1
      <3>1. (i = Len(t)) <=> (s = <<>>)
        BY <1>1, <1>2, <1>4, <2>1
      <3> QED
        BY <1>2, <2>1, <3>1 DEF Frame, Interrupted
    <2>2. CASE i # 1
      <3>1. i \in 2 .. Len(t) /\ (i - 1 = Len(s) <=> i = Len(t))
        BY <1>1, <1>2, <2>2
      <3>2. Frame(s[i - 1], i - 1 = Len(s)) /\ t[i] = s[i - 1]
        BY <1>3, <3>1 DEF Frames
      <3> QED
        BY <3>1, <3>2 DEF Frame, Interrupted
    <2> QED
      BY <2>1, <2>2
  <1>6. Frames(t)
    BY <1>2, <1>5 DEF Frames, S
  <1>7. t # <<>>
    BY <1>1, <1>2, EmptySeq
  <1>8. t[Len(t)] = IF s = <<>> THEN f ELSE s[Len(s)]
    <2>1. CASE s = <<>>
      BY <1>2, <1>4, <2>1
    <2>2. CASE s # <<>>
      <3>1. Len(t) \in 2 .. Len(t) /\ Len(t) - 1 = Len(s)
        BY <1>1, <1>2, <1>4, <2>2
      <3> QED
        BY <1>3, <2>2, <3>1
    <2> QED
      BY <2>1, <2>2
  <1> QED
    BY <1>6, <1>7, <1>8 DEF t

\* Restoring the innermost context.
LEMMA FramePopped ==
  ASSUME NEW s, Frames(s), s # <<>>
  PROVE  /\ Head(s) \in [epc : Addr, mstatus : Status]
         /\ Frame(Head(s), Tail(s) = <<>>) /\ Frames(Tail(s))
         /\ s[Len(s)] = IF Tail(s) = <<>> THEN Head(s) ELSE Tail(s)[Len(Tail(s))]
  <1> DEFINE S == [epc : Addr, mstatus : Status]
             t == Tail(s)
  <1>1. s \in Seq(S) /\ Len(s) \in Nat /\ Len(s) # 0
    BY EmptySeq DEF Frames
  <1>2. Head(s) = s[1] /\ Head(s) \in S /\ t \in Seq(S) /\ Len(t) = Len(s) - 1
    <2>1. Head(s) \in S /\ t \in Seq(S) /\ Len(t) = Len(s) - 1
      BY <1>1, HeadTailProperties
    <2>2. Head(s) = s[1]
      BY <1>1
    <2> QED
      BY <2>1, <2>2
  <1>3. ASSUME NEW i \in 1 .. Len(t) PROVE t[i] = s[i + 1]
    BY <1>1, <1>2
  <1>4. (t = <<>>) <=> Len(t) = 0
    BY <1>2, EmptySeq
  <1> HIDE DEF t, S
  <1>5. Frame(Head(s), t = <<>>)
    <2>1. Frame(s[1], 1 = Len(s)) /\ (1 = Len(s) <=> t = <<>>)
      BY <1>1, <1>2, <1>4 DEF Frames
    <2> QED
      BY <1>2, <2>1 DEF Frame, Interrupted
  <1>6. ASSUME NEW i \in 1 .. Len(t) PROVE Frame(t[i], i = Len(t))
    <2>1. i + 1 \in 1 .. Len(s) /\ (i + 1 = Len(s) <=> i = Len(t))
      BY <1>1, <1>2
    <2>2. Frame(s[i + 1], i + 1 = Len(s))
      BY <2>1 DEF Frames
    <2> QED
      BY <1>3, <2>1, <2>2 DEF Frame, Interrupted
  <1>7. Frames(t)
    BY <1>2, <1>6 DEF Frames, S
  <1>8. s[Len(s)] = IF t = <<>> THEN Head(s) ELSE t[Len(t)]
    <2>1. CASE t = <<>>
      BY <1>1, <1>2, <1>4, <2>1
    <2>2. CASE t # <<>>
      <3>1. Len(t) \in 1 .. Len(t) /\ Len(t) + 1 = Len(s)
        BY <1>1, <1>2, <1>4, <2>2
      <3> QED
        BY <1>3, <2>2, <3>1
    <2> QED
      BY <2>1, <2>2
  <1> QED
    BY <1>2, <1>5, <1>7, <1>8 DEF t, S

\* What a trap to machine mode makes of the hart.
Trapped(h, t) ==
  /\ Sound(t) /\ t.pc \in Vectors /\ t.prv = MachineMode /\ ~ t.ie[MachineMode]
  /\ t.epc[MachineMode] = h.pc /\ t.mpp = h.prv /\ t.pie[MachineMode] = h.ie[MachineMode]
  /\ t.tvec = h.tvec /\ t.mideleg = h.mideleg /\ t.medeleg = h.medeleg

\* Switch_to_trap_handler to machine mode is such a trap.
LEMMA SwitchIs ==
  ASSUME NEW h, Sound(h), Ready(h), NEW interrupt \in BOOLEAN, NEW code \in 0 .. 15,
         interrupt => code \in AllIrqs
  PROVE  Trapped(h, switch_to_trap_handler(h, MachineMode, interrupt, code))
  <1> DEFINE t == switch_to_trap_handler(h, MachineMode, interrupt, code)
             o == VectorOffset(h, MachineMode, interrupt, code)
             v == (Table + o) % AddrSpace
  <1>0. MachineMode \in Modes /\ h \in Hart
    BY DEF Modes, Sound
  <1>1. Sound(t)
    BY <1>0, SwitchSound
  <1>2. o \in {4 * c : c \in {0} \cup AllIrqs}
    BY ModesAre DEF VectorOffset
  <1>3. v = Table + o /\ v \in Vectors
    <2>1. PICK c \in {0} \cup AllIrqs : o = 4 * c
      BY <1>2
    <2>2. o \in 0 .. 44
      BY <2>1, ModesAre
    <2> HIDE DEF o
    <2>3. v = Table + o
      BY <2>2, MainAssumption, AddrSpaceAssumption DEF Table, Main
    <2> QED
      BY <2>1, <2>3 DEF Vectors
  <1>4. t = [h EXCEPT !.prv = MachineMode, !.epc = [@ EXCEPT ![MachineMode] = h.pc],
                      !.pie = [@ EXCEPT ![MachineMode] = h.ie[MachineMode]],
                      !.ie = [@ EXCEPT ![MachineMode] = FALSE],
                      !.mpp = h.prv, !.spp = h.spp, !.pc = v]
    <2>1. h.tvec[MachineMode].base = Table /\ MachineMode # SupervisorMode
      BY DEF Ready, MachineMode, SupervisorMode
    <2> QED
      BY <1>0, <2>1 DEF switch_to_trap_handler, Hart
  <1> HIDE DEF t, o, v
  <1>5. /\ t.prv = MachineMode /\ t.mpp = h.prv /\ t.pc = v /\ t.tvec = h.tvec
        /\ t.mideleg = h.mideleg /\ t.medeleg = h.medeleg
        /\ t.epc = [h.epc EXCEPT ![MachineMode] = h.pc]
        /\ t.pie = [h.pie EXCEPT ![MachineMode] = h.ie[MachineMode]]
        /\ t.ie = [h.ie EXCEPT ![MachineMode] = FALSE]
    BY <1>0, <1>4 DEF Hart
  <1>6. t.epc[MachineMode] = h.pc /\ t.pie[MachineMode] = h.ie[MachineMode] /\ ~ t.ie[MachineMode]
    BY <1>0, <1>5 DEF Hart
  <1> QED
    BY <1>1, <1>3, <1>5, <1>6 DEF Trapped, t

\* The places where a trap may come.
Trappable(h, s) == InProgram(h, s) \/ (AtWork(h, s) /\ h.pc \in {Handler + 8, Handler + 12})

\* A trap saves what the interrupted context needs, and hides nothing of the main
\* program.
LEMMA TrapKeeps ==
  ASSUME NEW h, NEW s, NEW t, Good(h, s), Trappable(h, s), Trapped(h, t)
  PROVE  Good(t, s) /\ ViewOf(t, s) = ViewOf(h, s)
  <1>1. /\ Sound(t) /\ t.mideleg = {} /\ t.medeleg = {} /\ Frames(s) /\ Ready(t)
        /\ t.pc \in Vectors /\ t.prv = MachineMode /\ ~ t.ie[MachineMode]
    BY DEF Good, Trapped, Trappable, InProgram, AtWork, Ready
  <1>2. Interrupted(t.epc[MachineMode], t.mpp, t.pie[MachineMode], s = <<>>)
    BY DEF Trapped, Trappable, InProgram, AtWork, Interrupted
  <1>3. ViewOf(t, s) = ViewOf(h, s)
    <2>1. CASE s # <<>>
      BY <2>1 DEF ViewOf
    <2>2. CASE s = <<>>
      <3>1. InProgram(h, s)
        BY <2>2 DEF Trappable, AtWork
      <3>2. h.pc \in Main .. Main + 11 /\ h.pc \notin Table .. Handler + 27
        <4>1. ASSUME NEW x \in {Main, Main + 4, Main + 8}
              PROVE  x \in Main .. Main + 11 /\ x \notin Table .. Handler + 27
          BY DEF Main, Table, Handler
        <4> QED
          BY <3>1, <4>1 DEF InProgram
      <3>3. t.pc \in Table .. Handler + 27
        BY <1>1, ModesAre DEF Vectors, Table, Handler
      <3> QED
        BY <2>2, <3>2, <3>3 DEF ViewOf, Trapped
    <2> QED
      BY <2>1, <2>2
  <1> QED
    BY <1>1, <1>2, <1>3 DEF Good, AtEdge

\* So does the check for interrupts after any instruction.
LEMMA CheckKeeps ==
  ASSUME NEW h, NEW s, Good(h, s)
  PROVE  Good(check_interrupts(h), s) /\ ViewOf(check_interrupts(h), s) = ViewOf(h, s)
  <1>1. CASE compute_pending_interrupts(h) = {}
    BY <1>1 DEF check_interrupts
  <1>2. CASE compute_pending_interrupts(h) # {}
    <2> DEFINE mode == Max(compute_pending_interrupts(h))
               irq == prepare_interrupt(Pending(h, mode))
    <2>1. mode \in Modes /\ Deliverable(h, mode)
      BY <1>2, TargetMode
    <2> HIDE DEF mode
    <2>2. Pending(h, mode) # {} /\ Pending(h, mode) \subseteq AllIrqs
      BY <2>1 DEF Deliverable, Pending, Good, Sound, Hart
    <2>3. mode = MachineMode
      BY <2>1, <2>2 DEF Pending, Good, Modes, MachineMode, SupervisorMode, UserMode
    <2>4. irq \in AllIrqs /\ irq \in 0 .. 15
      BY <2>2, PrepareInterrupt, ModesAre
    <2> HIDE DEF irq
    <2>5. h.prv < MachineMode \/ h.ie[MachineMode]
      BY <2>1, <2>3 DEF Deliverable
    <2>6. Trappable(h, s) /\ Ready(h)
      BY <2>5 DEF Good, Trappable, Booting, AtEdge, AtWork, InProgram, MachineMode
    <2>7. Trapped(h, switch_to_trap_handler(h, MachineMode, TRUE, irq))
      BY <2>4, <2>6, SwitchIs DEF Good
    <2>8. check_interrupts(h) = switch_to_trap_handler(h, MachineMode, TRUE, irq)
      BY <1>2, <2>3 DEF check_interrupts, mode, irq
    <2> QED
      BY <2>6, <2>7, <2>8, TrapKeeps
  <1> QED
    BY <1>1, <1>2

\* An exception is not delegated.
LEMMA ExceptionKeeps ==
  ASSUME Good(hart, stack), Trappable(hart, stack), NEW exc \in 0 .. 15, Raise(exc)
  PROVE  /\ Good(hart', stack) /\ ViewOf(hart', stack) = ViewOf(hart, stack)
         /\ status' = status
  <1>1. prepare_trap(hart, exc) = MachineMode /\ MachineMode # UserMode
    BY DEF prepare_trap, Good, MachineMode, UserMode
  <1>2. hart' = switch_to_trap_handler(hart, MachineMode, FALSE, exc) /\ status' = status
    BY <1>1 DEF Raise
  <1>3. Ready(hart) /\ Sound(hart)
    BY DEF Good, Trappable, InProgram, AtWork
  <1>4. PICK t : t = hart'
    OBVIOUS
  <1>5. Trapped(hart, t)
    BY <1>2, <1>3, <1>4, SwitchIs
  <1>6. Good(t, stack) /\ ViewOf(t, stack) = ViewOf(hart, stack)
    BY <1>5, TrapKeeps
  <1> QED
    BY <1>2, <1>4, <1>6


\* The check for interrupts ends every instruction that retires.
LEMMA RetiredKeeps ==
  ASSUME NEW h, NEW s, Good(h, s), Retire(h)
  PROVE  Good(hart', s) /\ ViewOf(hart', s) = ViewOf(h, s)
  BY CheckKeeps DEF Retire

\* Two states of the hart that differ in the pc only, as far as the invariant goes.
SameButPc(h, t) ==
  /\ t.prv = h.prv /\ t.ie = h.ie /\ t.pie = h.pie /\ t.mpp = h.mpp /\ t.epc = h.epc
  /\ t.tvec = h.tvec /\ t.mideleg = h.mideleg /\ t.medeleg = h.medeleg

\* The software is not at the end of the address space.
LEMMA AdvanceIs ==
  ASSUME NEW h, Sound(h), h.pc <= Main + 4
  PROVE  LET t == Advance(h, 4)
         IN  Sound(t) /\ SameButPc(h, t) /\ t.pc = h.pc + 4
  <1> DEFINE t == Advance(h, 4)
  <1>1. h \in Hart /\ h.pc \in Nat
    BY AddrSpaceAssumption DEF Sound, Hart, Addr
  <1>2. (h.pc + 4) % AddrSpace = h.pc + 4
    BY <1>1, MainAssumption, AddrSpaceAssumption DEF Main
  <1>3. t = [h EXCEPT !.pc = h.pc + 4]
    BY <1>1, <1>2 DEF Advance, Hart
  <1>4. Sound(t)
    BY AdvanceSound
  <1> HIDE DEF t
  <1>5. SameButPc(h, t) /\ t.pc = h.pc + 4
    BY <1>1, <1>3 DEF Hart, SameButPc
  <1> QED
    BY <1>4, <1>5 DEF t

\* What the CSR instructions of the software do, in machine mode.
SameBut(h, t) == /\ t.pc = h.pc /\ t.prv = h.prv
                 /\ t.mideleg = h.mideleg /\ t.medeleg = h.medeleg

SameStatus(h, t) == t.ie = h.ie /\ t.pie = h.pie /\ t.mpp = h.mpp

\* Mtvec, with or without vectors.
LEMMA WriteTvec ==
  ASSUME NEW h, Sound(h), NEW b \in {0, 1}
  PROVE  LET t == set_csr_value(h, <<"tvec", MachineMode>>, Table + b)
         IN  Sound(t) /\ SameBut(h, t) /\ SameStatus(h, t) /\ Ready(t)
  <1> DEFINE csr == <<"tvec", MachineMode>>
             v == Table + b
             r == [base |-> v - (v % 4), vectored |-> v % 2 = 1]
             t == set_csr_value(h, csr, v)
  <1>0. h \in Hart /\ MachineMode \in Modes
    BY DEF Sound, Modes
  <1>1. t = [h EXCEPT !.tvec = [@ EXCEPT ![MachineMode] = r]]
    BY <1>0 DEF set_csr_value, Hart
  <1>2. v - (v % 4) = Table /\ Table \in Addr /\ Table % 4 = 0
    BY MainAssumption, AddrSpaceAssumption DEF Table, Main, Addr
  <1>3. r \in TrapVector /\ r.base = Table
    BY <1>2 DEF TrapVector
  <1> HIDE DEF r, v, t
  <1>4. [h.tvec EXCEPT ![MachineMode] = r] \in [Modes -> TrapVector]
    BY <1>0, <1>3 DEF Hart
  <1>5. t.tvec[MachineMode] = r
    BY <1>0, <1>1 DEF Hart
  <1>6. Sound(t) /\ SameBut(h, t) /\ SameStatus(h, t)
    BY <1>0, <1>1, <1>4 DEF Sound, SameBut, SameStatus, Hart
  <1> QED
    BY <1>3, <1>5, <1>6 DEF Ready, t, v

\* Mie.
LEMMA WriteIe ==
  ASSUME NEW h, Sound(h)
  PROVE  LET t == set_csr_value(h, <<"ie", MachineMode>>, Irqs)
         IN  /\ Sound(t) /\ SameBut(h, t) /\ SameStatus(h, t)
             /\ t.tvec = h.tvec /\ t.epc = h.epc
  <1> DEFINE m == Masked(h.mie, Irqs, IE_MASK(MachineMode))
             t == set_csr_value(h, <<"ie", MachineMode>>, Irqs)
  <1>1. t = [h EXCEPT !.mie = m]
    BY DEF set_csr_value, Sound, Hart
  <1>2. m \subseteq AllIrqs
    BY IrqsAssumption DEF Masked, Sound, Hart
  <1> HIDE DEF m, t
  <1>3. Sound(t) /\ SameBut(h, t) /\ SameStatus(h, t) /\ t.tvec = h.tvec /\ t.epc = h.epc
    BY <1>1, <1>2 DEF Sound, SameBut, SameStatus, Hart
  <1> QED
    BY <1>3 DEF t

\* Mepc.
LEMMA WriteEpc ==
  ASSUME NEW h, Sound(h), NEW v \in Addr, v % 2 = 0
  PROVE  LET t == set_csr_value(h, <<"epc", MachineMode>>, v)
         IN  /\ Sound(t) /\ SameBut(h, t) /\ SameStatus(h, t)
             /\ t.tvec = h.tvec /\ t.epc[MachineMode] = v
  <1> DEFINE t == set_csr_value(h, <<"epc", MachineMode>>, v)
  <1>0. h \in Hart /\ MachineMode \in Modes
    BY DEF Sound, Modes
  <1>1. PcAligned(v) = v
    BY AddrSpaceAssumption DEF PcAligned, Addr
  <1>2. t = [h EXCEPT !.epc = [@ EXCEPT ![MachineMode] = v]]
    BY <1>0, <1>1 DEF set_csr_value, Hart
  <1>3. [h.epc EXCEPT ![MachineMode] = v] \in [Modes -> Addr]
    BY <1>0 DEF Hart
  <1> HIDE DEF t
  <1>4. t \in Hart /\ SameBut(h, t) /\ SameStatus(h, t) /\ t.tvec = h.tvec
        /\ t.epc = [h.epc EXCEPT ![MachineMode] = v]
    BY <1>0, <1>2, <1>3 DEF SameBut, SameStatus, Hart
  <1>5. t.epc[MachineMode] = v /\ \A m \in Modes : t.epc[m] % 2 = 0
    BY <1>0, <1>4 DEF Sound, Hart
  <1>6. Sound(t)
    BY <1>4, <1>5 DEF Sound, SameBut, SameStatus
  <1> QED
    BY <1>4, <1>5, <1>6 DEF t

\* Mstatus.
LEMMA WriteMstatusIs ==
  ASSUME NEW h, Sound(h), h.prv = MachineMode, NEW v \in Status
  PROVE  LET t == set_csr_value(h, <<"status", MachineMode>>, v)
         IN  /\ Sound(t) /\ SameBut(h, t) /\ t.tvec = h.tvec /\ t.epc = h.epc
             /\ t.ie[MachineMode] = v.ie[MachineMode]
             /\ t.pie[MachineMode] = v.pie[MachineMode] /\ t.mpp = v.mpp
  <1> DEFINE t == set_csr_value(h, <<"status", MachineMode>>, v)
             i == [m \in Modes |-> IF m <= MachineMode THEN v.ie[m] ELSE h.ie[m]]
             p == [m \in Modes |-> IF m <= MachineMode THEN v.pie[m] ELSE h.pie[m]]
             ns == IF MachineMode >= SupervisorMode THEN v.spp ELSE h.spp
  <1>0. h \in Hart /\ MachineMode \in Modes /\ MachineMode <= h.prv
    BY DEF Sound, Modes, MachineMode
  <1>1. t = WriteStatus(h, MachineMode, v)
    BY DEF set_csr_value
  <1>2. Sound(t)
    BY <1>0, <1>1, StatusSound
  <1>3. t = [h EXCEPT !.ie = i, !.pie = p, !.spp = ns, !.mpp = v.mpp, !.tw = v.tw]
    BY <1>0, <1>1 DEF WriteStatus, Hart
  <1>4. i[MachineMode] = v.ie[MachineMode] /\ p[MachineMode] = v.pie[MachineMode]
    BY <1>0 DEF MachineMode
  <1> HIDE DEF t, i, p, ns
  <1>5. /\ SameBut(h, t) /\ t.tvec = h.tvec /\ t.epc = h.epc
        /\ t.ie = i /\ t.pie = p /\ t.mpp = v.mpp
    BY <1>0, <1>3 DEF SameBut, Hart
  <1> QED
    BY <1>2, <1>4, <1>5 DEF t

\* MRET takes the context from mepc and mstatus.
LEMMA ReturnIs ==
  ASSUME NEW h, Sound(h)
  PROVE  LET t == return_from_trap_handler(h)
         IN  /\ Sound(t) /\ t.prv = h.mpp /\ t.pc = h.epc[MachineMode]
             /\ t.ie[MachineMode] = h.pie[MachineMode] /\ t.tvec = h.tvec
             /\ t.mideleg = h.mideleg /\ t.medeleg = h.medeleg
  <1> DEFINE t == return_from_trap_handler(h)
  <1>0. h \in Hart /\ MachineMode \in Modes
    BY DEF Sound, Modes
  <1>1. Sound(t)
    BY ReturnSound
  <1>2. t = [h EXCEPT !.prv = h.mpp,
                      !.ie = [@ EXCEPT ![MachineMode] = h.pie[MachineMode]],
                      !.pie = [@ EXCEPT ![MachineMode] = TRUE],
                      !.pc = h.epc[MachineMode], !.mpp = UserMode]
    BY <1>0 DEF return_from_trap_handler, Hart
  <1> HIDE DEF t
  <1>3. /\ t.prv = h.mpp /\ t.pc = h.epc[MachineMode] /\ t.tvec = h.tvec
        /\ t.mideleg = h.mideleg /\ t.medeleg = h.medeleg
        /\ t.ie = [h.ie EXCEPT ![MachineMode] = h.pie[MachineMode]]
    BY <1>0, <1>2 DEF Hart
  <1>4. t.ie[MachineMode] = h.pie[MachineMode]
    BY <1>0, <1>3 DEF Hart
  <1> QED
    BY <1>1, <1>3, <1>4 DEF t

\* The pc tells the parts of the invariant apart.
LEMMA Whereabouts ==
  ASSUME NEW h, NEW s, Good(h, s)
  PROVE  /\ h.pc \in {Boot, Boot + 4, Boot + 8, Boot + 12, Boot + 16} => Booting(h, s)
         /\ h.pc \in {Main, Main + 4, Main + 8} => InProgram(h, s)
         /\ h.pc \in Vectors \cup {Handler, Handler + 24} => AtEdge(h, s)
         /\ h.pc \in {Handler + 4, Handler + 8, Handler + 12, Handler + 16, Handler + 20} => AtWork(h, s)
  <1>1. ASSUME NEW x \in Vectors PROVE x \in 32 .. 76
    BY ModesAre DEF Vectors, Table
  <1>2. \/ Booting(h, s) /\ h.pc \in {0, 4, 8, 12, 16}
        \/ InProgram(h, s) /\ h.pc \in {160, 164, 168}
        \/ AtEdge(h, s) /\ h.pc \in Vectors \cup {96, 120}
        \/ AtWork(h, s) /\ h.pc \in {100, 104, 108, 112, 116}
    BY DEF Good, Booting, InProgram, AtEdge, AtWork, Boot, Main, Handler
  <1>3. h.pc \in {0, 4, 8, 12, 16} => Booting(h, s)
    BY <1>1, <1>2
  <1>4. h.pc \in {160, 164, 168} => InProgram(h, s)
    BY <1>1, <1>2
  <1>5. h.pc \in Vectors \cup {96, 120} => AtEdge(h, s)
    BY <1>1, <1>2
  <1>6. h.pc \in {100, 104, 108, 112, 116} => AtWork(h, s)
    BY <1>1, <1>2
  <1> QED
    BY <1>3, <1>4, <1>5, <1>6 DEF Boot, Main, Handler

\* What the main program sees of each of them.
LEMMA Views ==
  ASSUME NEW h, NEW s
  PROVE  /\ Booting(h, s) => ViewOf(h, s) = <<Main, MainMode, MainEnabled>>
         /\ InProgram(h, s) => ViewOf(h, s) = <<h.pc, MainMode, MainEnabled>>
         /\ AtEdge(h, s) /\ s = <<>> =>
               ViewOf(h, s) = <<h.epc[MachineMode], h.mpp, h.pie[MachineMode]>>
  <1>1. ASSUME Booting(h, s) PROVE h.pc \notin Table .. Handler + 27 /\ h.pc \notin Main .. Main + 11
    <2>1. ASSUME NEW x \in {Boot, Boot + 4, Boot + 8, Boot + 12, Boot + 16}
          PROVE  x \notin Table .. Handler + 27 /\ x \notin Main .. Main + 11
      BY DEF Boot, Table, Handler, Main
    <2> QED
      BY <1>1, <2>1 DEF Booting
  <1>2. ASSUME InProgram(h, s) PROVE h.pc \notin Table .. Handler + 27 /\ h.pc \in Main .. Main + 11
    <2>1. ASSUME NEW x \in {Main, Main + 4, Main + 8}
          PROVE  x \notin Table .. Handler + 27 /\ x \in Main .. Main + 11
      BY DEF Table, Handler, Main
    <2> QED
      BY <1>2, <2>1 DEF InProgram
  <1>3. ASSUME AtEdge(h, s) PROVE h.pc \in Table .. Handler + 27
    <2>1. ASSUME NEW x \in Vectors \cup {Handler, Handler + 24} PROVE x \in Table .. Handler + 27
      BY ModesAre DEF Vectors, Table, Handler
    <2> QED
      BY <1>3, <2>1 DEF AtEdge
  <1>4. ASSUME Booting(h, s) PROVE ViewOf(h, s) = <<Main, MainMode, MainEnabled>>
    BY <1>1, <1>4 DEF ViewOf, Booting
  <1>5. ASSUME InProgram(h, s) PROVE ViewOf(h, s) = <<h.pc, MainMode, MainEnabled>>
    <2>1. s = <<>> /\ h.prv = MainMode /\ h.ie[MachineMode] = MainEnabled
      BY <1>5 DEF InProgram
    <2>2. ViewOf(h, s) = <<h.pc, h.prv, h.ie[MachineMode]>>
      BY <1>2, <1>5, <2>1 DEF ViewOf
    <2> QED
      BY <2>1, <2>2
  <1>6. ASSUME AtEdge(h, s), s = <<>>
        PROVE  ViewOf(h, s) = <<h.epc[MachineMode], h.mpp, h.pie[MachineMode]>>
    BY <1>3, <1>6 DEF ViewOf
  <1> QED
    BY <1>4, <1>5, <1>6

\* A CSR instruction in machine mode retires.
LEMMA CsrRetires ==
  ASSUME hart.prv = MachineMode, NEW n, NEW v, CsrAccess(<<n, MachineMode>>, v)
  PROVE  /\ Retire(set_csr_value(Advance(hart, 4), <<n, MachineMode>>, v))
         /\ status = "Runnable" /\ status' = status /\ wfi_event' = wfi_event
  <1>1. ~ is_invalid_csr_access(hart, <<n, MachineMode>>)
    BY DEF is_invalid_csr_access, MachineMode
  <1> QED
    BY <1>1 DEF CsrAccess

\* What mstatus contains.
LEMMA MstatusIs ==
  ASSUME NEW h, Sound(h)
  PROVE  /\ mstatus(h) \in Status /\ mstatus(h).ie = h.ie /\ mstatus(h).pie = h.pie
         /\ mstatus(h).mpp = h.mpp
  BY DEF mstatus, Status, Sound, Hart

\* A step of the start-up code that retires in the start-up code or at the first
\* instruction of the main program.
LEMMA BootKeeps ==
  ASSUME Good(hart, stack), Booting(hart, stack), NEW h, Sound(h), h.mideleg = {}, h.medeleg = {},
         Booting(h, stack) \/ (InProgram(h, stack) /\ h.pc = Main), Retire(h)
  PROVE  Good(hart', stack) /\ ViewOf(hart', stack) = ViewOf(hart, stack)
  <1>1. Good(h, stack)
    BY DEF Good
  <1>2. ViewOf(h, stack) = ViewOf(hart, stack)
    BY Views
  <1> QED
    BY <1>1, <1>2, RetiredKeeps

\* The start-up code installs the handler and enters the main program.
LEMMA StartupKeeps ==
  ASSUME Good(hart, stack), Startup
  PROVE  /\ Good(hart', stack) /\ ViewOf(hart', stack) = ViewOf(hart, stack)
         /\ status' = "Runnable" /\ wfi_event' = wfi_event
  <1>1. hart.pc \in {Boot, Boot + 4, Boot + 8, Boot + 12, Boot + 16} /\ status = "Runnable"
    BY DEF Startup, Instr
  <1>2. Booting(hart, stack)
    BY <1>1, Whereabouts
  <1>3. /\ Sound(hart) /\ hart.prv = MachineMode /\ hart.mideleg = {} /\ hart.medeleg = {}
        /\ stack = <<>> /\ ~ hart.ie[MachineMode]
    BY <1>2 DEF Good, Booting
  <1> DEFINE a == Advance(hart, 4)
  <1>4. Sound(a) /\ SameButPc(hart, a) /\ a.pc = hart.pc + 4
    <2>1. hart.pc <= Main + 4
      BY <1>1 DEF Boot, Main
    <2> QED
      BY <1>3, <2>1, AdvanceIs
  <1> HIDE DEF a
  <1>5. a.prv = MachineMode /\ a.mideleg = {} /\ a.medeleg = {} /\ ~ a.ie[MachineMode]
    BY <1>3, <1>4 DEF SameButPc
  <1>6. ASSUME NEW b \in {0, 1}, Instr(Boot), CsrAccess(<<"tvec", MachineMode>>, Table + b)
        PROVE  /\ Good(hart', stack) /\ ViewOf(hart', stack) = ViewOf(hart, stack)
               /\ status' = "Runnable" /\ wfi_event' = wfi_event
    <2> DEFINE t == set_csr_value(a, <<"tvec", MachineMode>>, Table + b)
    <2>1. Sound(t) /\ SameBut(a, t) /\ SameStatus(a, t) /\ Ready(t)
      BY <1>4, WriteTvec
    <2>2. Retire(t) /\ status' = "Runnable" /\ wfi_event' = wfi_event
      BY <1>1, <1>3, <1>6, CsrRetires DEF a
    <2> HIDE DEF t
    <2>3. t.pc = Boot + 4
      BY <1>4, <1>6, <2>1 DEF Instr, SameBut
    <2>4. Booting(t, stack)
      BY <1>3, <1>5, <2>1, <2>3 DEF Booting, SameBut, SameStatus, Boot
    <2> QED
      BY <1>2, <1>5, <2>1, <2>2, <2>4, BootKeeps DEF SameBut
  <1>7. CASE Instr(Boot + 4) /\ CsrAccess(<<"ie", MachineMode>>, Irqs)
    <2> DEFINE t == set_csr_value(a, <<"ie", MachineMode>>, Irqs)
    <2>1. Sound(t) /\ SameBut(a, t) /\ SameStatus(a, t) /\ t.tvec = a.tvec /\ t.epc = a.epc
      BY <1>4, WriteIe
    <2>2. Retire(t) /\ status' = "Runnable" /\ wfi_event' = wfi_event
      BY <1>1, <1>3, <1>7, CsrRetires DEF a
    <2> HIDE DEF t
    <2>3. t.pc = Boot + 8 /\ Ready(t)
      BY <1>2, <1>4, <1>7, <2>1 DEF Instr, SameBut, SameButPc, Booting, Ready, Boot
    <2>4. Booting(t, stack)
      BY <1>3, <1>5, <2>1, <2>3 DEF Booting, SameBut, SameStatus, Boot
    <2> QED
      BY <1>2, <1>5, <2>1, <2>2, <2>4, BootKeeps DEF SameBut
  <1>8. CASE Instr(Boot + 8) /\ CsrAccess(<<"epc", MachineMode>>, Main)
    <2> DEFINE t == set_csr_value(a, <<"epc", MachineMode>>, Main)
    <2>0. Main \in Addr /\ Main % 2 = 0
      BY MainAssumption, AddrSpaceAssumption DEF Main, Addr
    <2>1. Sound(t) /\ SameBut(a, t) /\ SameStatus(a, t) /\ t.tvec = a.tvec /\ t.epc[MachineMode] = Main
      BY <1>4, <2>0, WriteEpc
    <2>2. Retire(t) /\ status' = "Runnable" /\ wfi_event' = wfi_event
      BY <1>1, <1>3, <1>8, CsrRetires DEF a
    <2> HIDE DEF t
    <2>3. t.pc = Boot + 12 /\ Ready(t)
      BY <1>2, <1>4, <1>8, <2>1 DEF Instr, SameBut, SameButPc, Booting, Ready, Boot
    <2>4. Booting(t, stack)
      BY <1>3, <1>5, <2>1, <2>3 DEF Booting, SameBut, SameStatus, Boot
    <2> QED
      BY <1>2, <1>5, <2>1, <2>2, <2>4, BootKeeps DEF SameBut
  <1>9. CASE /\ Instr(Boot + 12)
             /\ WriteMstatus([mstatus(hart) EXCEPT !.mpp = MainMode, !.pie[MachineMode] = MainEnabled])
    <2> DEFINE v == [mstatus(hart) EXCEPT !.mpp = MainMode, !.pie[MachineMode] = MainEnabled]
               t == set_csr_value(a, <<"status", MachineMode>>, v)
    <2>0. /\ v \in Status /\ v.ie = hart.ie /\ v.mpp = MainMode
          /\ v.pie[MachineMode] = MainEnabled
      <3>1. MachineMode \in Modes /\ MainMode \in 0 .. 3
        BY MainAssumption DEF Modes, SupervisorMode, MachineMode
      <3>2. mstatus(hart) \in Status /\ mstatus(hart).ie = hart.ie
        BY <1>3, MstatusIs
      <3>3. v = [mstatus(hart) EXCEPT !.mpp = MainMode, !.pie = [@ EXCEPT ![MachineMode] = MainEnabled]]
        BY <3>2 DEF Status
      <3>4. [mstatus(hart).pie EXCEPT ![MachineMode] = MainEnabled] \in [Modes -> BOOLEAN]
        BY <3>2, MainAssumption DEF Status
      <3> HIDE DEF v
      <3>5. /\ v \in Status /\ v.ie = mstatus(hart).ie /\ v.mpp = MainMode
            /\ v.pie = [mstatus(hart).pie EXCEPT ![MachineMode] = MainEnabled]
        BY <3>1, <3>2, <3>3, <3>4 DEF Status
      <3>6. v.pie[MachineMode] = MainEnabled
        BY <3>1, <3>2, <3>5 DEF Status
      <3> QED
        BY <3>2, <3>5, <3>6
    <2>1. /\ Sound(t) /\ SameBut(a, t) /\ t.tvec = a.tvec /\ t.epc = a.epc
          /\ t.ie[MachineMode] = v.ie[MachineMode]
          /\ t.pie[MachineMode] = v.pie[MachineMode] /\ t.mpp = v.mpp
      BY <1>4, <1>5, <2>0, WriteMstatusIs
    <2>2. Retire(t) /\ status' = "Runnable" /\ wfi_event' = wfi_event
      BY <1>1, <1>3, <1>9, CsrRetires DEF a, WriteMstatus
    <2> HIDE DEF t, v
    <2>3. t.pc = Boot + 16 /\ Ready(t) /\ t.epc[MachineMode] = Main
      BY <1>2, <1>4, <1>9, <2>1 DEF Instr, SameBut, SameButPc, Booting, Ready, Boot
    <2>4. t.prv = MachineMode /\ ~ t.ie[MachineMode] /\ t.mpp = MainMode /\ t.pie[MachineMode] = MainEnabled
      BY <1>3, <1>5, <2>0, <2>1 DEF SameBut
    <2>5. Booting(t, stack)
      BY <1>3, <2>3, <2>4 DEF Booting
    <2> QED
      BY <1>2, <1>5, <2>1, <2>2, <2>5, BootKeeps DEF SameBut
  <1>10. CASE Instr(Boot + 16) /\ MRET
    <2> DEFINE t == return_from_trap_handler(hart)
    <2>1. /\ Sound(t) /\ t.prv = hart.mpp /\ t.pc = hart.epc[MachineMode]
          /\ t.ie[MachineMode] = hart.pie[MachineMode] /\ t.tvec = hart.tvec
          /\ t.mideleg = hart.mideleg /\ t.medeleg = hart.medeleg
      BY <1>3, ReturnIs
    <2>2. Retire(t) /\ status' = "Runnable" /\ wfi_event' = wfi_event
      BY <1>10 DEF MRET
    <2> HIDE DEF t
    <2>3. /\ hart.mpp = MainMode /\ hart.pie[MachineMode] = MainEnabled
          /\ hart.epc[MachineMode] = Main /\ Ready(hart)
      BY <1>2, <1>10 DEF Booting, Instr, Boot
    <2>4. InProgram(t, stack) /\ t.pc = Main
      BY <1>3, <2>1, <2>3 DEF InProgram, Ready
    <2> QED
      BY <1>2, <1>3, <2>1, <2>2, <2>4, BootKeeps
  <1> QED
    BY <1>6, <1>7, <1>8, <1>9, <1>10 DEF Startup

\* The main program stays where it is or executes its next instruction.
Progress(v, w) == w = v \/ w = <<MainView!Successor(v[1]), v[2], v[3]>>

\* The order of its instructions.
LEMMA NextInstruction ==
  /\ MainView!Successor(Main) = Main + 4
  /\ MainView!Successor(Main + 4) = Main + 8
  /\ MainView!Successor(Main + 8) = Main
  BY DEF MainView!Successor, Main

\* The main program executes an instruction, waits, or traps.
LEMMA MainStepKeeps ==
  ASSUME Good(hart, stack), MainStep
  PROVE  /\ Good(hart', stack) /\ Progress(ViewOf(hart, stack), ViewOf(hart', stack))
         /\ status' = "Runnable" \/ (status' = "Waiting" /\ hart'.pc = Main + 8)
         /\ wfi_event' = wfi_event
  <1>1. hart.pc \in {Main, Main + 4, Main + 8} /\ status = "Runnable"
    BY DEF MainStep, Instr
  <1>2. InProgram(hart, stack) /\ Trappable(hart, stack)
    BY <1>1, Whereabouts DEF Trappable
  <1>3. /\ Sound(hart) /\ hart.mideleg = {} /\ hart.medeleg = {} /\ Frames(stack)
        /\ ViewOf(hart, stack) = <<hart.pc, MainMode, MainEnabled>>
    BY <1>2, Views DEF Good
  <1> DEFINE a == Advance(hart, 4)
  <1>4. ASSUME hart.pc \in {Main, Main + 4}
        PROVE  /\ Good(a, stack) /\ a.pc = hart.pc + 4
               /\ Progress(ViewOf(hart, stack), ViewOf(a, stack))
    <2>1. hart.pc <= Main + 4
      BY <1>4 DEF Main
    <2>2. Sound(a) /\ SameButPc(hart, a) /\ a.pc = hart.pc + 4
      BY <1>3, <2>1, AdvanceIs
    <2> HIDE DEF a
    <2>3. a.pc \in {Main, Main + 4, Main + 8} /\ a.pc = MainView!Successor(hart.pc)
      BY <1>4, <2>2, NextInstruction DEF Main
    <2>4. InProgram(a, stack)
      BY <1>2, <2>2, <2>3 DEF InProgram, SameButPc, Ready
    <2>5. ViewOf(a, stack) = <<a.pc, MainMode, MainEnabled>>
      BY <2>4, Views
    <2> QED
      BY <1>3, <2>2, <2>3, <2>4, <2>5 DEF Good, SameButPc, Progress
  <1> HIDE DEF a
  <1>5. CASE Instr(Main) /\ Plain(4)
    <2>1. Retire(a) /\ status' = "Runnable" /\ wfi_event' = wfi_event /\ hart.pc = Main
      BY <1>1, <1>5 DEF Plain, Instr, a
    <2> QED
      BY <1>4, <2>1, RetiredKeeps
  <1>6. ASSUME Instr(Main), NEW exc \in Excs, Fault(exc)
        PROVE  /\ Good(hart', stack) /\ ViewOf(hart', stack) = ViewOf(hart, stack)
               /\ status' = "Runnable" /\ wfi_event' = wfi_event
    BY <1>1, <1>2, <1>6, ExceptionKeeps, ExcsAssumption DEF Fault
  <1>7. CASE Instr(Main + 4) /\ WFI
    <2>0. wfi_event' = wfi_event /\ hart.pc = Main + 4
      BY <1>7 DEF WFI, Instr
    <2>1. CASE WfiIsIllegal(hart)
      <3>1. Raise(EXC_ILLEGAL_INSTR) /\ EXC_ILLEGAL_INSTR \in 0 .. 15
        BY <1>7, <2>1 DEF WFI, EXC_ILLEGAL_INSTR
      <3>2. Good(hart', stack) /\ ViewOf(hart', stack) = ViewOf(hart, stack) /\ status' = status
        BY <1>2, <3>1, ExceptionKeeps
      <3> QED
        BY <1>1, <2>0, <3>2 DEF Progress
    <2>2. CASE ~ WfiIsIllegal(hart) /\ has_local_pending_enabled_interrupts(hart)
      <3>1. Retire(a) /\ status' = "Runnable"
        BY <1>1, <1>7, <2>2 DEF WFI, a
      <3> QED
        BY <1>4, <2>0, <3>1, RetiredKeeps
    <2>3. CASE ~ WfiIsIllegal(hart) /\ ~ has_local_pending_enabled_interrupts(hart)
      <3>1. hart' = a /\ status' = "Waiting"
        BY <1>7, <2>3 DEF WFI, a
      <3>2. Good(a, stack) /\ a.pc = Main + 8 /\ Progress(ViewOf(hart, stack), ViewOf(a, stack))
        BY <1>4, <2>0 DEF Main
      <3> QED
        BY <2>0, <3>1, <3>2
    <2> QED
      BY <2>1, <2>2, <2>3
  <1>8. CASE Instr(Main + 8) /\ Jump(Main)
    <2> DEFINE t == [hart EXCEPT !.pc = PcAligned(Main)]
    <2>0. Main \in Addr /\ PcAligned(Main) = Main /\ hart \in Hart
      BY <1>3, MainAssumption, AddrSpaceAssumption DEF PcAligned, Main, Addr, Sound
    <2>1. Sound(t) /\ SameButPc(hart, t) /\ t.pc = Main
      <3>1. Sound(t)
        BY <1>3, <2>0, JumpSound
      <3>2. SameButPc(hart, t) /\ t.pc = Main
        BY <2>0 DEF SameButPc, Hart
      <3> QED
        BY <3>1, <3>2
    <2>2. Retire(t) /\ status' = "Runnable" /\ wfi_event' = wfi_event
      BY <1>1, <1>8 DEF Jump
    <2> HIDE DEF t
    <2>3. InProgram(t, stack)
      BY <1>2, <2>1 DEF InProgram, SameButPc, Ready
    <2>4. ViewOf(t, stack) = <<Main, MainMode, MainEnabled>> /\ hart.pc = Main + 8
      BY <1>8, <2>1, <2>3, Views DEF Instr
    <2>5. Good(t, stack) /\ Progress(ViewOf(hart, stack), ViewOf(t, stack))
      BY <1>3, <2>1, <2>3, <2>4, NextInstruction DEF Good, SameButPc, Progress
    <2> QED
      BY <2>2, <2>5, RetiredKeeps
  <1> QED
    BY <1>5, <1>6, <1>7, <1>8 DEF MainStep, Progress

\* The main program's context is the outermost one on the stack.
LEMMA ViewInHandler ==
  ASSUME NEW h, NEW t, NEW s, s # <<>>
  PROVE  ViewOf(h, s) = ViewOf(t, s)
  BY DEF ViewOf

\* A vector jumps to the handler.
LEMMA EntryKeeps ==
  ASSUME Good(hart, stack), Entry
  PROVE  /\ Good(hart', stack) /\ ViewOf(hart', stack) = ViewOf(hart, stack)
         /\ status' = "Runnable" /\ wfi_event' = wfi_event
  <1>1. hart.pc \in Vectors /\ Jump(Handler)
    BY DEF Entry, Instr, Vectors
  <1>2. AtEdge(hart, stack) /\ Sound(hart)
    BY <1>1, Whereabouts DEF Good
  <1> DEFINE t == [hart EXCEPT !.pc = PcAligned(Handler)]
  <1>3. Handler \in Addr /\ PcAligned(Handler) = Handler /\ hart \in Hart
    BY <1>2, MainAssumption, AddrSpaceAssumption DEF PcAligned, Handler, Main, Addr, Sound
  <1>4. Sound(t)
    BY <1>2, <1>3, JumpSound
  <1>5. SameButPc(hart, t) /\ t.pc = Handler
    BY <1>3 DEF SameButPc, Hart
  <1>6. Retire(t) /\ status' = "Runnable" /\ wfi_event' = wfi_event
    BY <1>1 DEF Jump
  <1> HIDE DEF t
  <1>7. AtEdge(t, stack)
    BY <1>2, <1>5 DEF AtEdge, SameButPc, Ready
  <1>8. Good(t, stack)
    BY <1>4, <1>5, <1>7 DEF Good, SameButPc
  <1>9. ViewOf(t, stack) = ViewOf(hart, stack)
    <2>1. CASE stack = <<>>
      BY <1>2, <1>5, <1>7, <2>1, Views DEF SameButPc
    <2>2. CASE stack # <<>>
      BY <2>2, ViewInHandler
    <2> QED
      BY <2>1, <2>2
  <1> QED
    BY <1>6, <1>8, <1>9, RetiredKeeps

\* The handler saves the context: from now on the stack holds it.
LEMMA SaveKeeps ==
  ASSUME Good(hart, stack), Save
  PROVE  \E s : /\ s = stack' /\ Good(hart', s) /\ ViewOf(hart', s) = ViewOf(hart, stack)
               /\ status' = "Runnable" /\ wfi_event' = wfi_event
  <1> DEFINE f == [epc |-> hart.epc[MachineMode], mstatus |-> mstatus(hart)]
             s == <<f>> \o stack
             a == Advance(hart, 4)
  <1>1. /\ hart.pc = Handler /\ Retire(a) /\ stack' = s
        /\ status' = "Runnable" /\ wfi_event' = wfi_event
    BY DEF Save, Instr, Plain
  <1>2. AtEdge(hart, stack) /\ Sound(hart) /\ Frames(stack)
    BY <1>1, Whereabouts DEF Good
  <1>3. f \in [epc : Addr, mstatus : Status] /\ f.epc = hart.epc[MachineMode] /\ f.mstatus = mstatus(hart)
    <2>1. hart.epc[MachineMode] \in Addr
      BY <1>2 DEF Sound, Hart, Modes
    <2>2. mstatus(hart) \in Status
      BY <1>2, MstatusIs
    <2> QED
      BY <2>1, <2>2
  <1> HIDE DEF f
  <1>4. Frame(f, stack = <<>>)
    <2>1. f.mstatus.ie = hart.ie /\ f.mstatus.pie = hart.pie /\ f.mstatus.mpp = hart.mpp
      BY <1>2, <1>3, MstatusIs
    <2>2. /\ ~ hart.ie[MachineMode]
          /\ Interrupted(hart.epc[MachineMode], hart.mpp, hart.pie[MachineMode], stack = <<>>)
      BY <1>2 DEF AtEdge
    <2> QED
      BY <1>3, <2>1, <2>2 DEF Frame
  <1>5. /\ Frames(s) /\ s # <<>>
        /\ s[Len(s)] = IF stack = <<>> THEN f ELSE stack[Len(stack)]
    BY <1>2, <1>3, <1>4, FramePushed
  <1>6. Sound(a) /\ SameButPc(hart, a) /\ a.pc = Handler + 4
    <2>1. hart.pc <= Main + 4
      BY <1>1 DEF Handler, Main
    <2> QED
      BY <1>1, <1>2, <2>1, AdvanceIs
  <1> HIDE DEF s, a
  <1>7. AtWork(a, s)
    BY <1>2, <1>5, <1>6 DEF AtWork, AtEdge, SameButPc, Ready, Handler
  <1>8. Good(a, s)
    BY <1>5, <1>6, <1>7 DEF Good, SameButPc
  <1>9. ViewOf(a, s) = ViewOf(hart, stack)
    <2>1. ViewOf(a, s) = <<s[Len(s)].epc, s[Len(s)].mstatus.mpp, s[Len(s)].mstatus.pie[MachineMode]>>
      BY <1>5 DEF ViewOf
    <2>2. CASE stack = <<>>
      <3>1. ViewOf(hart, stack) = <<hart.epc[MachineMode], hart.mpp, hart.pie[MachineMode]>>
        BY <1>2, <2>2, Views
      <3>2. f.mstatus.pie = hart.pie /\ f.mstatus.mpp = hart.mpp
        BY <1>2, <1>3, MstatusIs
      <3>3. s[Len(s)] = f
        BY <1>5, <2>2
      <3> QED
        BY <1>3, <2>1, <3>1, <3>2, <3>3
    <2>3. CASE stack # <<>>
      BY <1>5, <2>1, <2>3 DEF ViewOf
    <2> QED
      BY <2>2, <2>3
  <1>10. Good(hart', s) /\ ViewOf(hart', s) = ViewOf(a, s)
    BY <1>1, <1>8, RetiredKeeps
  <1> QED
    BY <1>1, <1>9, <1>10

\* An instruction of the handler that writes mstatus.
LEMMA MstatusKeeps ==
  ASSUME Good(hart, stack), AtWork(hart, stack), hart.pc \in {Handler + 4, Handler + 12, Handler + 16},
         NEW v \in Status, hart.pc # Handler + 4 => ~ v.ie[MachineMode],
         hart.pc = Handler + 16 => v = Head(stack).mstatus, WriteMstatus(v)
  PROVE  /\ Good(hart', stack) /\ ViewOf(hart', stack) = ViewOf(hart, stack)
         /\ status' = "Runnable" /\ wfi_event' = wfi_event
  <1> DEFINE a == Advance(hart, 4)
             t == set_csr_value(a, <<"status", MachineMode>>, v)
  <1>1. Sound(hart) /\ hart.prv = MachineMode /\ stack # <<>> /\ Ready(hart)
    BY DEF Good, AtWork
  <1>2. Sound(a) /\ SameButPc(hart, a) /\ a.pc = hart.pc + 4
    <2>1. hart.pc <= Main + 4
      BY DEF Handler, Main
    <2> QED
      BY <1>1, <2>1, AdvanceIs
  <1>3. Retire(t) /\ status' = "Runnable" /\ wfi_event' = wfi_event
    BY <1>1, CsrRetires DEF WriteMstatus
  <1> HIDE DEF a
  <1>4. a.prv = MachineMode
    BY <1>1, <1>2 DEF SameButPc
  <1>5. /\ Sound(t) /\ SameBut(a, t) /\ t.tvec = a.tvec /\ t.epc = a.epc
        /\ t.ie[MachineMode] = v.ie[MachineMode]
        /\ t.pie[MachineMode] = v.pie[MachineMode] /\ t.mpp = v.mpp
    BY <1>2, <1>4, WriteMstatusIs
  <1> HIDE DEF t
  <1>6. /\ t.pc \in {Handler + 8, Handler + 16, Handler + 20} /\ t.pc = hart.pc + 4
        /\ t.pc # Handler + 8 => ~ t.ie[MachineMode]
        /\ t.pc = Handler + 20 => hart.pc = Handler + 16
    BY <1>2, <1>5 DEF SameBut, Handler
  <1>7. t.prv = MachineMode /\ Ready(t)
    BY <1>1, <1>2, <1>4, <1>5 DEF SameBut, SameButPc, Ready
  <1>8. t.pc = Handler + 20 => /\ t.mpp = Head(stack).mstatus.mpp
                               /\ t.pie[MachineMode] = Head(stack).mstatus.pie[MachineMode]
    BY <1>5, <1>6
  <1>9. AtWork(t, stack)
    BY <1>1, <1>6, <1>7, <1>8 DEF AtWork
  <1>10. Good(t, stack)
    BY <1>2, <1>5, <1>9 DEF Good, SameBut, SameButPc
  <1>11. ViewOf(t, stack) = ViewOf(hart, stack)
    BY <1>1, ViewInHandler
  <1> QED
    BY <1>3, <1>10, <1>11, RetiredKeeps

\* mstatus with another interrupt enable.
LEMMA MieIs ==
  ASSUME NEW h, Sound(h), NEW b \in BOOLEAN
  PROVE  LET v == [mstatus(h) EXCEPT !.ie[MachineMode] = b]
         IN  v \in Status /\ v.ie[MachineMode] = b
  <1> DEFINE m == mstatus(h)
             v == [m EXCEPT !.ie[MachineMode] = b]
  <1>1. m \in Status /\ MachineMode \in Modes
    BY MstatusIs DEF Modes
  <1> HIDE DEF m
  <1>2. v = [m EXCEPT !.ie = [@ EXCEPT ![MachineMode] = b]]
    BY <1>1 DEF Status
  <1>3. [m.ie EXCEPT ![MachineMode] = b] \in [Modes -> BOOLEAN]
    BY <1>1 DEF Status
  <1> HIDE DEF v
  <1>4. v \in Status /\ v.ie = [m.ie EXCEPT ![MachineMode] = b]
    BY <1>1, <1>2, <1>3 DEF Status
  <1>5. v.ie[MachineMode] = b
    BY <1>1, <1>4 DEF Status
  <1> QED
    BY <1>4, <1>5 DEF v, m

\* The handler enables interrupts, works, faults, and disables interrupts.
LEMMA WorkKeeps ==
  ASSUME Good(hart, stack), Work
  PROVE  /\ Good(hart', stack) /\ ViewOf(hart', stack) = ViewOf(hart, stack)
         /\ status' = "Runnable" /\ wfi_event' = wfi_event
  <1>1. hart.pc \in {Handler + 4, Handler + 8, Handler + 12} /\ status = "Runnable"
    BY DEF Work, Instr
  <1>2. AtWork(hart, stack) /\ Sound(hart) /\ stack # <<>>
    BY <1>1, Whereabouts DEF Good, AtWork
  <1>3. CASE Instr(Handler + 4) /\ SetMie(Len(stack) < MaxDepth)
    <2> DEFINE b == Len(stack) < MaxDepth
               v == [mstatus(hart) EXCEPT !.ie[MachineMode] = b]
    <2>0. b \in BOOLEAN
      OBVIOUS
    <2> HIDE DEF b
    <2>1. v \in Status
      BY <1>2, <2>0, MieIs
    <2>2. WriteMstatus(v) /\ hart.pc = Handler + 4
      BY <1>3 DEF SetMie, Instr, b
    <2> HIDE DEF v
    <2>3. hart.pc # Handler + 16
      BY <2>2 DEF Handler
    <2> QED
      BY <1>2, <2>1, <2>2, <2>3, MstatusKeeps
  <1>4. CASE Instr(Handler + 8) /\ Plain(4)
    <2> DEFINE a == Advance(hart, 4)
    <2>1. hart.pc = Handler + 8 /\ hart.pc <= Main + 4
      BY <1>4 DEF Instr, Handler, Main
    <2>2. Sound(a) /\ SameButPc(hart, a) /\ a.pc = hart.pc + 4
      BY <1>2, <2>1, AdvanceIs
    <2>3. Retire(a) /\ status' = "Runnable" /\ wfi_event' = wfi_event
      BY <1>1, <1>4 DEF Plain
    <2> HIDE DEF a
    <2>4. a.pc = Handler + 12 /\ a.pc # Handler + 20
      BY <2>1, <2>2 DEF Handler
    <2>5. AtWork(a, stack)
      BY <1>2, <2>2, <2>4 DEF AtWork, SameButPc, Ready
    <2>6. Good(a, stack) /\ ViewOf(a, stack) = ViewOf(hart, stack)
      BY <1>2, <2>2, <2>5, ViewInHandler DEF Good, SameButPc
    <2> QED
      BY <2>3, <2>6, RetiredKeeps
  <1>5. ASSUME Instr(Handler + 8), NEW exc \in Excs, Fault(exc)
        PROVE  /\ Good(hart', stack) /\ ViewOf(hart', stack) = ViewOf(hart, stack)
               /\ status' = "Runnable" /\ wfi_event' = wfi_event
    <2>1. Trappable(hart, stack) /\ Raise(exc) /\ exc \in 0 .. 15 /\ wfi_event' = wfi_event
      BY <1>2, <1>5, ExcsAssumption DEF Trappable, Instr, Fault
    <2> QED
      BY <1>1, <2>1, ExceptionKeeps
  <1>6. CASE Instr(Handler + 12) /\ SetMie(FALSE)
    <2> DEFINE v == [mstatus(hart) EXCEPT !.ie[MachineMode] = FALSE]
    <2>1. v \in Status /\ ~ v.ie[MachineMode]
      BY <1>2, MieIs
    <2>2. WriteMstatus(v) /\ hart.pc = Handler + 12
      BY <1>6 DEF SetMie, Instr
    <2> HIDE DEF v
    <2>3. hart.pc # Handler + 16
      BY <2>2 DEF Handler
    <2> QED
      BY <1>2, <2>1, <2>2, <2>3, MstatusKeeps
  <1> QED
    BY <1>3, <1>4, <1>5, <1>6 DEF Work

\* The handler restores mstatus and mepc, and returns.
LEMMA RestoreKeeps ==
  ASSUME Good(hart, stack), Restore
  PROVE  \E s : /\ s = stack' /\ Good(hart', s) /\ ViewOf(hart', s) = ViewOf(hart, stack)
               /\ status' = "Runnable" /\ wfi_event' = wfi_event
  <1>0. Sound(hart) /\ Frames(stack) /\ hart.mideleg = {} /\ hart.medeleg = {}
    BY DEF Good
  <1>1. CASE Instr(Handler + 16) /\ WriteMstatus(Head(stack).mstatus) /\ Same
    <2>1. hart.pc = Handler + 16 /\ stack' = stack
      BY <1>1 DEF Instr, Same
    <2>2. AtWork(hart, stack) /\ stack # <<>>
      BY <2>1, Whereabouts DEF AtWork
    <2>3. Head(stack).mstatus \in Status /\ ~ Head(stack).mstatus.ie[MachineMode]
      BY <1>0, <2>2, FramePopped DEF Frame
    <2>4. /\ Good(hart', stack) /\ ViewOf(hart', stack) = ViewOf(hart, stack)
          /\ status' = "Runnable" /\ wfi_event' = wfi_event
      BY <1>1, <2>1, <2>2, <2>3, MstatusKeeps
    <2> QED
      BY <2>1, <2>4
  <1>2. CASE /\ Instr(Handler + 20)
             /\ CsrAccess(<<"epc", MachineMode>>, Head(stack).epc)
             /\ stack' = Tail(stack)
    <2> DEFINE f == Head(stack)
               s == Tail(stack)
               a == Advance(hart, 4)
               t == set_csr_value(a, <<"epc", MachineMode>>, f.epc)
    <2>1. hart.pc = Handler + 20 /\ hart.pc <= Main + 4
      BY <1>2 DEF Instr, Handler, Main
    <2>2. AtWork(hart, stack) /\ stack # <<>> /\ hart.prv = MachineMode /\ Ready(hart)
      BY <2>1, Whereabouts DEF AtWork
    <2>3. /\ f \in [epc : Addr, mstatus : Status] /\ Frame(f, s = <<>>) /\ Frames(s)
          /\ stack[Len(stack)] = IF s = <<>> THEN f ELSE s[Len(s)]
      BY <1>0, <2>2, FramePopped
    <2>4. Retire(t) /\ status' = "Runnable" /\ wfi_event' = wfi_event /\ stack' = s
      BY <1>2, <2>2, CsrRetires
    <2>5. Sound(a) /\ SameButPc(hart, a) /\ a.pc = Handler + 24
      <3>1. Sound(a) /\ SameButPc(hart, a) /\ a.pc = hart.pc + 4
        BY <1>0, <2>1, AdvanceIs
      <3> HIDE DEF a
      <3> QED
        BY <2>1, <3>1 DEF Handler
    <2>6. hart.mpp = f.mstatus.mpp /\ hart.pie[MachineMode] = f.mstatus.pie[MachineMode]
          /\ ~ hart.ie[MachineMode]
      BY <2>1, <2>2 DEF AtWork, Handler
    <2> HIDE DEF a, f, s
    <2>7. f.epc \in Addr /\ f.epc % 2 = 0
      BY <2>3 DEF Frame, Interrupted, Main, Handler
    <2>8. Sound(t) /\ SameBut(a, t) /\ SameStatus(a, t) /\ t.tvec = a.tvec /\ t.epc[MachineMode] = f.epc
      BY <2>5, <2>7, WriteEpc
    <2> HIDE DEF t
    <2>9. /\ t.pc = Handler + 24 /\ t.prv = MachineMode /\ Ready(t) /\ ~ t.ie[MachineMode]
          /\ t.mpp = f.mstatus.mpp /\ t.pie[MachineMode] = f.mstatus.pie[MachineMode]
          /\ t.mideleg = {} /\ t.medeleg = {}
      BY <1>0, <2>2, <2>5, <2>6, <2>8 DEF SameBut, SameStatus, SameButPc, Ready
    <2>10. AtEdge(t, s)
      BY <2>3, <2>8, <2>9 DEF AtEdge, Frame
    <2>11. Good(t, s)
      BY <2>3, <2>8, <2>9, <2>10 DEF Good
    <2>12. ViewOf(t, s) = ViewOf(hart, stack)
      <3>1. ViewOf(hart, stack) = <<stack[Len(stack)].epc, stack[Len(stack)].mstatus.mpp,
                                    stack[Len(stack)].mstatus.pie[MachineMode]>>
        BY <2>2 DEF ViewOf
      <3>2. CASE s = <<>>
        <4>1. ViewOf(t, s) = <<t.epc[MachineMode], t.mpp, t.pie[MachineMode]>>
          BY <2>10, <3>2, Views
        <4>2. stack[Len(stack)] = f
          BY <2>3, <3>2
        <4> QED
          BY <2>8, <2>9, <3>1, <4>1, <4>2
      <3>3. CASE s # <<>>
        BY <2>3, <3>1, <3>3 DEF ViewOf
      <3> QED
        BY <3>2, <3>3
    <2>13. Good(hart', s) /\ ViewOf(hart', s) = ViewOf(t, s)
      BY <2>4, <2>11, RetiredKeeps
    <2> QED
      BY <2>4, <2>12, <2>13
  <1>3. CASE Instr(Handler + 24) /\ MRET /\ Same
    <2> DEFINE t == return_from_trap_handler(hart)
    <2>1. /\ hart.pc = Handler + 24 /\ stack' = stack /\ Retire(t)
          /\ status' = "Runnable" /\ wfi_event' = wfi_event
      BY <1>3 DEF Instr, Same, MRET
    <2>2. AtEdge(hart, stack)
      BY <2>1, Whereabouts
    <2>3. /\ Sound(t) /\ t.prv = hart.mpp /\ t.pc = hart.epc[MachineMode]
          /\ t.ie[MachineMode] = hart.pie[MachineMode] /\ t.tvec = hart.tvec
          /\ t.mideleg = hart.mideleg /\ t.medeleg = hart.medeleg
      BY <1>0, ReturnIs
    <2> HIDE DEF t
    <2>4. CASE stack = <<>>
      <3>1. InProgram(t, stack)
        BY <2>2, <2>3, <2>4 DEF AtEdge, Interrupted, InProgram, Ready
      <3>2. ViewOf(t, stack) = ViewOf(hart, stack)
        <4>1. hart.mpp = MainMode /\ hart.pie[MachineMode] = MainEnabled
          BY <2>2, <2>4 DEF AtEdge, Interrupted
        <4>2. ViewOf(t, stack) = <<t.pc, MainMode, MainEnabled>>
          BY <3>1, Views
        <4>3. ViewOf(hart, stack) = <<hart.epc[MachineMode], hart.mpp, hart.pie[MachineMode]>>
          BY <2>2, <2>4, Views
        <4> QED
          BY <2>3, <4>1, <4>2, <4>3
      <3>3. Good(t, stack)
        BY <1>0, <2>3, <3>1 DEF Good
      <3> QED
        BY <2>1, <3>2, <3>3, RetiredKeeps
    <2>5. CASE stack # <<>>
      <3>1. t.pc \in {Handler + 8, Handler + 12} /\ t.prv = MachineMode /\ Ready(t)
        BY <2>2, <2>3, <2>5 DEF AtEdge, Interrupted, Ready
      <3>2. t.pc # Handler + 20
        BY <3>1 DEF Handler
      <3>3. AtWork(t, stack)
        BY <2>5, <3>1, <3>2 DEF AtWork
      <3>4. Good(t, stack) /\ ViewOf(t, stack) = ViewOf(hart, stack)
        BY <1>0, <2>3, <2>5, <3>3, ViewInHandler DEF Good
      <3> QED
        BY <2>1, <3>4, RetiredKeeps
    <2> QED
      BY <2>4, <2>5
  <1> QED
    BY <1>1, <1>2, <1>3 DEF Restore

\* The machine's steps.
LEMMA NestStep ==
  ASSUME NestInv, [NestNext]_nestVars
  PROVE  NestInv' /\ Progress(ViewOf(hart, stack), ViewOf(hart', stack'))
  <1>0. Good(hart, stack) /\ wfi_event \in BOOLEAN
    BY DEF NestInv
  <1>1. CASE (Startup \/ MainStep \/ Entry \/ Work) /\ Same
    <2>1. /\ Good(hart', stack) /\ Progress(ViewOf(hart, stack), ViewOf(hart', stack))
          /\ status' = "Runnable" \/ (status' = "Waiting" /\ hart'.pc = Main + 8)
          /\ wfi_event' = wfi_event
      BY <1>0, <1>1, StartupKeeps, MainStepKeeps, EntryKeeps, WorkKeeps DEF Progress
    <2>2. stack' = stack
      BY <1>1 DEF Same
    <2> QED
      BY <1>0, <2>1, <2>2 DEF NestInv
  <1>2. CASE Save \/ Restore
    <2>1. PICK s : /\ s = stack' /\ Good(hart', s) /\ ViewOf(hart', s) = ViewOf(hart, stack)
                   /\ status' = "Runnable" /\ wfi_event' = wfi_event
      BY <1>0, <1>2, SaveKeeps, RestoreKeeps
    <2> QED
      BY <1>0, <2>1 DEF NestInv, Progress
  <1>3. CASE Lines /\ Same
    <2>1. IInv
      BY DEF NestInv, IInv, Good, Statuses
    <2>2. PICK P \in SUBSET AllIrqs : hart' = [hart EXCEPT !.mip = P]
      BY <1>3, <2>1, LineStep
    <2>3. status' = status /\ wfi_event' \in BOOLEAN /\ stack' = stack
      BY <1>3, <2>1, LineStep DEF Same
    <2> DEFINE t == [hart EXCEPT !.mip = P]
    <2>4. t \in Hart /\ SameButPc(hart, t) /\ t.pc = hart.pc
      BY <1>0 DEF Good, Sound, Hart, SameButPc
    <2> HIDE DEF t
    <2>5. Good(t, stack)
      BY <1>0, <2>4 DEF Good, Sound, SameButPc, Booting, InProgram, AtEdge, AtWork, Ready
    <2>6. ViewOf(t, stack) = ViewOf(hart, stack)
      BY <2>4 DEF ViewOf, SameButPc
    <2>7. hart' = t
      BY <2>2 DEF t
    <2> QED
      BY <2>3, <2>4, <2>5, <2>6, <2>7 DEF NestInv, Progress
  <1>4. CASE DeltaCycle /\ Same
    <2>1. stack' = stack /\ wfi_event' = FALSE
      BY <1>4 DEF DeltaCycle, Same
    <2>2. CASE status = "Waiting"
      <3>1. Retire(hart) /\ status' = "Runnable"
        BY <1>4, <2>2 DEF DeltaCycle
      <3>2. Good(hart', stack) /\ ViewOf(hart', stack) = ViewOf(hart, stack)
        BY <1>0, <3>1, RetiredKeeps
      <3> QED
        BY <2>1, <3>1, <3>2 DEF NestInv, Progress
    <2>3. CASE status # "Waiting"
      <3>1. hart' = hart /\ status' = status
        BY <1>4, <2>3 DEF DeltaCycle
      <3> QED
        BY <2>1, <3>1 DEF NestInv, Progress
    <2> QED
      BY <2>2, <2>3
  <1>5. CASE UNCHANGED nestVars
    BY <1>5 DEF nestVars, vars, NestInv, Progress
  <1> QED
    BY <1>1, <1>2, <1>3, <1>4, <1>5 DEF NestNext, HartStep

\* The machine starts with the start-up code.
LEMMA NestStart == NestInit => NestInv /\ Booting(hart, stack)
  <1> SUFFICES ASSUME NestInit PROVE NestInv /\ Booting(hart, stack)
    OBVIOUS
  <1>1. Sound(hart)
    BY InitInv DEF NestInit, IInv
  <1>2. /\ hart.pc = 0 /\ hart.prv = MachineMode /\ ~ hart.ie[MachineMode]
        /\ hart.mideleg = {} /\ hart.medeleg = {} /\ stack = <<>>
        /\ status = "Runnable" /\ wfi_event = FALSE
    BY DEF NestInit, Init, Modes
  <1>3. Booting(hart, stack)
    BY <1>2 DEF Booting, Boot
  <1>4. Frames(stack)
    BY <1>2 DEF Frames
  <1> QED
    BY <1>1, <1>2, <1>3, <1>4 DEF NestInv, Good

\* Traps and interrupts are transparent to the main program, however deep the
\* handler's calls nest, whichever interrupts and exceptions there are, and for a
\* main program of either mode that has interrupts enabled or not.
THEOREM Transparency == NestSpec => TrapsAreTransparent
  <1>1. NestInit => MainView!Init
    <2> SUFFICES ASSUME NestInit PROVE MainView!Init
      OBVIOUS
    <2>1. <<MainAt, MainPrv, MainIe>> = <<Main, MainMode, MainEnabled>>
      BY NestStart, Views, ViewIs
    <2> QED
      BY <2>1 DEF MainView!Init
  <1>2. NestInv /\ [NestNext]_nestVars => [MainView!Execute]_<<MainAt, MainPrv, MainIe>>
    <2> SUFFICES ASSUME NestInv, [NestNext]_nestVars
                 PROVE  [MainView!Execute]_<<MainAt, MainPrv, MainIe>>
      OBVIOUS
    <2>1. <<MainAt, MainPrv, MainIe>> = ViewOf(hart, stack)
      BY ViewIs
    <2>2. (<<MainAt, MainPrv, MainIe>> = ViewOf(hart, stack))'
      BY ViewIs, PTL
    <2>3. Progress(ViewOf(hart, stack), ViewOf(hart', stack'))
      BY NestStep
    <2>4. Progress(<<MainAt, MainPrv, MainIe>>, <<MainAt, MainPrv, MainIe>>')
      BY <2>1, <2>2, <2>3
    <2> QED
      BY <2>4 DEF Progress, MainView!Execute
  <1>3. NestInit => NestInv
    BY NestStart
  <1>4. NestInv /\ [NestNext]_nestVars => NestInv'
    BY NestStep
  <1> QED
    BY <1>1, <1>2, <1>3, <1>4, PTL DEF NestSpec, TrapsAreTransparent, MainView!Spec
=============================================================================
