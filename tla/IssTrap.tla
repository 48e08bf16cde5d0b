------------------------------ MODULE IssTrap ------------------------------
(***************************************************************************)
(* The privileged side of one hart of the instruction set simulator        *)
(* (core/rv32/iss.cpp): privilege modes, synchronous traps, interrupts     *)
(* and their delegation, the CSRs these depend on, MRET, and WFI with the  *)
(* event that ends it.  Every action of the hart is one call of            *)
(* ISS::run_step: the instruction, then either the interrupt check or, if  *)
(* the instruction trapped, the trap.                                      *)
(*                                                                         *)
(* The hart is a record, and the member functions of the ISS that update   *)
(* it are operators from records to records, composed as in the code.      *)
(* An interrupt or exception is its code; a CSR that is a set of flags is  *)
(* the set of their codes.  What an instruction computes is left out: it   *)
(* retires, jumps, faults, or does one of the things modelled here.        *)
(***************************************************************************)
EXTENDS Integers, FiniteSetsExt

CONSTANTS
  AddrSpace,   \* bytes of the address space, 2^32 in the code
  Irqs,        \* the interrupts that occur
  Excs,        \* the exceptions that instructions raise
  Csrs,        \* the CSRs that the software writes, as <<name, mode>>
  StatusValues \* what the software writes to mstatus, sstatus and ustatus

UserMode == 0
SupervisorMode == 1
HypervisorMode == 2
MachineMode == 3

\* The modes that have a trap handler.
Modes == {UserMode, SupervisorMode, MachineMode}

Addr == 0 .. AddrSpace - 1

\* The interrupt codes: software is mode, timer 4 + mode, external 8 + mode.
Software(mode) == mode
Timer(mode) == 4 + mode
External(mode) == 8 + mode

AllIrqs == {Software(m) : m \in Modes} \cup {Timer(m) : m \in Modes}
             \cup {External(m) : m \in Modes}

EXC_ILLEGAL_INSTR == 2
EXC_ECALL(prv) == 8 + prv
ECalls == {EXC_ECALL(m) : m \in Modes}

\* The flags that each mode can access through its view of a shared CSR.
IE_MASK(mode) == {i \in AllIrqs : i % 4 <= mode}

\* Pending flags are written by software only where no device drives them.
IP_MASK(mode) ==
  CASE mode = MachineMode    -> IE_MASK(SupervisorMode)
    [] mode = SupervisorMode -> {Software(UserMode), Software(SupervisorMode)}
    [] mode = UserMode       -> {Software(UserMode)}

MEDELEG_MASK == 0 .. 15 \ {10, 14}
SEDELEG_MASK == 0 .. 15 \ {9, 10, 11, 14}

CsrNames ==
  {"status", "ie", "ip", "tvec", "epc"} \X Modes
    \cup {"ideleg", "edeleg"} \X {MachineMode, SupervisorMode}

ASSUME AddrSpaceAssumption == AddrSpace \in Nat \ {0} /\ AddrSpace % 4 = 0
ASSUME IrqsAssumption == Irqs \subseteq AllIrqs
ASSUME ExcsAssumption == Excs \subseteq 0 .. 15
ASSUME CsrsAssumption == Csrs \subseteq CsrNames
ASSUME StatusAssumption ==
  StatusValues \subseteq [ie : [Modes -> BOOLEAN], pie : [Modes -> BOOLEAN],
                          mpp : 0 .. 3, spp : 0 .. 1, tw : BOOLEAN]

VARIABLES
  hart,        \* the privileged state
  status,      \* what the thread that runs the hart is doing
  wfi_event    \* a notification of wfi_event is due in the next delta cycle

vars == <<hart, status, wfi_event>>

\* A trap vector: the base address and whether it is vectored.
TrapVector == [base : {a \in Addr : a % 4 = 0}, vectored : BOOLEAN]

Hart ==
  [prv : 0 .. 3, pc : Addr,
   ie : [Modes -> BOOLEAN], pie : [Modes -> BOOLEAN],
   mpp : 0 .. 3, spp : 0 .. 1, tw : BOOLEAN,
   mie : SUBSET AllIrqs, mip : SUBSET AllIrqs,
   mideleg : SUBSET AllIrqs, sideleg : SUBSET AllIrqs,
   medeleg : SUBSET (0 .. 15), sedeleg : SUBSET (0 .. 15),
   tvec : [Modes -> TrapVector], epc : [Modes -> Addr]]

\* "Waiting" is sc_core::wait(wfi_event) in the middle of a step.
Statuses == {"Runnable", "Waiting", "HitBreakpoint", "Terminated",
             "Uncaught", "AssertFailed"}

-----------------------------------------------------------------------------
(* Addresses.                                                              *)

\* pc += size, in the width of the address space.
Advance(h, size) == [h EXCEPT !.pc = (@ + size) % AddrSpace]

\* value & pc_alignment_mask(), the mask with compressed instructions.
PcAligned(value) == value - (value % 2)

-----------------------------------------------------------------------------
(* Taking traps and interrupts.                                            *)

\* The pending and enabled interrupts that are delegated to a mode.
Pending(h, mode) ==
  {i \in h.mie \cap h.mip :
     CASE mode = MachineMode    -> i \notin h.mideleg
       [] mode = SupervisorMode -> i \in h.mideleg \ h.sideleg
       [] mode = UserMode       -> i \in h.mideleg \cap h.sideleg}

\* Mutant: the interrupt enable counts below the mode as well.
OnlyIfEnabled(h, mode) ==
  Pending(h, mode) # {} /\ h.prv <= mode /\ h.ie[mode]

Deliverable(h, mode) ==
  /\ Pending(h, mode) # {}
  /\ h.prv < mode \/ (h.prv = mode /\ h.ie[mode])

\* The target modes; the highest is chosen.  The empty set is NoneMode.
compute_pending_interrupts(h) == {m \in Modes : Deliverable(h, m)}

\* Highest mode first, then external, software, timer.
Rank(irq) == 4 * (irq % 4) + (CASE irq \div 4 = 2 -> 2
                                [] irq \div 4 = 0 -> 1
                                [] irq \div 4 = 1 -> 0)

prepare_interrupt(pending) ==
  CHOOSE i \in pending : \A j \in pending : Rank(j) <= Rank(i)

\* The offset from the base at which the handler is entered.
VectorOffset(h, mode, interrupt, code) ==
  IF interrupt /\ h.tvec[mode].vectored THEN 4 * code ELSE 0

\* Mutant: the interrupt enable is not saved.
ForgetsEnable(h, mode, interrupt, code) ==
  [h EXCEPT !.prv = mode, !.epc[mode] = h.pc, !.ie[mode] = FALSE,
            !.mpp = h.prv,
            !.pc = h.tvec[mode].base + VectorOffset(h, mode, interrupt, code)]

switch_to_trap_handler(h, mode, interrupt, code) ==
  [h EXCEPT
     !.prv = mode,
     !.epc[mode] = h.pc,
     !.pie[mode] = h.ie[mode],
     !.ie[mode] = FALSE,
     !.mpp = IF mode = MachineMode THEN h.prv ELSE @,
     !.spp = IF mode = SupervisorMode THEN h.prv % 2 ELSE @,
     !.pc = (h.tvec[mode].base + VectorOffset(h, mode, interrupt, code))
              % AddrSpace]

\* The part of run_step after an instruction that did not trap.
check_interrupts(h) ==
  IF compute_pending_interrupts(h) = {}
  THEN h
  ELSE LET mode == Max(compute_pending_interrupts(h))
       IN  switch_to_trap_handler(h, mode, TRUE,
                                  prepare_interrupt(Pending(h, mode)))

\* The mode that takes a trap.
prepare_trap(h, exc) ==
  IF h.prv = MachineMode \/ exc \notin h.medeleg THEN MachineMode
  ELSE IF h.prv = SupervisorMode \/ exc \notin h.sedeleg THEN SupervisorMode
  ELSE UserMode

\* Mutant: mpp is reset as on a machine without user mode.
ResetsMppToMachine(h) ==
  [h EXCEPT !.prv = h.mpp, !.ie[MachineMode] = h.pie[MachineMode],
            !.pie[MachineMode] = TRUE, !.pc = h.epc[MachineMode],
            !.mpp = MachineMode]

return_from_trap_handler(h) ==
  [h EXCEPT
     !.prv = h.mpp,
     !.ie[MachineMode] = h.pie[MachineMode],
     !.pie[MachineMode] = TRUE,
     !.pc = h.epc[MachineMode],
     !.mpp = UserMode]

-----------------------------------------------------------------------------
(* Control and status registers.                                           *)

is_invalid_csr_access(h, csr) == h.prv < csr[2]

Masked(old, value, mask) == (old \ mask) \cup (value \cap mask)

\* Mutant: the views of mstatus are written without their masks.
UnmaskedStatus(h, mode, v) ==
  [h EXCEPT !.ie = v.ie, !.pie = v.pie, !.spp = v.spp,
            !.mpp = IF mode = MachineMode THEN v.mpp ELSE @,
            !.tw  = IF mode = MachineMode THEN v.tw ELSE @]

\* mstatus and its restricted views: a mode sees the fields of the modes up
\* to it.
WriteStatus(h, mode, v) ==
  [h EXCEPT
     !.ie  = [m \in Modes |-> IF m <= mode THEN v.ie[m] ELSE h.ie[m]],
     !.pie = [m \in Modes |-> IF m <= mode THEN v.pie[m] ELSE h.pie[m]],
     !.spp = IF mode >= SupervisorMode THEN v.spp ELSE @,
     !.mpp = IF mode = MachineMode THEN v.mpp ELSE @,
     !.tw  = IF mode = MachineMode THEN v.tw ELSE @]

set_csr_value(h, csr, v) ==
  LET mode == csr[2] IN
  CASE csr[1] = "status" -> WriteStatus(h, mode, v)
    [] csr[1] = "ie"     -> [h EXCEPT !.mie = Masked(@, v, IE_MASK(mode))]
    [] csr[1] = "ip"     -> [h EXCEPT !.mip = Masked(@, v, IP_MASK(mode))]
    [] csr[1] = "tvec"   -> [h EXCEPT !.tvec[mode] =
                               [base |-> v - (v % 4), vectored |-> v % 2 = 1]]
    [] csr[1] = "epc"    -> [h EXCEPT !.epc[mode] = PcAligned(v)]
    [] csr = <<"ideleg", MachineMode>>    -> [h EXCEPT !.mideleg = v]
    [] csr = <<"ideleg", SupervisorMode>> -> [h EXCEPT !.sideleg = v]
    [] csr = <<"edeleg", MachineMode>>    ->
         [h EXCEPT !.medeleg = v \cap MEDELEG_MASK]
    [] csr = <<"edeleg", SupervisorMode>> ->
         [h EXCEPT !.sedeleg = v \cap SEDELEG_MASK]

\* What the software writes.
CsrValues(csr) ==
  CASE csr[1] = "status"                 -> StatusValues
    [] csr[1] \in {"ie", "ip", "ideleg"} -> SUBSET Irqs
    [] csr[1] = "edeleg"                 -> SUBSET Excs
    [] csr[1] \in {"tvec", "epc"}        -> Addr

-----------------------------------------------------------------------------
(* The steps of the hart.                                                  *)

\* Reset values: all CSRs are zero and the hart is in machine mode.
Init ==
  /\ hart = [prv |-> MachineMode, pc |-> 0,
             ie |-> [m \in Modes |-> FALSE], pie |-> [m \in Modes |-> FALSE],
             mpp |-> 0, spp |-> 0, tw |-> FALSE,
             mie |-> {}, mip |-> {}, mideleg |-> {}, sideleg |-> {},
             medeleg |-> {}, sedeleg |-> {},
             tvec |-> [m \in Modes |-> [base |-> 0, vectored |-> FALSE]],
             epc |-> [m \in Modes |-> 0]]
  /\ status = "Runnable"
  /\ wfi_event = FALSE

\* The instruction has made h of the hart and did not trap.
Retire(h) == hart' = check_interrupts(h)

\* The instruction trapped.  An assertion guards the delegation to user mode.
Raise(exc) ==
  IF prepare_trap(hart, exc) = UserMode /\ hart.prv # UserMode
  THEN status' = "AssertFailed" /\ UNCHANGED hart
  ELSE /\ hart' = switch_to_trap_handler(hart, prepare_trap(hart, exc), FALSE, exc)
       /\ UNCHANGED status

\* An instruction that the model leaves inside.
Plain(size) ==
  /\ status = "Runnable"
  /\ Retire(Advance(hart, size))
  /\ UNCHANGED <<status, wfi_event>>

\* JAL, JALR and the taken branches.  JALR clears the lowest bit.
Jump(target) ==
  /\ status = "Runnable"
  /\ Retire([hart EXCEPT !.pc = PcAligned(target)])
  /\ UNCHANGED <<status, wfi_event>>

\* Fetch, decode or execution of an instruction raises an exception.
Fault(exc) ==
  /\ status = "Runnable"
  /\ Raise(exc)
  /\ UNCHANGED wfi_event

ECALL ==
  /\ status = "Runnable"
  /\ IF hart.prv = HypervisorMode
     THEN status' = "Uncaught" /\ UNCHANGED hart
     ELSE Raise(EXC_ECALL(hart.prv))
  /\ UNCHANGED wfi_event

EBREAK(size) ==
  /\ status = "Runnable"
  /\ Retire(Advance(hart, size))
  /\ status' = "HitBreakpoint"
  /\ UNCHANGED wfi_event

\* Any of the CSR instructions, with the value it computes.
CsrAccess(csr, v) ==
  /\ status = "Runnable"
  /\ IF is_invalid_csr_access(hart, csr)
     THEN Raise(EXC_ILLEGAL_INSTR)
     ELSE Retire(set_csr_value(Advance(hart, 4), csr, v)) /\ UNCHANGED status
  /\ UNCHANGED wfi_event

has_local_pending_enabled_interrupts(h) == h.mie \cap h.mip # {}

WfiIsIllegal(h) ==
  \/ h.prv = SupervisorMode /\ h.tw
  \/ h.prv = UserMode

WFI ==
  /\ status = "Runnable"
  /\ CASE WfiIsIllegal(hart) -> Raise(EXC_ILLEGAL_INSTR)
       [] ~WfiIsIllegal(hart) /\ has_local_pending_enabled_interrupts(hart) ->
            Retire(Advance(hart, 4)) /\ UNCHANGED status
       [] ~WfiIsIllegal(hart) /\ ~has_local_pending_enabled_interrupts(hart) ->
            hart' = Advance(hart, 4) /\ status' = "Waiting"
  /\ UNCHANGED wfi_event

MRET ==
  /\ status = "Runnable"
  /\ Retire(return_from_trap_handler(hart))
  /\ UNCHANGED <<status, wfi_event>>

\* Instructions that are decoded but not executed: URET, SRET, SFENCE_VMA
\* and floating point.
UnknownOpcode ==
  /\ status = "Runnable"
  /\ status' = "Uncaught"
  /\ UNCHANGED <<hart, wfi_event>>

\* A store to the control peripheral, which calls sys_exit.
SysExit ==
  /\ status = "Runnable"
  /\ Retire(Advance(hart, 4))
  /\ status' = "Terminated"
  /\ UNCHANGED wfi_event

-----------------------------------------------------------------------------
(* The interrupt lines, driven by other SystemC processes.                 *)

trigger_external_interrupt(mode) ==
  /\ External(mode) \in Irqs
  /\ hart' = [hart EXCEPT !.mip = @ \cup {External(mode)}]
  /\ wfi_event' = TRUE
  /\ UNCHANGED status

clear_external_interrupt(mode) ==
  /\ External(mode) \in Irqs
  /\ hart' = [hart EXCEPT !.mip = @ \ {External(mode)}]
  /\ UNCHANGED <<status, wfi_event>>

\* Mutant: the line changes without a notification.
SilentLine(irq, level) ==
  /\ irq \in Irqs
  /\ hart' = [hart EXCEPT !.mip = IF level THEN @ \cup {irq} ELSE @ \ {irq}]
  /\ UNCHANGED <<status, wfi_event>>

\* The timer and the software interrupt of machine mode.
SetLine(irq, level) ==
  /\ irq \in Irqs
  /\ hart' = [hart EXCEPT !.mip = IF level THEN @ \cup {irq} ELSE @ \ {irq}]
  /\ wfi_event' = TRUE
  /\ UNCHANGED status

trigger_timer_interrupt(level) == SetLine(Timer(MachineMode), level)

trigger_software_interrupt(level) == SetLine(Software(MachineMode), level)

\* The next delta cycle: the event fires, and only a hart that waits sees it.
DeltaCycle ==
  /\ wfi_event
  /\ wfi_event' = FALSE
  /\ IF status = "Waiting"
     THEN Retire(hart) /\ status' = "Runnable"
     ELSE UNCHANGED <<hart, status>>

-----------------------------------------------------------------------------

\* The instructions that always retire.
RetiringStep ==
  \/ \E size \in {2, 4} : Plain(size)
  \/ \E target \in Addr : Jump(target)

\* The instructions other than those that access CSRs.
Instruction ==
  \/ RetiringStep
  \/ \E exc \in Excs \ ECalls : Fault(exc)
  \/ ECALL
  \/ \E size \in {2, 4} : EBREAK(size)
  \/ WFI
  \/ MRET
  \/ UnknownOpcode
  \/ SysExit

RunStep ==
  \/ Instruction
  \/ \E csr \in Csrs : \E v \in CsrValues(csr) : CsrAccess(csr, v)

Lines ==
  \/ \E mode \in Modes : \/ trigger_external_interrupt(mode)
                         \/ clear_external_interrupt(mode)
  \/ \E level \in BOOLEAN : \/ trigger_timer_interrupt(level)
                            \/ trigger_software_interrupt(level)

Next == RunStep \/ Lines \/ DeltaCycle

Spec == Init /\ [][Next]_vars
-----------------------------------------------------------------------------
(* Properties.                                                             *)

\* The state has its type: the width of addresses and of the CSR fields.
TypeOK ==
  /\ hart \in Hart
  /\ status \in Statuses
  /\ wfi_event \in BOOLEAN

\* The assertion at the head of ISS::exec_step: wherever the pc comes from
\* (a jump, a trap vector, a vectored interrupt, an epc that software wrote),
\* it is aligned for the instruction fetch.
FetchIsAligned == hart.pc % 2 = 0

\* The assertion in ISS::prepare_trap: only user mode traps to user mode.
NoAssertFails == status # "AssertFailed"

\* A hart that sleeps in WFI while an enabled interrupt is pending is about
\* to be woken: the check before sc_core::wait and the notification by every
\* function that raises a line leave no gap.
NoLostWakeup ==
  status = "Waiting" /\ has_local_pending_enabled_interrupts(hart) => wfi_event

\* The places where the handler of a mode may be entered.
Entries(h, mode) ==
  {(h.tvec[mode].base + VectorOffset(h, mode, irq, code)) % AddrSpace :
     irq \in BOOLEAN, code \in AllIrqs}

\* Privilege rises only by entering the trap handler of the higher mode, at
\* an entry of its vector and with its interrupts disabled.  MRET does not
\* check the mode in which it is executed, so this rests on what mpp holds
\* while a lower mode runs.
PrivilegeRisesByTrap ==
  [][hart'.prv > hart.prv =>
       /\ hart'.prv \in Modes
       /\ hart'.pc \in Entries(hart', hart'.prv)
       /\ ~hart'.ie[hart'.prv]]_vars

\* Privilege falls only by a return from machine mode's trap handler, and not
\* below the mode that handler interrupted: no trap and no interrupt, however
\* it is delegated, is taken in a mode below the one it interrupts.
PrivilegeFallsByReturn ==
  [][hart'.prv < hart.prv =>
       /\ hart'.prv >= hart.mpp
       /\ hart'.ie[MachineMode] = hart.pie[MachineMode]]_vars

\* What belongs to machine mode and is not changed by devices, its interrupt
\* enable in mstatus apart.
MachineState(h) ==
  <<h.mideleg, h.medeleg, h.tvec[MachineMode], h.epc[MachineMode], h.tw,
    h.mie \ IE_MASK(SupervisorMode), h.pie[MachineMode], h.mpp>>

\* A step of the other modes that does not enter machine mode leaves machine
\* mode's state alone: the sstatus, sie and sip views and the delegated traps
\* touch nothing of it.  An MRET, which any mode can execute, can set mstatus.mie
\* and does no more, since mpie is set and mpp is user mode while a lower mode runs.
MachineStateIsProtected ==
  [][hart.prv < MachineMode /\ hart'.prv < MachineMode =>
       /\ MachineState(hart') = MachineState(hart)
       /\ \/ hart'.ie[MachineMode] = hart.ie[MachineMode]
          \/ hart'.ie[MachineMode] /\ Retire(return_from_trap_handler(hart))]_vars

Running == status \in {"Runnable", "Waiting"}

\* An interrupt of machine mode cannot be held off by the modes below it.
MachineInterruptIsTaken ==
  Running /\ hart.prv < MachineMode /\ Pending(hart, MachineMode) # {}
    ~> \/ hart.prv = MachineMode
       \/ Pending(hart, MachineMode) = {}
       \/ ~Running
=============================================================================
