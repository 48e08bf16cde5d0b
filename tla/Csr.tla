-------------------------------- MODULE Csr --------------------------------
(***************************************************************************)
(* The control and status registers of a hart (core/rv32/csr.h) and the    *)
(* instructions that access them: the address map, the registers that are  *)
(* views of others, the masks, the access rights, the counters.            *)
(*                                                                         *)
(* A value is the set of its one bits.  A register is known by the address *)
(* that register_mapping gives it first.  What a trap does to the          *)
(* registers is in IssTrap; here an instruction that traps is one with     *)
(* illegal = TRUE.                                                         *)
(***************************************************************************)
EXTENDS Integers, FiniteSetsExt

CONSTANTS Times,       \* what clint->update_and_get_mtime() returns
          Values       \* what the software has in its registers

Word == 0 .. 31

ASSUME CsrAssumption == Times \subseteq SUBSET (0 .. 63) /\ Values \subseteq SUBSET Word

VARIABLES
  csrs,          \* register -> value; the counters have 64 bits
  cycle_counter, \* in cycles
  rd,            \* the destination register
  illegal        \* the last instruction raised an illegal instruction exception

csrVars == <<csrs, cycle_counter, rd, illegal>>

-----------------------------------------------------------------------------
(* Addresses *)

ADDR == [
  CYCLE |-> \hC00, CYCLEH |-> \hC80, TIME |-> \hC01, TIMEH |-> \hC81,
  INSTRET |-> \hC02, INSTRETH |-> \hC82,
  MCYCLE |-> \hB00, MCYCLEH |-> \hB80, MTIME |-> \hB01, MTIMEH |-> \hB81,
  MINSTRET |-> \hB02, MINSTRETH |-> \hB82,
  MVENDORID |-> \hF11, MARCHID |-> \hF12, MIMPID |-> \hF13, MHARTID |-> \hF14,
  MSTATUS |-> \h300, MISA |-> \h301, MEDELEG |-> \h302, MIDELEG |-> \h303, MIE |-> \h304,
  MTVEC |-> \h305, MCOUNTEREN |-> \h306, MCOUNTINHIBIT |-> \h320,
  MSCRATCH |-> \h340, MEPC |-> \h341, MCAUSE |-> \h342, MTVAL |-> \h343, MIP |-> \h344,
  SSTATUS |-> \h100, SEDELEG |-> \h102, SIDELEG |-> \h103, SIE |-> \h104, STVEC |-> \h105,
  SCOUNTEREN |-> \h106, SSCRATCH |-> \h140, SEPC |-> \h141, SCAUSE |-> \h142, STVAL |-> \h143,
  SIP |-> \h144, SATP |-> \h180,
  USTATUS |-> \h000, UIE |-> \h004, UTVEC |-> \h005, USCRATCH |-> \h040, UEPC |-> \h041,
  UCAUSE |-> \h042, UTVAL |-> \h043, UIP |-> \h044,
  FFLAGS |-> \h001, FRM |-> \h002, FCSR |-> \h003]

At(names) == {ADDR[n] : n \in names}

TSELECT == \h7A0
Debug == \h7A0 .. \h7A3 \cup \h7B0 .. \h7B3
Pmp == \h3A0 .. \h3A3 \cup \h3B0 .. \h3BF

HPMCOUNTER == \hC03 .. \hC1F \cup \hC83 .. \hC9F
MHPMCOUNTER == \hB03 .. \hB1F \cup \hB83 .. \hB9F
MHPMEVENT == \h323 .. \h33F
AnyHpmcounter == HPMCOUNTER \cup MHPMCOUNTER \cup MHPMEVENT

\* The counters, their upper halves and their machine mode shadows.
Counters == At({"CYCLE", "CYCLEH", "TIME", "TIMEH", "INSTRET", "INSTRETH",
                "MCYCLE", "MCYCLEH", "MTIME", "MTIMEH", "MINSTRET", "MINSTRETH"})
Time == At({"TIME", "TIMEH", "MTIME", "MTIMEH"})
MCycle == At({"MCYCLE", "MCYCLEH"})

\* The registers that only have cases of their own in get_csr_value and set_csr_value.
Views == At({"SSTATUS", "USTATUS", "SIE", "UIE", "SIP", "UIP", "FFLAGS", "FRM"})

Mapped == (At(DOMAIN ADDR) \ Views) \cup Pmp

\* Mutant: two registers share their storage.
register_mapping_copied(a) ==
  IF a \in Counters THEN <<\hC00 + (a % 128), (a \div 128) % 2>>
  ELSE <<IF a = ADDR.SCAUSE THEN ADDR.STVAL ELSE a, 0>>

\* The register and the half of it that an address stands for.
register_mapping(a) ==
  IF a \in Counters THEN <<\hC00 + (a % 128), (a \div 128) % 2>> ELSE <<a, 0>>

Registers == {register_mapping(a)[1] : a \in Mapped}

Half(s, i) == {b - 32 * i : b \in s \cap (32 * i .. 32 * i + 31)}
default_read32(c, a) == Half(c[register_mapping(a)[1]], register_mapping(a)[2])
default_write32(c, a, v) ==
  LET r == register_mapping(a)[1]
      i == register_mapping(a)[2]
  IN  [c EXCEPT ![r] = (@ \ (32 * i .. 32 * i + 31)) \cup {b + 32 * i : b \in v}]

-----------------------------------------------------------------------------
(* Masks and fields *)

MIE_MASK == {0, 1, 3, 4, 5, 7, 8, 9, 11}
SIE_MASK == {0, 1, 4, 5, 8, 9}
UIE_MASK == {0, 4, 8}
MSTATUS_MASK == {0, 1, 3, 4, 5, 7, 8} \cup 11 .. 22 \cup {31}
SSTATUS_MASK == {0, 1, 4, 5, 8, 13, 14, 15, 16, 18, 19, 31}
USTATUS_MASK == {0, 4}

\* csr_mstatus, csr_mcounteren, csr_mcountinhibit
tvm == 20
CY == 0
IR == 2

\* csr_misa: a bit per extension, and mxl = 1.
Extension == [A |-> 0, C |-> 2, F |-> 5, I |-> 8, M |-> 12, N |-> 13, S |-> 18, U |-> 20]
misa == {Extension[e] : e \in DOMAIN Extension} \cup {30}

\* read(csrs.x, MASK): the register behind a view, and the bits that it shows.
ReadAs(a) ==
  CASE a = ADDR.MSTATUS -> <<ADDR.MSTATUS, MSTATUS_MASK>>
    [] a = ADDR.SSTATUS -> <<ADDR.MSTATUS, SSTATUS_MASK>>
    [] a = ADDR.USTATUS -> <<ADDR.MSTATUS, USTATUS_MASK>>
    [] a = ADDR.MIP     -> <<ADDR.MIP, MIE_MASK>>
    [] a = ADDR.SIP     -> <<ADDR.MIP, {0, 1}>>
    [] a = ADDR.UIP     -> <<ADDR.MIP, {0}>>
    [] a = ADDR.MIE     -> <<ADDR.MIE, MIE_MASK>>
    [] a = ADDR.SIE     -> <<ADDR.MIE, SIE_MASK>>
    [] a = ADDR.UIE     -> <<ADDR.MIE, UIE_MASK>>
    [] a = ADDR.FCSR    -> <<ADDR.FCSR, 0 .. 7>>
    [] a = ADDR.FFLAGS  -> <<ADDR.FCSR, 0 .. 4>>
    [] a = ADDR.FRM     -> <<ADDR.FCSR, 5 .. 7>>
    [] OTHER            -> <<a, Word>>

\* write(csrs.x, MASK): the bits that a write changes where they are not those above.
WriteMask(a) ==
  CASE a = ADDR.MIP                                -> SIE_MASK
    [] a = ADDR.SATP                               -> 0 .. 21 \cup {31}
    [] a \in At({"MTVEC", "STVEC", "UTVEC"})       -> Word \ {1}
    [] a \in At({"MEPC", "SEPC", "UEPC"})          -> Word \ {0}   \* pc_alignment_mask()
    [] a \in At({"MIDELEG", "SIDELEG"})            -> MIE_MASK
    [] a = ADDR.MEDELEG                            -> 0 .. 15 \ {10, 14}
    [] a = ADDR.SEDELEG                            -> 0 .. 15 \ {9, 10, 11, 14}
    [] a \in At({"MCOUNTEREN", "SCOUNTEREN"})      -> {0, 1, 2}
    [] a = ADDR.MCOUNTINHIBIT                      -> {CY, IR}
    [] OTHER                                       -> ReadAs(a)[2]

\* frm is the only field that a view shows shifted.
Offset(a) == IF a = ADDR.FRM THEN 5 ELSE 0

-----------------------------------------------------------------------------
(* Reading and writing *)

PrivilegeOf(a) == (a \div 256) % 4
ReadOnly(a) == a \div 1024 = 3

is_invalid_csr_access(c, prv, a, is_write) ==
  LET has(e) == Extension[e] \in c[ADDR.MISA] IN
  \/ a \in At({"FFLAGS", "FRM", "FCSR"}) /\ ~has("F")
  \/ is_write /\ ReadOnly(a)
  \/ prv < PrivilegeOf(a)
  \/ PrivilegeOf(a) = 1 /\ ~has("S")
  \/ PrivilegeOf(a) = 0 /\ ~has("U")

\* validate_csr_counter_read_access_rights refuses a read of a counter.
CounterDenied(c, prv, a) ==
  /\ a \in \hC00 .. \hC1F \cup \hC80 .. \hC9F
  /\ \/ prv < 3 /\ a % 32 \notin c[ADDR.MCOUNTEREN]
     \/ prv = 0 /\ a % 32 \notin c[ADDR.SCOUNTEREN]

TranslationTrapped(c, a) == a = ADDR.SATP /\ tvm \in c[ADDR.MSTATUS]

ReadIllegal(c, prv, a) ==
  \/ CounterDenied(c, prv, a)
  \/ TranslationTrapped(c, a)
  \/ a \notin Mapped \cup Views \cup AnyHpmcounter \cup Debug

\* get_csr_value first brings the register up to date that it samples.
Sampled(c, a, mtime) ==
  CASE a \in Time   -> [c EXCEPT ![ADDR.TIME] = mtime]
    [] a \in MCycle -> [c EXCEPT ![ADDR.CYCLE] = cycle_counter]
    [] OTHER        -> c

get_csr_value(c, a) ==
  CASE a = TSELECT                   -> {0}
    [] a \in AnyHpmcounter           -> {}
    [] a \in Debug \ {TSELECT}       -> {}
    [] a \in Views \cup At({"MSTATUS", "MIP", "MIE", "FCSR"}) ->
         {b - Offset(a) : b \in c[ReadAs(a)[1]] \cap ReadAs(a)[2]}
    [] OTHER                         -> default_read32(c, a)

\* Mutant: frm has no case of its own.
WriteIllegalFrm(c, a) ==
  \/ TranslationTrapped(c, a)
  \/ a \notin Mapped \cup (Views \ {ADDR.FRM}) \cup AnyHpmcounter \cup Debug

WriteIllegal(c, a) ==
  \/ TranslationTrapped(c, a)
  \/ a \notin Mapped \cup Views \cup AnyHpmcounter \cup Debug

\* The registers with a mask of their own in set_csr_value.
Masked == Views \cup At({"MSTATUS", "MIP", "MIE", "FCSR", "SATP", "MTVEC", "STVEC", "UTVEC", "MEPC", "SEPC",
                         "UEPC", "MIDELEG", "MEDELEG", "SIDELEG", "SEDELEG", "MCOUNTEREN", "SCOUNTEREN",
                         "MCOUNTINHIBIT"})

set_csr_value(c, a, value) ==
  CASE a \in {ADDR.MISA} \cup AnyHpmcounter \cup Debug -> c
    [] a \in Masked -> [c EXCEPT ![ReadAs(a)[1]] =
                          (@ \ WriteMask(a)) \cup ({b + Offset(a) : b \in value} \cap WriteMask(a))]
    [] OTHER -> default_write32(c, a, value)

-----------------------------------------------------------------------------
(* The instructions *)

\* ++reg of a 64 bit counter.
Incremented(s) ==
  IF s = 0 .. 63 THEN {}
  ELSE LET z == Min(0 .. 63 \ s) IN (s \ (0 .. z)) \cup {z}

\* performance_and_sync_update, which also counts an instruction that trapped.  It
\* reads mcountinhibit after the instruction wrote it.
Count(c) ==
  /\ csrs' = IF IR \in c[ADDR.MCOUNTINHIBIT] THEN c ELSE [c EXCEPT ![ADDR.INSTRET] = Incremented(@)]
  /\ cycle_counter' = IF CY \in c[ADDR.MCOUNTINHIBIT] THEN cycle_counter ELSE Incremented(cycle_counter)

\* CSRRW, CSRRS and CSRRC, and the same with an immediate value: reads says whether
\* the instruction has a destination, writes whether it has a source.
Reads(op, reads) == op # "CSRRW" \/ reads
Writes(op, writes) == op = "CSRRW" \/ writes
Result(op, old, v) == CASE op = "CSRRW" -> v [] op = "CSRRS" -> old \cup v [] op = "CSRRC" -> old \ v

CsrInstruction(prv, op, a, reads, writes, v, mtime) ==
  LET denied == \/ is_invalid_csr_access(csrs, prv, a, Writes(op, writes))
                \/ Reads(op, reads) /\ ReadIllegal(csrs, prv, a)
      c == IF Reads(op, reads) THEN Sampled(csrs, a, mtime) ELSE csrs
      old == get_csr_value(c, a)
  IN  IF denied
      THEN Count(csrs) /\ illegal' = TRUE /\ UNCHANGED rd
      ELSE /\ rd' = IF reads THEN old ELSE rd
           /\ illegal' = (Writes(op, writes) /\ WriteIllegal(c, a))
           /\ Count(IF Writes(op, writes) /\ ~illegal'
                    THEN set_csr_value(c, a, Result(op, old, v)) ELSE c)

CsrInit ==
  /\ csrs = [r \in Registers |-> IF r = ADDR.MISA THEN misa ELSE {}]
  /\ cycle_counter = {} /\ rd = {} /\ illegal = FALSE
=============================================================================
