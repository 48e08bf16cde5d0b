------------------------------- MODULE MCCore -------------------------------
(***************************************************************************)
(* The tables of the core: the decoder, as in MCInstr, and beside it the   *)
(* control and status registers of a hart that comes from reset.  Its      *)
(* firmware, in machine mode, may first write one value to every register  *)
(* that can be written; then software in any mode executes CSR             *)
(* instructions.  The two checks share nothing: the hart moves while the   *)
(* decoder is at one of its words.                                         *)
(***************************************************************************)
EXTENDS MCInstr, Csr

CONSTANTS Addresses,        \* the addresses that are tried
          FirmwareValues,   \* what the firmware writes
          MaxInstrs         \* how many instructions the software executes

ASSUME CoreAssumption == /\ Addresses \subseteq 0 .. \hFFF
                         /\ FirmwareValues \subseteq SUBSET Word
                         /\ MaxInstrs \in Nat

\* Zero, ones, and the even and the odd bits: together they set and clear each bit,
\* alone and with its neighbours.
Even == {b \in Word : b % 2 = 0}
MCValues == {{}, Word, Even, Word \ Even}
MCFirmware == MCValues
MCTimes == {{0, 33}}

\* All the addresses that have a name, the first and the last of each array, and
\* some that no table has.
Ends(s) == {Min(s), Max(s)}
MCAddresses ==
  At(DOMAIN ADDR) \cup {TSELECT, \h7B3, \h3A0, \h3A3, \h3B0, \h3BF}
    \cup Ends(HPMCOUNTER) \cup {\hC1F, \hC83} \cup Ends(MHPMCOUNTER) \cup Ends(MHPMEVENT)
    \cup {\h045, \h181, \h3A4, \h3C0, \h7A4, \hB20, \hCA0, \hF15}

VARIABLES firmware,  \* [value, left]: what it writes, the addresses it has left
          executed,  \* the number of instructions of the software
          last       \* the last one: [op, addr, writes, value]

coreVars == <<word, half, csrVars, firmware, executed, last>>

CoreInit ==
  /\ WordInit /\ CsrInit
  /\ firmware \in {[value |-> {}, left |-> {}]} \cup {[value |-> v, left |-> Addresses] : v \in FirmwareValues}
  /\ executed = 0
  /\ last = [addr |-> -1]

AtRest == word = RFormat(127, 0, 0, 0, 0, 0) /\ half = -1

\* mstatus comes last, since it may make satp trap.
Configure(a) ==
  /\ AtRest /\ a \in firmware.left
  /\ a = ADDR.MSTATUS => firmware.left = {a}
  /\ \A b \in firmware.left \ {ADDR.MSTATUS} : a <= b \/ a = ADDR.MSTATUS
  /\ csrs' = IF WriteIllegal(csrs, a) \/ ReadOnly(a) THEN csrs ELSE set_csr_value(csrs, a, firmware.value)
  /\ firmware' = [firmware EXCEPT !.left = @ \ {a}]
  /\ UNCHANGED <<word, half, cycle_counter, rd, illegal, executed, last>>

ExecuteCsr(prv, op, a, reads, writes, v) ==
  /\ op = "CSRRW" => writes
  /\ ~writes => v = {}
  /\ executed' = executed + 1
  /\ last' = [op |-> op, addr |-> a, writes |-> Writes(op, writes), value |-> v]
  /\ \E mtime \in Times : CsrInstruction(prv, op, a, reads, writes, v, mtime)
  /\ UNCHANGED <<word, half, firmware>>

CoreNext ==
  \/ /\ WordNext
     /\ firmware.left = {} /\ executed = 0
     /\ UNCHANGED <<csrVars, firmware, executed, last>>
  \/ \E a \in Addresses : Configure(a)
  \/ /\ AtRest /\ firmware.left = {} /\ executed < MaxInstrs
     /\ \E prv \in {0, 1, 3}, op \in {"CSRRW", "CSRRS", "CSRRC"}, a \in Addresses, v \in Values,
           reads, writes \in BOOLEAN : ExecuteCsr(prv, op, a, reads, writes, v)

CoreSpec == CoreInit /\ [][CoreNext]_coreVars

-----------------------------------------------------------------------------
\* A CSR instruction that traps has done nothing: neither the destination register
\* nor any CSR changes, but for the counters that count it.  get_csr_value writes
\* the destination before set_csr_value looks at the address, so this rests on both
\* of their switches and register_mapping having the same addresses.
TrappedAccessHasNoEffect ==
  [][illegal' /\ executed' # executed =>
       /\ rd' = rd
       /\ \A r \in Registers \ Counters : csrs'[r] = csrs[r]]_coreVars

\* The addresses that show parts of the same register.
SharedWith(a) ==
  UNION {s \in {At({"MSTATUS", "SSTATUS", "USTATUS"}), At({"MIE", "SIE", "UIE"}), At({"MIP", "SIP", "UIP"}),
                At({"FCSR", "FFLAGS", "FRM"}), {a}} : a \in s}

\* The bits of a register that differ between two tables, where the register has them.
Changed(c, d, a) ==
  LET x == get_csr_value(c, a)
      y == get_csr_value(d, a)
  IN  {b + Offset(a) : b \in (x \ y) \cup (y \ x)}

\* A write through one address changes nothing but the register it names: every bit
\* of it reads as it did or as the instruction made it; another address shows the
\* change only if it is a view of the same register, and then only in bits that the
\* writer sees change as well.  So two CSRs never share storage by accident, and no
\* view lets a lower mode change bits of mstatus, mie or mip that it cannot see.
WriteIsConfined ==
  [][executed' # executed /\ ~illegal' =>
       /\ \A b \in (Mapped \cup Views) \ Counters :
            Changed(csrs, csrs', b) \subseteq
              IF last'.writes /\ b \in SharedWith(last'.addr) THEN Changed(csrs, csrs', last'.addr) ELSE {}
       /\ last'.writes /\ last'.addr \notin Counters =>
            LET old == get_csr_value(csrs, last'.addr)
                new == get_csr_value(csrs', last'.addr)
                wanted == Result(last'.op, old, last'.value)
            IN  old \cap wanted \subseteq new /\ new \subseteq old \cup wanted]_coreVars
=============================================================================
