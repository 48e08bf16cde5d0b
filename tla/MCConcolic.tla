----------------------------- MODULE MCConcolic -----------------------------
(***************************************************************************)
(* Concolic execution against a reference: beside the simulator, one plain *)
(* RISC-V machine per input executes the same instructions as integers, by *)
(* the definitions of the instruction set manual.  Only the inputs that    *)
(* satisfy the trace, and agree with the current input on the values whose *)
(* concrete part alone was used, are followed.                             *)
(***************************************************************************)
EXTENDS Concolic

CONSTANTS Prefixes,     \* how the programs begin
          MaxFree       \* instructions after the prefix

ASSUME PrefixesAssumption == MaxFree \in Nat /\ \A s \in Prefixes : s \in Seq(Instructions)

VARIABLES todo,         \* what is left of the prefix
          free,         \* the instructions executed since
          ref           \* the reference machine of every input that is followed

-----------------------------------------------------------------------------
(* The instance: 8 bit words of 2 bit bytes, 8 bytes of memory. *)

\* The bytes of a word, lowest first.
BytesOf(w) == [k \in 1 .. 8 |-> IF k <= 4 THEN (w \div 4 ^ (k - 1)) % 4 ELSE 0]

Assign(w, v, s, t) == [memory |-> [a \in 0 .. 7 |-> BytesOf(IF a = 4 THEN v ELSE w)], sensor |-> <<s, t, 0, 0>>]

MCAssignments == <<Assign(0, 0, 0, 9), Assign(1, 255, 255, 3), Assign(128, 255, 7, 7),
                   Assign(127, 2, 13, 0), Assign(255, 128, 128, 128), Assign(90, 90, 6, 14)>>

I(op, rd, rs1, rs2, imm) == [op |-> op, rd |-> rd, rs1 |-> rs1, rs2 |-> rs2, imm |-> imm]
Li(rd, n) == I("ADDI", rd, 0, 0, n)

\* Make word 0 symbolic and load it into x1.
MakeWord0 == <<Li(1, CtrlStart), I("SW", 0, 1, 0, 0), Li(2, 4), I("SW", 0, 1, 2, 4), I("LW", 1, 0, 0, 0)>>

\* Make word 4 symbolic too, by a store to one byte of the size register, and
\* load it into x2.
MakeWord4 == MakeWord0 \o <<Li(1, CtrlStart), Li(2, 4), I("SW", 0, 1, 2, 0), Li(2, 1), I("SB", 0, 1, 2, 5),
                            I("LW", 1, 0, 0, 0), I("LW", 2, 0, 0, 4)>>

\* Two values of the sensor, from the range 3 .. 9.
ReadSensor == <<Li(1, SensorStart), Li(2, 3), I("SW", 0, 1, 2, 0), Li(2, 10), I("SW", 0, 1, 2, 4),
                I("LW", 2, 1, 0, 8), I("LW", 1, 1, 0, 8)>>

MCPrefixes == {MakeWord0 \o <<Li(2, n)>> : n \in {0, 3, 128, 255}} \cup {MakeWord4, ReadSensor}

MCInstrs ==
  {I(op, rd, 1, 2, 0) : op \in RegOps \cup MulOps \cup DivOps, rd \in {0, 2}}
    \cup {I(op, 1, 2, 1, 0) : op \in {"SUB", "SLL", "SRA", "SLT", "SLTU"} \cup DivOps}
    \cup {I(op, 1, 1, 0, imm) : op \in ImmOps \ {"SLLI", "SRLI", "SRAI"}, imm \in {5, -2}}
    \cup {I(op, 1, 1, 0, imm) : op \in {"SLLI", "SRLI", "SRAI"}, imm \in {1, 7}}
    \cup {I(op, 0, 1, 2, imm) : op \in BranchOps, imm \in {-4, 12}}
    \cup {I("JAL", 1, 0, 0, 6), I("JALR", 1, 1, 0, 3), I("JALR", 2, 2, 0, 1)}
    \cup {I(op, 1, 0, 0, imm) : op \in {"LB", "LH", "LW", "LBU", "LHU"}, imm \in {0, 2, 3}}
    \cup {I("LW", 2, 1, 0, 0), I("LBU", 1, 2, 0, 0), I("LW", 1, 0, 0, SensorStart + 8)}
    \cup {I(op, 0, 0, r, imm) : op \in {"SB", "SH", "SW"}, r \in {1, 2}, imm \in {1, 2, 4}}
    \cup {I("SW", 0, 0, r, CtrlStart + 8) : r \in {1, 2}}
    \cup {I("SW", 0, 0, 1, CtrlStart + 12), I("SW", 0, 0, 2, SensorStart + 4), I("SH", 0, 0, 2, SensorStart)}
    \cup {I(op, 2, 0, 1, 0) : op \in AmoOps}
    \cup {I(op, 1, 0, 2, 0) : op \in AmoOps}
    \cup {I("AMOADD_W", 1, 2, 1, 0)}
    \cup {I(op, 2, 1, 0, 6) : op \in {"CSRRW", "CSRRS", "CSRRC", "CSRRWI", "CSRRSI", "CSRRCI"}}

-----------------------------------------------------------------------------
(* The reference machine. *)

M == 2 ^ XLEN
S(n) == IF n >= M \div 2 THEN n - M ELSE n

\* The quotient q and remainder r of the manual: x = q * y + r, rounded to zero.
Quot(x, y) == CHOOSE q \in -M .. M : Abs(x - q * y) < Abs(y) /\ (x - q * y) * x >= 0

RefAlu(op, a, b) ==
  LET sh == b % XLEN IN
  CASE op \in {"ADD", "ADDI", "AMOADD_W"}  -> a + b
    [] op = "SUB"                          -> a - b
    [] op \in {"XOR", "XORI", "AMOXOR_W"}  -> BitXor(a, b)
    [] op \in {"OR", "ORI", "AMOOR_W", "CSRRS", "CSRRSI"} -> BitOr(a, b)
    [] op \in {"AND", "ANDI", "AMOAND_W"}  -> BitAnd(a, b)
    [] op \in {"CSRRC", "CSRRCI"}          -> BitAnd(a, M - 1 - b)
    [] op \in {"SLT", "SLTI"}              -> IF S(a) < S(b) THEN 1 ELSE 0
    [] op \in {"SLTU", "SLTIU"}            -> IF a < b THEN 1 ELSE 0
    [] op \in {"SLL", "SLLI"}              -> a * 2 ^ sh
    [] op \in {"SRL", "SRLI"}              -> a \div 2 ^ sh
    [] op \in {"SRA", "SRAI"}              -> S(a) \div 2 ^ sh
    [] op = "MUL"                          -> a * b
    [] op = "MULH"                         -> (S(a) * S(b)) \div M
    [] op = "MULHU"                        -> (a * b) \div M
    [] op = "MULHSU"                       -> (S(a) * b) \div M
    [] op = "DIV"                          -> IF b = 0 THEN -1 ELSE Quot(S(a), S(b))
    [] op = "DIVU"                         -> IF b = 0 THEN -1 ELSE Quot(a, b)
    [] op = "REM"                          -> IF b = 0 THEN a ELSE S(a) - S(b) * Quot(S(a), S(b))
    [] op = "REMU"                         -> IF b = 0 THEN a ELSE a - b * Quot(a, b)
    [] op \in {"LUI", "AMOSWAP_W", "CSRRW", "CSRRWI"} -> b
    [] op = "AMOMIN_W"                     -> IF S(a) < S(b) THEN a ELSE b
    [] op = "AMOMAX_W"                     -> IF S(a) > S(b) THEN a ELSE b
    [] op = "AMOMINU_W"                    -> IF a < b THEN a ELSE b
    [] op = "AMOMAXU_W"                    -> IF a > b THEN a ELSE b

RefTaken(op, a, b) ==
  CASE op = "BEQ" -> a = b          [] op = "BNE"  -> a # b  [] op = "BLT" -> S(a) < S(b)
    [] op = "BGE" -> ~(S(a) < S(b)) [] op = "BLTU" -> a < b  [] op = "BGEU" -> ~(a < b)

\* Everything that software can store to is a byte at its address: memory, the
\* words of the control peripheral, the sensor's bounds.  The control peripheral
\* has no register at its other addresses; an access to them ends the simulation.
Memory == 0 .. MemSize - 1
Control == CtrlStart .. CtrlStart + 11
Bounds == SensorStart .. SensorStart + 7
Reserved == CtrlStart + 12 .. CtrlStart + DeviceSize - 1
RefInit == [regs |-> [r \in Regs |-> 0], mem |-> [a \in Memory \cup Control \cup Bounds |-> 0],
            pc |-> 0, csr |-> 0, nread |-> 0, status |-> "running"]

RefWord(m, a, n) == SumOf([k \in 1 .. n |-> m.mem[a + k - 1] * 2 ^ (CHAR_BIT * (k - 1))], n)
RefTrap(m) == [m EXCEPT !.pc = TrapVector]
RefAbort(m) == [m EXCEPT !.status = "aborted"]
RefSet(m, rd, v) == [m EXCEPT !.regs[rd] = IF rd = 0 THEN 0 ELSE v % M, !.pc = (@ + 4) % M]
RefAborts(a, n) == a % n = 0 /\ a \in Reserved

\* The store of the n lowest bytes of v, and what a device makes of it: the register
\* description in symbolic_ctrl.h and the bounds of the sensor.  When the store is
\* done, rd receives x.
RefWritable(a, n) ==
  /\ a % n = 0
  /\ \/ a .. a + n - 1 \subseteq Memory \cup Control
     \/ a \in {SensorStart, SensorStart + 4} /\ n = 4
RefPut(m, a, v, n) ==
  [m EXCEPT !.mem = [b \in DOMAIN @ |-> IF b \in a .. a + n - 1
                                        THEN (v \div 2 ^ (CHAR_BIT * (b - a))) % 2 ^ CHAR_BIT ELSE @[b]]]
RefSymbolic(m, i) ==
  LET first == RefWord(m, CtrlStart, 4)
      count == RefWord(m, CtrlStart + 4, 4)
  IN  [b \in DOMAIN m.mem |-> IF b \in first .. first + count - 1
                              THEN Assignments[i].memory[first][b - first + 1] ELSE m.mem[b]]
RefEnd(m) ==
  LET flags == RefWord(m, CtrlStart + 8, 4)
  IN  CASE Bit(flags, XLEN - 1) = 1 -> "error"
        [] Bit(flags, XLEN - 1) = 0 /\ Bit(flags, XLEN - 2) = 1 -> "exited"
        [] OTHER -> m.status
RefStore(m, a, v, n, i, rd, x) ==
  LET put == RefPut(m, a, v, n)
      done == RefSet(put, rd, x)
  IN  IF RefAborts(a, n) THEN RefAbort(m)
      ELSE IF ~RefWritable(a, n) THEN RefTrap(m)
      ELSE IF a \in CtrlStart + 4 .. CtrlStart + 7
           THEN IF RefWord(put, CtrlStart, 4) + RefWord(put, CtrlStart + 4, 4) > MemSize THEN RefTrap(put)
                ELSE [done EXCEPT !.mem = RefSymbolic(put, i)]
      ELSE IF a \in CtrlStart + 8 .. CtrlStart + 11
           THEN [done EXCEPT !.mem = [b \in DOMAIN @ |-> IF b \in CtrlStart + 8 .. CtrlStart + 11 THEN 0 ELSE @[b]],
                             !.status = RefEnd(put)]
      ELSE done

\* The value of a load, if it has one: n bytes of memory, or the next value of
\* the sensor within its bounds.
RefReadable(m, a, n) ==
  /\ a % n = 0
  /\ \/ a .. a + n - 1 \subseteq Memory \cup Control
     \/ a = SensorStart + 8 /\ n = 4 /\ RefWord(m, SensorStart + 4, 4) > RefWord(m, SensorStart, 4)
RefLoad(m, a, n, i) ==
  IF a = SensorStart + 8
  THEN RefWord(m, SensorStart, 4)
         + (Assignments[i].sensor[m.nread + 1] % (RefWord(m, SensorStart + 4, 4) - RefWord(m, SensorStart, 4)))
  ELSE RefWord(m, a, n)
RefSeen(m, a) == IF a = SensorStart + 8 THEN [m EXCEPT !.nread = @ + 1] ELSE m

RefArithmetic(m, ins) ==
  LET imm == ins.imm % M IN
  RefSet(m, ins.rd, IF ins.op = "AUIPC" THEN m.pc + imm
                    ELSE RefAlu(ins.op, m.regs[ins.rs1], IF ins.op \in ImmOps THEN imm ELSE m.regs[ins.rs2]))

RefJump(m, ins) ==
  [RefSet(m, ins.rd, m.pc + 4) EXCEPT
     !.pc = IF ins.op = "JAL" THEN (m.pc + ins.imm) % M ELSE 2 * (((m.regs[ins.rs1] + ins.imm) % M) \div 2)]

RefBranch(m, ins) ==
  [m EXCEPT !.pc = (@ + (IF RefTaken(ins.op, m.regs[ins.rs1], m.regs[ins.rs2]) THEN ins.imm ELSE 4)) % M]

RefLoads(m, ins, i) ==
  LET a == (m.regs[ins.rs1] + ins.imm) % M
      n == Width[ins.op]
      v == RefLoad(m, a, n, i)
  IN  IF RefAborts(a, n) THEN RefAbort(m)
      ELSE IF ~RefReadable(m, a, n) THEN RefTrap(m)
      ELSE RefSet(RefSeen(m, a), ins.rd, IF ins.op \in {"LB", "LH"} /\ v >= 2 ^ (n * CHAR_BIT - 1)
                                         THEN v - 2 ^ (n * CHAR_BIT) ELSE v)

\* The sensor's value can be read, and then not written.
RefAmo(m, ins, i) ==
  LET a == m.regs[ins.rs1]
      old == RefLoad(m, a, 4, i)
  IN  IF RefAborts(a, 4) THEN RefAbort(m)
      ELSE IF ~RefReadable(m, a, 4) THEN RefTrap(m)
      ELSE IF a = SensorStart + 8 THEN RefTrap(RefSeen(m, a))
      ELSE RefStore(m, a, RefAlu(ins.op, old, m.regs[ins.rs2]) % M, 4, i, ins.rd, old)

RefCsr(m, ins) ==
  LET immediate == ins.op \in {"CSRRWI", "CSRRSI", "CSRRCI"}
      reads == ins.op \notin {"CSRRW", "CSRRWI"} /\ (IF immediate THEN ins.imm = 0 ELSE ins.rs1 = 0)
  IN  [RefSet(m, ins.rd, m.csr) EXCEPT
         !.csr = IF reads THEN @ ELSE RefAlu(ins.op, @, IF immediate THEN ins.imm % M ELSE m.regs[ins.rs1])]

RefStep(m, ins, i) ==
  CASE ins.op \in RegOps \cup ImmOps \cup MulOps \cup DivOps -> RefArithmetic(m, ins)
    [] ins.op \in {"JAL", "JALR"}                   -> RefJump(m, ins)
    [] ins.op \in BranchOps                         -> RefBranch(m, ins)
    [] ins.op \in {"LB", "LH", "LW", "LBU", "LHU"}  -> RefLoads(m, ins, i)
    [] ins.op \in {"SB", "SH", "SW"} ->
         RefStore(m, (m.regs[ins.rs1] + ins.imm) % M, m.regs[ins.rs2], Width[ins.op], i, 0, 0)
    [] ins.op \in AmoOps                            -> RefAmo(m, ins, i)
    [] ins.op \in CsrOps                            -> RefCsr(m, ins)

-----------------------------------------------------------------------------
MCInit == /\ ConcolicInit
          /\ todo \in Prefixes
          /\ free = 0
          /\ ref = [i \in Inputs |-> RefInit]

Follow(ins) ==
  /\ Execute(ins)
  /\ ref' = [i \in DOMAIN ref \cap traced' \cap concretised' |-> RefStep(ref[i], ins, i)]

MCNext == \/ /\ todo # <<>>
             /\ Follow(Head(todo))
             /\ todo' = Tail(todo)
             /\ UNCHANGED free
          \/ /\ todo = <<>> /\ free < MaxFree
             /\ \E ins \in Instrs : Follow(ins)
             /\ free' = free + 1
             /\ UNCHANGED todo

MCSpec == MCInit /\ [][MCNext]_<<concolicVars, todo, free, ref>>

-----------------------------------------------------------------------------
\* For every input that satisfies the traced conditions and agrees with the current
\* one on the concretised values, the symbolic part of each register is what the
\* machine computes for that input: no instruction loses the expression, extends it
\* wrongly, divides by a zero that was not traced, or keeps a value in x0; and the
\* concrete part is that of the current input.
RegistersAreFaithful ==
  \A r \in DOMAIN regs :
    /\ regs[r].at[0] = regs[r].at[current]
    /\ \A i \in DOMAIN ref : regs[r].at[i] = ref[i].regs[r]

\* The same, for the same inputs, of each byte of memory and each register of the
\* control peripheral: what stores of bytes, halves and words, atomic operations
\* and make_symbolic leave behind.
MemoryIsFaithful ==
  \A i \in DOMAIN ref :
    /\ \A b \in DOMAIN mem : mem[b].at[i] = ref[i].mem[b] /\ mem[b].at[0] = mem[b].at[current]
    /\ \A k \in 0 .. 2 : ctrl[k] = RefWord(ref[i], CtrlStart + 4 * k, 4)
    /\ sensor.lower = RefWord(ref[i], SensorStart, 4) /\ sensor.upper = RefWord(ref[i], SensorStart + 4, 4)

\* Input i has taken the path of the simulator: the same branches, traps and end,
\* the same CSR and as many reads of the sensor.
Follows(i) == /\ i \in DOMAIN ref
              /\ ref[i].pc = pc /\ ref[i].status = status
              /\ ref[i].csr = mscratch /\ ref[i].nread = sensor.nread

\* The traced conditions and the concretised values fix the path.  An input that
\* satisfies the conditions leaves the path only where an instruction used the
\* concrete part alone of a value on which the input differs: a jump target, an
\* address, a CSR or a device register.  The trace does not say where; if there was
\* no such value, every solution of the conditions takes the path, and the current
\* input always does.
PathIsDetermined ==
  /\ Follows(current)
  /\ \A i \in traced : Follows(i) \/ i \notin concretised
=============================================================================
