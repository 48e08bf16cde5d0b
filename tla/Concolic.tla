------------------------------ MODULE Concolic ------------------------------
(***************************************************************************)
(* The concolic data path: how the instructions of core/rv32/iss.cpp carry *)
(* values that have a concrete and a symbolic part through the registers,  *)
(* the memory interface (mem.h), the bus, the symbolic memory, the control *)
(* peripheral (symbolic_ctrl.cpp) and the sensor (symex_sensor.cpp), and   *)
(* what they add to the path condition.                                    *)
(*                                                                         *)
(* A symbolic expression is modelled by its meaning, the value that it has *)
(* for every input.  Point 0 of a value is its concrete part.  The model   *)
(* keeps the proportions of the machine, four bytes to the word, and       *)
(* scales the byte to CHAR_BIT bits.                                       *)
(***************************************************************************)
EXTENDS Integers, Sequences

CONSTANTS CHAR_BIT,       \* bits of a byte
          ShamtBits,      \* bits of a shift amount, 5 in RV32
          NumRegs,        \* registers x0, x1, ...
          Assignments,    \* the inputs: what each gives to the symbolic names
          MaxReads,       \* how many values of the sensor an input has
          MemSize,        \* the memory starts at address 0
          CtrlStart,      \* SymbolicCTRL
          SensorStart,    \* SymbolicSensor
          DeviceSize,     \* bytes of the bus that either occupies
          TrapVector,     \* where a trap leads
          Instrs          \* the instructions that software may execute

XLEN == 4 * CHAR_BIT

ASSUME WidthsAssumption == /\ CHAR_BIT \in Nat \ {0}
                           /\ ShamtBits \in 1 .. XLEN
                           /\ 2 ^ ShamtBits = XLEN

\* The law of exponents for the widths that occur; the provers know of no power
\* but those of numerals.
ASSUME ExponentsAssumption ==
  \A n \in 0 .. 2 * XLEN : /\ 2 ^ n \in Nat \ {0}
                          /\ \A k \in 0 .. n : 2 ^ n = 2 ^ k * 2 ^ (n - k)

\* The symex platform: memory, then the control peripheral, then the sensor.
ASSUME LayoutAssumption ==
  /\ NumRegs \in Nat \ {0} /\ MemSize \in Nat /\ CtrlStart \in Nat /\ SensorStart \in Nat /\ DeviceSize \in Nat
  /\ CtrlStart % 4 = 0 /\ SensorStart % 4 = 0 /\ 12 <= DeviceSize
  /\ MemSize < CtrlStart /\ CtrlStart + DeviceSize <= SensorStart /\ SensorStart + DeviceSize <= 2 ^ XLEN
  /\ TrapVector \in 0 .. 2 ^ XLEN - 1

\* An input gives a value to every byte that may be made symbolic and to every
\* value of the sensor.
ASSUME InputsAssumption ==
  /\ MaxReads \in Nat
  /\ Assignments \in Seq([memory : [0 .. MemSize - 1 -> [1 .. MemSize -> 0 .. 2 ^ CHAR_BIT - 1]],
                          sensor : [1 .. MaxReads -> 0 .. 2 ^ XLEN - 1]])

Inputs == 1 .. Len(Assignments)
Points == 0 .. Len(Assignments)
Regs == 0 .. NumRegs - 1

VARIABLES
  regs,         \* RegFile::regs
  mem,          \* SymbolicMemory::memory, by byte
  pc,
  mscratch,     \* stands for the registers that get_csr_value reads back
  ctrl,         \* SymbolicCTRL: the words addr, size, ctrl
  sensor,       \* SymbolicSensor: lower_bound, upper_bound, nread
  status,       \* "running", "exited" by software, "error" reported, "aborted" by an exception
  current,      \* the input of this execution
  traced,        \* the inputs that satisfy every traced condition
  concretised   \* the inputs that agree with the current one on every value
                \* of which the code used the concrete part alone

concolicVars == <<regs, mem, pc, mscratch, ctrl, sensor, status, current, traced, concretised>>

-----------------------------------------------------------------------------
(* clover::ConcolicValue *)

Value(w, F(_)) == [width |-> w, at |-> [p \in Points |-> F(p) % 2 ^ w]]

Const(w, n) == LET F(p) == n IN Value(w, F)
BVC(n) == Const(XLEN, n)

Unary(v, w, F(_)) == LET G(p) == F(v.at[p]) IN Value(w, G)
Binary(a, b, w, F(_, _)) == LET G(p) == F(a.at[p], b.at[p]) IN Value(w, G)

ToInt(n, w) == IF n < 2 ^ (w - 1) THEN n ELSE n - 2 ^ w
Bool(b) == IF b THEN 1 ELSE 0
Abs(n) == IF n < 0 THEN -n ELSE n

\* Bit k of a number, the sum of e[1], ..., e[n], and the operations on the bits.
Bit(n, k) == (n \div 2 ^ k) % 2
SumOf(e, n) == LET g[k \in 0 .. n] == IF k = 0 THEN 0 ELSE e[k] + g[k - 1] IN g[n]
BitAnd(x, y) == SumOf([k \in 1 .. XLEN |-> Bit(x, k - 1) * Bit(y, k - 1) * 2 ^ (k - 1)], XLEN)
BitOr(x, y) == SumOf([k \in 1 .. XLEN |-> Bool(Bit(x, k - 1) + Bit(y, k - 1) > 0) * 2 ^ (k - 1)], XLEN)
BitXor(x, y) == SumOf([k \in 1 .. XLEN |-> ((Bit(x, k - 1) + Bit(y, k - 1)) % 2) * 2 ^ (k - 1)], XLEN)

\* The quotient of machine division; inputs that divide by zero have none, any
\* number will do.
Quotient(x, y) == IF y = 0 THEN 0
                  ELSE IF (x < 0) # (y < 0) THEN -(Abs(x) \div Abs(y)) ELSE Abs(x) \div Abs(y)
Remainder(x, y) == x - y * Quotient(x, y)

zext(v, w) == LET F(n) == n IN Unary(v, w, F)
sext(v, w) == LET F(n) == ToInt(n, v.width) IN Unary(v, w, F)
extract(v, off, w) == LET F(n) == n \div 2 ^ off IN Unary(v, w, F)
concat(high, low) == LET F(x, y) == x * 2 ^ low.width + y
                     IN  Binary(high, low, high.width + low.width, F)
select(cond, a, b) == LET G(p) == IF cond.at[p] = 1 THEN a.at[p] ELSE b.at[p]
                      IN  Value(a.width, G)

add(a, b)  == LET F(x, y) == x + y IN Binary(a, b, a.width, F)
sub(a, b)  == LET F(x, y) == x - y IN Binary(a, b, a.width, F)
mul(a, b)  == LET F(x, y) == ToInt(x, a.width) * ToInt(y, a.width) IN Binary(a, b, a.width, F)
bxor(a, b) == LET F(x, y) == BitXor(x, y) IN Binary(a, b, a.width, F)
bor(a, b)  == LET F(x, y) == BitOr(x, y) IN Binary(a, b, a.width, F)
band(a, b) == LET F(x, y) == BitAnd(x, y) IN Binary(a, b, a.width, F)
lshl(a, b) == LET F(x, y) == x * 2 ^ y IN Binary(a, b, a.width, F)
lshr(a, b) == LET F(x, y) == x \div 2 ^ y IN Binary(a, b, a.width, F)
ashr(a, b) == LET F(x, y) == ToInt(x, a.width) \div 2 ^ y IN Binary(a, b, a.width, F)
udiv(a, b) == LET F(x, y) == Quotient(x, y) IN Binary(a, b, a.width, F)
urem(a, b) == LET F(x, y) == Remainder(x, y) IN Binary(a, b, a.width, F)
sdiv(a, b) == LET F(x, y) == Quotient(ToInt(x, a.width), ToInt(y, a.width)) IN Binary(a, b, a.width, F)
srem(a, b) == LET F(x, y) == Remainder(ToInt(x, a.width), ToInt(y, a.width)) IN Binary(a, b, a.width, F)
eq(a, b)   == LET F(x, y) == Bool(x = y) IN Binary(a, b, 1, F)
ne(a, b)   == LET F(x, y) == Bool(x # y) IN Binary(a, b, 1, F)
ult(a, b)  == LET F(x, y) == Bool(x < y) IN Binary(a, b, 1, F)
uge(a, b)  == LET F(x, y) == Bool(x >= y) IN Binary(a, b, 1, F)
slt(a, b)  == LET F(x, y) == Bool(ToInt(x, a.width) < ToInt(y, a.width)) IN Binary(a, b, 1, F)
sge(a, b)  == LET F(x, y) == Bool(ToInt(x, a.width) >= ToInt(y, a.width)) IN Binary(a, b, 1, F)

\* getSymbolicBytes, getSymbolicWord: the concrete part is the current input's.
Symbolic(w, F(_)) == LET G(p) == F(IF p = 0 THEN current ELSE p) IN Value(w, G)

concrete(v) == v.at[0]
Agreeing(v) == {i \in Inputs : v.at[i] = concrete(v)}

-----------------------------------------------------------------------------
(* Registers, and what every instruction ends with. *)

\* RegFile::write, and the reset of x0 at the end of run_step.
Written(rd, v) == [regs EXCEPT ![rd] = zext(v, XLEN), ![0] = BVC(0)]

\* RegFile::shamt
shamt(r) == zext(extract(regs[r], 0, ShamtBits), XLEN)

\* Compressed instructions, which expand to these, are left out: they advance by 2.
\* So is the fetch: instructions come from memory that is not symbolic.
NextPc == (pc + 4) % 2 ^ XLEN

\* track_and_trace_branch
Traced(cond) == traced \cap {i \in Inputs : cond.at[i] = concrete(cond)}

\* An instruction that only writes rd.
WriteRd(rd, v) ==
  /\ regs' = Written(rd, v)
  /\ pc' = NextPc
  /\ UNCHANGED <<mem, mscratch, ctrl, sensor, status, current, traced, concretised>>

-----------------------------------------------------------------------------
(* Arithmetic *)

RegOp(op, a, r) ==
  LET b == regs[r] IN
  CASE op = "ADD" -> add(a, b)  [] op = "SUB"  -> sub(a, b)  [] op = "XOR" -> bxor(a, b)
    [] op = "OR"  -> bor(a, b)  [] op = "AND"  -> band(a, b)
    [] op = "SLT" -> slt(a, b)  [] op = "SLTU" -> ult(a, b)
    [] op = "SLL" -> lshl(a, shamt(r)) [] op = "SRL" -> lshr(a, shamt(r)) [] op = "SRA" -> ashr(a, shamt(r))

ImmOp(op, a, imm) ==
  CASE op = "ADDI" -> add(a, imm) [] op = "SLTI" -> slt(a, imm) [] op = "SLTIU" -> ult(a, imm)
    [] op = "XORI" -> bxor(a, imm) [] op = "ORI" -> bor(a, imm) [] op = "ANDI" -> band(a, imm)
    [] op = "SLLI" -> lshl(a, imm) [] op = "SRLI" -> lshr(a, imm) [] op = "SRAI" -> ashr(a, imm)
    [] op = "LUI"  -> imm          [] op = "AUIPC" -> add(BVC(pc), imm)

\* The product in twice the width, and the half of it that rd receives.
MulOp(op, a, b) ==
  LET Wide(v, signed) == IF signed THEN sext(v, 2 * XLEN) ELSE zext(v, 2 * XLEN)
      ans == mul(Wide(a, op # "MULHU"), Wide(b, op \in {"MUL", "MULH"}))
  IN  extract(ans, IF op = "MUL" THEN 0 ELSE XLEN, XLEN)

RegOps == {"ADD", "SUB", "XOR", "OR", "AND", "SLT", "SLTU", "SLL", "SRL", "SRA"}
ImmOps == {"ADDI", "SLTI", "SLTIU", "XORI", "ORI", "ANDI", "SLLI", "SRLI", "SRAI", "LUI", "AUIPC"}
MulOps == {"MUL", "MULH", "MULHU", "MULHSU"}
DivOps == {"DIV", "DIVU", "REM", "REMU"}

Arithmetic(ins) ==
  \/ ins.op \in RegOps /\ WriteRd(ins.rd, RegOp(ins.op, regs[ins.rs1], ins.rs2))
  \/ ins.op \in ImmOps /\ WriteRd(ins.rd, ImmOp(ins.op, regs[ins.rs1], BVC(ins.imm)))
  \/ ins.op \in MulOps /\ WriteRd(ins.rd, MulOp(ins.op, regs[ins.rs1], regs[ins.rs2]))

\* DIV and its like for a divisor that is not zero; the smallest number divided
\* by -1 is selected apart.
DivOp(op, a, b) ==
  LET overflow == band(eq(a, BVC(2 ^ (XLEN - 1))), eq(b, BVC(2 ^ XLEN - 1)))
  IN  CASE op = "DIV"  -> select(overflow, a, sdiv(a, b))
        [] op = "REM"  -> select(overflow, BVC(0), srem(a, b))
        [] op = "DIVU" -> udiv(a, b)
        [] op = "REMU" -> urem(a, b)

\* What rd receives; zero is the condition that the divisor is.
Divided(op, a, b, zero) ==
  IF concrete(zero) = 0 THEN DivOp(op, a, b)
  ELSE IF op \in {"DIV", "DIVU"} THEN BVC(2 ^ XLEN - 1) ELSE a

\* Mutant: the decision is not traced.
DivideUntraced(ins) ==
  /\ ins.op \in DivOps
  /\ WriteRd(ins.rd, Divided(ins.op, regs[ins.rs1], regs[ins.rs2], eq(regs[ins.rs2], BVC(0))))

\* Whether the divisor is zero is decided by its concrete part, and traced.
Divide(ins) ==
  LET zero == eq(regs[ins.rs2], BVC(0))
  IN  /\ ins.op \in DivOps
      /\ regs' = Written(ins.rd, Divided(ins.op, regs[ins.rs1], regs[ins.rs2], zero))
      /\ traced' = Traced(zero)
      /\ pc' = NextPc
      /\ UNCHANGED <<mem, mscratch, ctrl, sensor, status, current, concretised>>

-----------------------------------------------------------------------------
(* Control flow *)

\* The target of JALR is that of the concrete register.
Jump(ins) ==
  /\ ins.op \in {"JAL", "JALR"}
  /\ LET base == IF ins.op = "JAL" THEN BVC(pc) ELSE regs[ins.rs1]
         target == (concrete(base) + ins.imm) % 2 ^ XLEN
     IN  /\ pc' = IF ins.op = "JAL" THEN target ELSE target - (target % 2)
         /\ concretised' = concretised \cap Agreeing(base)
  /\ regs' = Written(ins.rd, BVC(NextPc))
  /\ UNCHANGED <<mem, mscratch, ctrl, sensor, status, current, traced>>

BranchOps == {"BEQ", "BNE", "BLT", "BGE", "BLTU", "BGEU"}

Condition(op, a, b) ==
  CASE op = "BEQ" -> eq(a, b)  [] op = "BNE" -> ne(a, b)   [] op = "BLT"  -> slt(a, b)
    [] op = "BGE" -> sge(a, b) [] op = "BLTU" -> ult(a, b) [] op = "BGEU" -> uge(a, b)

\* Mutant: a branch that is not taken is not traced.
BranchTracedIfTaken(ins) ==
  /\ ins.op \in BranchOps
  /\ LET res == Condition(ins.op, regs[ins.rs1], regs[ins.rs2])
     IN  /\ pc' = IF concrete(res) = 1 THEN (pc + ins.imm) % 2 ^ XLEN ELSE NextPc
         /\ traced' = IF concrete(res) = 1 THEN Traced(res) ELSE traced
  /\ UNCHANGED <<regs, mem, mscratch, ctrl, sensor, status, current, concretised>>

Branch(ins) ==
  /\ ins.op \in BranchOps
  /\ LET res == Condition(ins.op, regs[ins.rs1], regs[ins.rs2])
     IN  /\ pc' = IF concrete(res) = 1 THEN (pc + ins.imm) % 2 ^ XLEN ELSE NextPc
         /\ traced' = Traced(res)
  /\ UNCHANGED <<regs, mem, mscratch, ctrl, sensor, status, current, concretised>>

-----------------------------------------------------------------------------
(* Transactions.  Their result is "ok", "fault" for a response that makes  *)
(* _do_transaction raise a trap, or "throw" for any other exception.       *)

InDevice(a, start) == start <= a /\ a < start + DeviceSize

\* A word w, the bytes from off on replaced by the n lowest of v.
Patched(w, off, v, n) ==
  LET unit == 2 ^ (CHAR_BIT * off)
      size == 2 ^ (CHAR_BIT * n)
  IN  w + ((v % size) - ((w \div unit) % size)) * unit

\* SymbolicMemory::read_data: the bytes from a on, the lowest first.
LoadBytes(a, n) ==
  CASE n = 1 -> mem[a]
    [] n = 2 -> concat(mem[a + 1], mem[a])
    [] n = 4 -> concat(concat(mem[a + 3], mem[a + 2]), concat(mem[a + 1], mem[a]))

\* Mutant: a store writes the whole of a value that is wider than the access.
StoreAllBytes(a, v, n) ==
  [b \in DOMAIN mem |-> IF b \in a .. a + 3
                        THEN extract(v, (b - a) * CHAR_BIT, CHAR_BIT) ELSE mem[b]]

\* SymbolicMemory::write_data: v may be wider than the n bytes that are stored.
StoreBytes(a, v, n) ==
  [b \in DOMAIN mem |-> IF b \in a .. a + n - 1
                        THEN extract(v, (b - a) * CHAR_BIT, CHAR_BIT) ELSE mem[b]]

\* SymbolicSensor::transport, read command.
SensorRead(off, n) ==
  LET span == sensor.upper - sensor.lower
      Name(i) == Assignments[i].sensor[sensor.nread + 1]
      sval == add(urem(Symbolic(XLEN, Name), BVC(span)), BVC(sensor.lower))
  IN  IF n # 4 \/ off # 8 \/ span <= 0
      THEN [result |-> "fault", sensor |-> sensor]
      ELSE [result |-> "ok", sensor |-> [sensor EXCEPT !.nread = @ + 1], value |-> sval]

\* SimpleBus::transport and the target's answer to a read of n bytes.
Read(a, n) ==
  LET Answer(r, v) == [result |-> r, sensor |-> sensor, value |-> v]
      Fail(r) == [result |-> r, sensor |-> sensor]
  IN  CASE a < MemSize -> IF a + n > MemSize THEN Fail("fault") ELSE Answer("ok", LoadBytes(a, n))
        [] InDevice(a, SensorStart) -> SensorRead(a - SensorStart, n)
        [] InDevice(a, CtrlStart) ->
             LET off == a - CtrlStart IN
             IF off >= 12 THEN Fail("throw")
             ELSE Answer("ok", Const(n * CHAR_BIT, ctrl[off \div 4] \div 2 ^ (CHAR_BIT * (off % 4))))
        [] OTHER -> Fail("fault")

\* A write that changes nothing.
Same == [result |-> "ok", mem |-> mem, ctrl |-> ctrl, sensor |-> sensor, status |-> status,
         agreeing |-> Inputs]

\* ISS::make_symbolic: n bytes of input, stored from a on.  Software makes at
\* least a byte symbolic, and memory: a is no address of a device.
make_symbolic(e, a, n) ==
  LET Byte(k) == LET Name(i) == Assignments[i].memory[a][k] IN Symbolic(CHAR_BIT, Name)
  IN  IF a + n > MemSize THEN [e EXCEPT !.result = "fault"]
      ELSE [e EXCEPT !.mem = [b \in DOMAIN mem |-> IF b \in a .. a + n - 1 THEN Byte(b - a + 1) ELSE mem[b]]]

\* SymbolicCTRL: the register is written, then its callback runs.
CtrlWrite(off, v, n) ==
  LET word == Patched(ctrl[off \div 4], off % 4, concrete(v), n)
      e == [Same EXCEPT !.ctrl[off \div 4] = word, !.agreeing = Agreeing(v)]
  IN  CASE off >= 12    -> [Same EXCEPT !.result = "throw"]
        [] off \div 4 = 0 -> e
        [] off \div 4 = 1 -> make_symbolic(e, ctrl[0], word)
        [] off \div 4 = 2 ->
             [e EXCEPT !.ctrl[2] = 0,
                       !.status = CASE word >= 2 ^ (XLEN - 1) -> "error"
                                    [] word \in 2 ^ (XLEN - 2) .. 2 ^ (XLEN - 1) - 1 -> "exited"
                                    [] OTHER -> @]

\* SymbolicSensor::transport, write command: the concrete bytes.
SensorWrite(off, v, n) ==
  CASE n = 4 /\ off = 0 -> [Same EXCEPT !.sensor.lower = concrete(v), !.agreeing = Agreeing(v)]
    [] n = 4 /\ off = 4 -> [Same EXCEPT !.sensor.upper = concrete(v), !.agreeing = Agreeing(v)]
    [] OTHER -> [Same EXCEPT !.result = "fault"]

Write(a, v, n) ==
  CASE a < MemSize -> IF a + n > MemSize THEN [Same EXCEPT !.result = "fault"]
                      ELSE [Same EXCEPT !.mem = StoreBytes(a, v, n)]
    [] InDevice(a, SensorStart) -> SensorWrite(a - SensorStart, v, n)
    [] InDevice(a, CtrlStart)   -> CtrlWrite(a - CtrlStart, v, n)
    [] OTHER -> [Same EXCEPT !.result = "fault"]

\* What follows a transaction: the next instruction, the handler, or nothing.
Proceed(result, newStatus) ==
  /\ pc' = CASE result = "ok" -> NextPc [] result = "fault" -> TrapVector [] result = "throw" -> pc
  /\ status' = IF result = "throw" THEN "aborted" ELSE newStatus

-----------------------------------------------------------------------------
(* Loads, stores and atomic operations. *)

Width == [LB |-> 1, LBU |-> 1, SB |-> 1, LH |-> 2, LHU |-> 2, SH |-> 2, LW |-> 4, SW |-> 4]

\* load_byte .. load_ubyte; a device answers with the width that it chose.
Extended(op, v) == IF op \in {"LBU", "LHU"} THEN zext(v, XLEN) ELSE sext(v, XLEN)

\* The address is concretised, and so is the alignment check on it.
Load(ins) ==
  /\ ins.op \in {"LB", "LH", "LW", "LBU", "LHU"}
  /\ LET addr == add(regs[ins.rs1], BVC(ins.imm))
         n == Width[ins.op]
         r == Read(concrete(addr), n)
     IN  /\ concretised' = concretised \cap Agreeing(addr)
         /\ IF concrete(addr) % n # 0 THEN Proceed("fault", status) /\ UNCHANGED <<regs, sensor>>
            ELSE /\ Proceed(r.result, status)
                 /\ regs' = IF r.result = "ok" THEN Written(ins.rd, Extended(ins.op, r.value)) ELSE regs
                 /\ sensor' = r.sensor
  /\ UNCHANGED <<mem, mscratch, ctrl, current, traced>>

Store(ins) ==
  /\ ins.op \in {"SB", "SH", "SW"}
  /\ LET addr == add(regs[ins.rs1], BVC(ins.imm))
         n == Width[ins.op]
         e == IF concrete(addr) % n # 0 THEN [Same EXCEPT !.result = "fault"]
              ELSE Write(concrete(addr), regs[ins.rs2], n)
     IN  /\ Proceed(e.result, e.status)
         /\ mem' = e.mem /\ ctrl' = e.ctrl /\ sensor' = e.sensor
         /\ concretised' = concretised \cap Agreeing(addr) \cap e.agreeing
  /\ UNCHANGED <<regs, mscratch, current, traced>>

AmoOps == {"AMOSWAP_W", "AMOADD_W", "AMOXOR_W", "AMOAND_W", "AMOOR_W",
           "AMOMIN_W", "AMOMINU_W", "AMOMAX_W", "AMOMAXU_W"}

AmoOp(op, a, b) ==
  CASE op = "AMOSWAP_W" -> b
    [] op = "AMOADD_W"  -> add(a, b)  [] op = "AMOXOR_W"  -> bxor(a, b)
    [] op = "AMOAND_W"  -> band(a, b) [] op = "AMOOR_W"   -> bor(a, b)
    [] op = "AMOMIN_W"  -> select(sge(a, b), b, a)
    [] op = "AMOMINU_W" -> select(uge(a, b), b, a)
    [] op = "AMOMAX_W"  -> select(sge(a, b), a, b)
    [] op = "AMOMAXU_W" -> select(uge(a, b), a, b)

\* execute_amo.  The sensor has no word that can be both read and written.
Amo(ins) ==
  /\ ins.op \in AmoOps
  /\ LET addr == regs[ins.rs1]
         r == IF concrete(addr) % 4 # 0 THEN [result |-> "fault", sensor |-> sensor]
              ELSE Read(concrete(addr), 4)
         e == IF r.result # "ok" THEN [Same EXCEPT !.result = r.result]
              ELSE Write(concrete(addr), AmoOp(ins.op, r.value, regs[ins.rs2]), 4)
     IN  /\ Proceed(e.result, e.status)
         /\ mem' = e.mem /\ ctrl' = e.ctrl /\ sensor' = r.sensor
         /\ regs' = IF e.result = "ok" THEN Written(ins.rd, r.value) ELSE regs
         /\ concretised' = concretised \cap Agreeing(addr) \cap e.agreeing
  /\ UNCHANGED <<mscratch, current, traced>>

-----------------------------------------------------------------------------
(* Control and status registers hold concrete values alone. *)

CsrOps == {"CSRRW", "CSRRS", "CSRRC", "CSRRWI", "CSRRSI", "CSRRCI"}

Csr(ins) ==
  LET immediate == ins.op \in {"CSRRWI", "CSRRSI", "CSRRCI"}
      operand == IF immediate THEN BVC(ins.imm) ELSE regs[ins.rs1]
      n == concrete(operand)
      write == ins.op \in {"CSRRW", "CSRRWI"} \/ (IF immediate THEN ins.imm # 0 ELSE ins.rs1 # 0)
  IN  /\ ins.op \in CsrOps
      /\ regs' = Written(ins.rd, BVC(mscratch))
      /\ mscratch' = CASE ~write -> mscratch
                       [] write /\ ins.op \in {"CSRRW", "CSRRWI"} -> n
                       [] write /\ ins.op \in {"CSRRS", "CSRRSI"} -> BitOr(mscratch, n)
                       [] write /\ ins.op \in {"CSRRC", "CSRRCI"} -> BitAnd(mscratch, 2 ^ XLEN - 1 - n)
      /\ concretised' = concretised \cap Agreeing(operand)
      /\ pc' = NextPc
      /\ UNCHANGED <<mem, ctrl, sensor, status, current, traced>>

-----------------------------------------------------------------------------
ConcolicInit ==
        /\ regs = [r \in Regs |-> BVC(0)]
        /\ mem = [b \in 0 .. MemSize - 1 |-> Const(CHAR_BIT, 0)]
        /\ pc = 0
        /\ mscratch = 0
        /\ ctrl = [r \in 0 .. 2 |-> 0]
        /\ sensor = [lower |-> 0, upper |-> 0, nread |-> 0]
        /\ status = "running"
        /\ current \in Inputs
        /\ traced = Inputs
        /\ concretised = Inputs

\* The instructions, and what their encoding says of the fields: a shift amount
\* has five bits in RV32.
Ops == RegOps \cup ImmOps \cup MulOps \cup DivOps \cup {"JAL", "JALR"} \cup BranchOps \cup DOMAIN Width
         \cup AmoOps \cup CsrOps
Instructions ==
  {ins \in [op : Ops, rd : Regs, rs1 : Regs, rs2 : Regs, imm : Int] :
     ins.op \in {"SLLI", "SRLI", "SRAI"} => ins.imm \in 0 .. XLEN - 1}

ASSUME InstrsAssumption == Instrs \subseteq Instructions

\* One instruction; ISS::run stops when status does.  MaxReads bounds the values
\* that an execution takes from the sensor.
Execute(ins) ==
  /\ status = "running"
  /\ sensor.nread < MaxReads
  /\ \/ Arithmetic(ins)
     \/ Divide(ins)
     \/ Jump(ins)
     \/ Branch(ins)
     \/ Load(ins)
     \/ Store(ins)
     \/ Amo(ins)
     \/ Csr(ins)
=============================================================================
