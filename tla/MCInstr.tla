------------------------------ MODULE MCInstr ------------------------------
(***************************************************************************)
(* The decoder against two references: the table of encodings, for 32 bit  *)
(* words; the table of the compressed extension in the RISC-V manual, for  *)
(* every 16 bit word.  A state is a word; it is chosen in two steps, so    *)
(* that TLC's workers share the work.                                      *)
(***************************************************************************)
EXTENDS Instr

CONSTANT Rs2s           \* the rs2 fields of the 32 bit words that are tried

VARIABLES word,         \* a 32 bit word
          half          \* a 16 bit word, -1 before one is chosen

Archs == {"RV32", "RV64"}

\* Every opcode the switch of decode_normal has a case for, and two it has not.
Opcodes == {OP[x] : x \in DOMAIN OP} \cup {FP[x] : x \in DOMAIN FP} \cup {11, 127}

WordInit == /\ word \in {RFormat(o, 0, 0, 0, 0, 0) : o \in Opcodes}
            /\ half = -1

\* The opcodes that have a funct field in the bits of funct7; the others have an
\* immediate there, or only funct2 in the lowest bits.
Funct7s(opcode) ==
  IF opcode \in {OP.ADDI, OP.ADDIW, OP.ADD, OP.ADDW, OP.AMO, OP.ECALL, FP.FADD_S}
  THEN 0 .. 127 ELSE {0, 1, 2, 3, 32, 127}

\* rd and rs1 matter to the encodings only by being zero.
ChooseWord == /\ word = RFormat(word.opcode, 0, 0, 0, 0, 0) /\ half = -1
              /\ \E f7 \in Funct7s(word.opcode), f3 \in 0 .. 7, r2 \in Rs2s, x \in {<<0, 0>>, <<0, 1>>, <<1, 0>>} :
                   word' = RFormat(word.opcode, f3, f7, x[1], x[2], r2)
              /\ UNCHANGED half

ChooseHalf == /\ word = RFormat(11, 0, 0, 0, 0, 0) /\ half < 256
              /\ half' \in IF half = -1 THEN 0 .. 255 ELSE {half + 256 * i : i \in 1 .. 255}
              /\ UNCHANGED word

WordNext == ChooseWord \/ ChooseHalf

-----------------------------------------------------------------------------
\* The number whose bits from[1], from[2], ... are the bits high .. low of n,
\* in the notation of the manual: nzuimm[5:4|9:6|2|3] in bits 12:5 is
\* Scatter(n, 12, <<5, 4, 9, 8, 7, 6, 2, 3>>).
Sum(f) == LET g[i \in 0 .. Len(f)] == IF i = 0 THEN 0 ELSE f[i] + g[i - 1] IN g[Len(f)]
Scatter(n, high, to) ==
  Sum([i \in 1 .. Len(to) |-> ((n \div 2 ^ (high + 1 - i)) % 2) * 2 ^ to[i]])

\* The immediate that has its sign in bit 12, of weight sign, its rest below.
SignedScatter(n, sign, high, to) ==
  Scatter(n, high, to) - ((n \div 2 ^ 12) % 2) * 2 ^ sign

\* The table of the manual: when a row applies, the instruction that it stands
\* for and this instruction's operands.
Rvc(n, arch) ==
  LET q == n % 4
      f == n \div 2 ^ 13
      b == (n \div 2 ^ 12) % 2
      rd == (n \div 2 ^ 7) % 32                     \* rd/rs1
      r2 == (n \div 2 ^ 2) % 32                     \* rs2
      s1 == 8 + (rd % 8)                             \* rd'/rs1' in bits 9:7
      s2 == 8 + (r2 % 8)                             \* rd'/rs2' in bits 4:2
      f2 == rd \div 8                               \* bits 11:10
      g2 == r2 \div 8                               \* bits 6:5
      rv32 == arch = "RV32"
      imm == SignedScatter(n, 5, 6, <<4, 3, 2, 1, 0>>)
      sh == b * 32 + r2
      lw == Scatter(n, 12, <<5, 4, 3>>) + Scatter(n, 6, <<2, 6>>)
      ld == Scatter(n, 12, <<5, 4, 3>>) + Scatter(n, 6, <<7, 6>>)
      lwsp == b * 32 + Scatter(n, 6, <<4, 3, 2, 7, 6>>)
      ldsp == b * 32 + Scatter(n, 6, <<4, 3, 8, 7, 6>>)
      swsp == Scatter(n, 12, <<5, 4, 3, 2, 7, 6>>)
      sdsp == Scatter(n, 12, <<5, 4, 3, 8, 7, 6>>)
      jump == SignedScatter(n, 11, 11, <<4, 9, 8, 10, 6, 7, 3, 2, 1, 5>>)
      branch == SignedScatter(n, 8, 11, <<4, 3>>) + Scatter(n, 6, <<7, 6, 2, 1, 5>>)
      spn == Scatter(n, 12, <<5, 4, 9, 8, 7, 6, 2, 3>>)
      sp16 == SignedScatter(n, 9, 6, <<4, 6, 8, 7, 5>>)
      lui == imm * 2 ^ 12
  IN  CASE q = 0 ->
             {<<f = 0 /\ spn # 0,       "ADDI", <<s2, 2, spn>>>>,
              <<f = 1,                  "FLD",  <<s2, s1, ld>>>>,
              <<f = 2,                  "LW",   <<s2, s1, lw>>>>,
              <<f = 3 /\ rv32,          "FLW",  <<s2, s1, lw>>>>,
              <<f = 3 /\ ~rv32,         "LD",   <<s2, s1, ld>>>>,
              <<f = 5,                  "FSD",  <<s1, s2, ld>>>>,
              <<f = 6,                  "SW",   <<s1, s2, lw>>>>,
              <<f = 7 /\ rv32,          "FSW",  <<s1, s2, lw>>>>,
              <<f = 7 /\ ~rv32,         "SD",   <<s1, s2, ld>>>>}
        [] q = 1 ->
             {<<f = 0,                  "ADDI", <<rd, rd, imm>>>>,
              <<f = 1 /\ rv32,          "JAL",  <<1, jump>>>>,
              <<f = 1 /\ ~rv32 /\ rd # 0, "ADDIW", <<rd, rd, imm>>>>,
              <<f = 2,                  "ADDI", <<rd, 0, imm>>>>,
              <<f = 3 /\ rd = 2 /\ sp16 # 0, "ADDI", <<2, 2, sp16>>>>,
              <<f = 3 /\ rd # 2 /\ imm # 0,  "LUI",  <<rd, lui>>>>,
              <<f = 4 /\ f2 = 0 /\ (sh < 32 \/ ~rv32), "SRLI", <<s1, s1, sh>>>>,
              <<f = 4 /\ f2 = 1 /\ (sh < 32 \/ ~rv32), "SRAI", <<s1, s1, sh>>>>,
              <<f = 4 /\ f2 = 2,        "ANDI", <<s1, s1, imm>>>>,
              <<f = 4 /\ f2 = 3 /\ b = 0 /\ g2 = 0, "SUB",  <<s1, s1, s2>>>>,
              <<f = 4 /\ f2 = 3 /\ b = 0 /\ g2 = 1, "XOR",  <<s1, s1, s2>>>>,
              <<f = 4 /\ f2 = 3 /\ b = 0 /\ g2 = 2, "OR",   <<s1, s1, s2>>>>,
              <<f = 4 /\ f2 = 3 /\ b = 0 /\ g2 = 3, "AND",  <<s1, s1, s2>>>>,
              <<f = 4 /\ f2 = 3 /\ b = 1 /\ g2 = 0 /\ ~rv32, "SUBW", <<s1, s1, s2>>>>,
              <<f = 4 /\ f2 = 3 /\ b = 1 /\ g2 = 1 /\ ~rv32, "ADDW", <<s1, s1, s2>>>>,
              <<f = 5,                  "JAL",  <<0, jump>>>>,
              <<f = 6,                  "BEQ",  <<s1, 0, branch>>>>,
              <<f = 7,                  "BNE",  <<s1, 0, branch>>>>}
        [] q = 2 ->
             {<<f = 0 /\ (sh < 32 \/ ~rv32), "SLLI", <<rd, rd, sh>>>>,
              <<f = 1,                  "FLD",  <<rd, 2, ldsp>>>>,
              <<f = 2 /\ rd # 0,        "LW",   <<rd, 2, lwsp>>>>,
              <<f = 3 /\ rv32,          "FLW",  <<rd, 2, lwsp>>>>,
              <<f = 3 /\ ~rv32 /\ rd # 0, "LD", <<rd, 2, ldsp>>>>,
              <<f = 4 /\ b = 0 /\ r2 = 0 /\ rd # 0, "JALR", <<0, rd, 0>>>>,
              <<f = 4 /\ b = 0 /\ r2 # 0,           "ADD",  <<rd, 0, r2>>>>,
              <<f = 4 /\ b = 1 /\ r2 = 0 /\ rd = 0, "EBREAK", <<>>>>,
              <<f = 4 /\ b = 1 /\ r2 = 0 /\ rd # 0, "JALR", <<1, rd, 0>>>>,
              <<f = 4 /\ b = 1 /\ r2 # 0,           "ADD",  <<rd, rd, r2>>>>,
              <<f = 5,                  "FSD",  <<2, r2, sdsp>>>>,
              <<f = 6,                  "SW",   <<2, r2, swsp>>>>,
              <<f = 7 /\ rv32,          "FSW",  <<2, r2, swsp>>>>,
              <<f = 7 /\ ~rv32,         "SD",   <<2, r2, sdsp>>>>}

\* The words the decoder treats in a way of its own: the canonical NOP, which
\* becomes ADD x0, x0, x0; C.ADD with rd = x0, a HINT, which becomes EBREAK;
\* C.SUBW and C.ADDW, which are reserved in RV32 but left to exec_step to refuse.
OwnWay(n, arch) ==
  \/ n = 1
  \/ n % 4 = 2 /\ n \div 2 ^ 12 = 9 /\ (n \div 2 ^ 7) % 32 = 0
  \/ arch = "RV32" /\ n % 4 = 1 /\ n \div 2 ^ 10 = 39 /\ (n \div 2 ^ 6) % 2 = 0

-----------------------------------------------------------------------------
\* decode_normal, which finds its way through nested switches on opcode, funct3,
\* funct7, funct5, funct2 and rs2 and matches one encoding at the end, returns
\* exactly the instruction whose mask and encoding the word has, and UNDEF when
\* no instruction of the table does: no switch leads past an encoding, no two
\* encodings share a word, in RV32 and in RV64.
DecodeIsExact ==
  \A arch \in Archs :
    {decode_normal(word, arch)} \ {U} =
       {x \in Mappings : EncodingFor(x, arch).opcode = word.opcode /\ Matches(word, EncodingFor(x, arch))}

\* decode_and_expand_compressed turns every 16 bit word into the instruction that
\* the manual says it stands for, with the same registers and the same immediate
\* (reassembled by C_*_IMM, taken apart again by InstructionFactory and read
\* back by the accessors of the 32 bit word), and returns UNDEF exactly for the
\* reserved words; in RV32 the word it leaves behind decodes to that instruction.
CompressedIsFaithful ==
  half >= 0 /\ half % 4 # 3 =>
    \A arch \in Archs :
      LET e == decode_and_expand_compressed(half, arch) IN
      /\ OwnWay(half, arch) \/
           {row \in Rvc(half, arch) : row[1]} =
             (IF e.op = U THEN {} ELSE {<<TRUE, e.op, Operands(e.op, e.word)>>})
      /\ arch = "RV32" /\ e.op # U => e.word \in Words /\ decode_normal(e.word, arch) = e.op
============================================================================
