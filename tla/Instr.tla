------------------------------- MODULE Instr -------------------------------
(***************************************************************************)
(* The instruction decoder (core/common/instr.cpp, instr.h): encodings,    *)
(* immediates, decode_normal and the expansion of compressed instructions. *)
(*                                                                         *)
(* A 32 bit word is the record of the six fields into which the R format   *)
(* divides it, so every field accessor of Instruction is a selection from  *)
(* or an arithmetic combination of these; a 16 bit word is a number.       *)
(***************************************************************************)
EXTENDS Integers, Sequences

Words == [opcode : 0 .. 127, rd : 0 .. 31, funct3 : 0 .. 7,
          rs1 : 0 .. 31, rs2 : 0 .. 31, funct7 : 0 .. 127]

-----------------------------------------------------------------------------
(* Field accessors of 32 bit words. *)

funct2(w) == w.funct7 % 4
funct5(w) == w.funct7 \div 4
funct6(w) == w.funct7 \div 2
funct12(w) == w.funct7 * 32 + w.rs2
shamt(w) == funct12(w) % 64

\* The arithmetic shift to the right that extends the sign of a w bit number.
Signed(v, w) == IF v < 2 ^ (w - 1) THEN v ELSE v - 2 ^ w

I_imm(w) == Signed(funct12(w), 12)
S_imm(w) == Signed(w.funct7 * 32 + w.rd, 12)

B_imm(w) == Signed((w.funct7 \div 64) * 2 ^ 12 + (w.rd % 2) * 2 ^ 11
                     + (w.funct7 % 64) * 2 ^ 5 + (w.rd \div 2) * 2, 13)

\* Bits 31 to 12 of the word, as a number.
High20(w) == w.funct7 * 2 ^ 13 + w.rs2 * 2 ^ 8 + w.rs1 * 2 ^ 3 + w.funct3

U_imm(w) == Signed(High20(w), 20) * 2 ^ 12

J_imm(w) == Signed((w.funct7 \div 64) * 2 ^ 20 + (High20(w) % 2 ^ 8) * 2 ^ 12
                     + (w.rs2 % 2) * 2 ^ 11 + ((funct12(w) \div 2) % 2 ^ 10) * 2, 21)

-----------------------------------------------------------------------------
(* X_MASK and X_ENCODING: the masked fields with their values.             *)

OpOnly(op) == [opcode |-> op]
F3(op, f3) == [opcode |-> op, funct3 |-> f3]
F5(op, f3, f5) == [opcode |-> op, funct3 |-> f3, funct5 |-> f5]
F6(op, f3, f6) == [opcode |-> op, funct3 |-> f3, funct6 |-> f6]
F7(op, f3, f7) == [opcode |-> op, funct3 |-> f3, funct7 |-> f7]
Lr(op, f3, f5) == [opcode |-> op, funct3 |-> f3, funct5 |-> f5, rs2 |-> 0]
F12(op, f12) == [opcode |-> op, rd |-> 0, funct3 |-> 0, rs1 |-> 0, funct12 |-> f12]
Sfence(op, f7) == [opcode |-> op, rd |-> 0, funct3 |-> 0, funct7 |-> f7]
F2(op, f2) == [opcode |-> op, funct2 |-> f2]
Fp(op, f7) == [opcode |-> op, funct7 |-> f7]
FpRs2(op, f7, rs2) == [opcode |-> op, funct7 |-> f7, rs2 |-> rs2]
FpF3(op, f7, f3) == [opcode |-> op, funct7 |-> f7, rs2 |-> 0, funct3 |-> f3]

RV32IM ==
  [LUI |-> OpOnly(55), AUIPC |-> OpOnly(23), JAL |-> OpOnly(111), JALR |-> F3(103, 0),
   BEQ |-> F3(99, 0), BNE |-> F3(99, 1), BLT |-> F3(99, 4), BGE |-> F3(99, 5), BLTU |-> F3(99, 6),
   BGEU |-> F3(99, 7), LB |-> F3(3, 0), LH |-> F3(3, 1), LW |-> F3(3, 2), LBU |-> F3(3, 4),
   LHU |-> F3(3, 5), SB |-> F3(35, 0), SH |-> F3(35, 1), SW |-> F3(35, 2), ADDI |-> F3(19, 0),
   SLTI |-> F3(19, 2), SLTIU |-> F3(19, 3), XORI |-> F3(19, 4), ORI |-> F3(19, 6),
   ANDI |-> F3(19, 7), SLLI |-> F6(19, 1, 0), SRLI |-> F6(19, 5, 0), SRAI |-> F6(19, 5, 16),
   SLLI_32 |-> F7(19, 1, 0), SRLI_32 |-> F7(19, 5, 0), SRAI_32 |-> F7(19, 5, 32),
   ADD |-> F7(51, 0, 0), SUB |-> F7(51, 0, 32), SLL |-> F7(51, 1, 0), SLT |-> F7(51, 2, 0),
   SLTU |-> F7(51, 3, 0), XOR |-> F7(51, 4, 0), SRL |-> F7(51, 5, 0), SRA |-> F7(51, 5, 32),
   OR |-> F7(51, 6, 0), AND |-> F7(51, 7, 0), FENCE |-> F3(15, 0), FENCE_I |-> F3(15, 1),
   ECALL |-> F12(115, 0), EBREAK |-> F12(115, 1), CSRRW |-> F3(115, 1), CSRRS |-> F3(115, 2),
   CSRRC |-> F3(115, 3), CSRRWI |-> F3(115, 5), CSRRSI |-> F3(115, 6), CSRRCI |-> F3(115, 7),
   MUL |-> F7(51, 0, 1), MULH |-> F7(51, 1, 1), MULHSU |-> F7(51, 2, 1), MULHU |-> F7(51, 3, 1),
   DIV |-> F7(51, 4, 1), DIVU |-> F7(51, 5, 1), REM |-> F7(51, 6, 1), REMU |-> F7(51, 7, 1)]

RV32APriv ==
  [LR_W |-> Lr(47, 2, 2), SC_W |-> F5(47, 2, 3), AMOSWAP_W |-> F5(47, 2, 1),
   AMOADD_W |-> F5(47, 2, 0), AMOXOR_W |-> F5(47, 2, 4), AMOAND_W |-> F5(47, 2, 12),
   AMOOR_W |-> F5(47, 2, 8), AMOMIN_W |-> F5(47, 2, 16), AMOMAX_W |-> F5(47, 2, 20),
   AMOMINU_W |-> F5(47, 2, 24), AMOMAXU_W |-> F5(47, 2, 28), URET |-> F12(115, 2),
   SRET |-> F12(115, 258), MRET |-> F12(115, 770), WFI |-> F12(115, 261),
   SFENCE_VMA |-> Sfence(115, 9)]

RV64IMA ==
  [LWU |-> F3(3, 6), LD |-> F3(3, 3), SD |-> F3(35, 3), ADDIW |-> F3(27, 0),
   SLLIW |-> F7(27, 1, 0), SRLIW |-> F7(27, 5, 0), SRAIW |-> F7(27, 5, 32), ADDW |-> F7(59, 0, 0),
   SUBW |-> F7(59, 0, 32), SLLW |-> F7(59, 1, 0), SRLW |-> F7(59, 5, 0), SRAW |-> F7(59, 5, 32),
   MULW |-> F7(59, 0, 1), DIVW |-> F7(59, 4, 1), DIVUW |-> F7(59, 5, 1), REMW |-> F7(59, 6, 1),
   REMUW |-> F7(59, 7, 1), LR_D |-> Lr(47, 3, 2), SC_D |-> F5(47, 3, 3),
   AMOSWAP_D |-> F5(47, 3, 1), AMOADD_D |-> F5(47, 3, 0), AMOXOR_D |-> F5(47, 3, 4),
   AMOAND_D |-> F5(47, 3, 12), AMOOR_D |-> F5(47, 3, 8), AMOMIN_D |-> F5(47, 3, 16),
   AMOMAX_D |-> F5(47, 3, 20), AMOMINU_D |-> F5(47, 3, 24), AMOMAXU_D |-> F5(47, 3, 28)]

RV32F ==
  [FLW |-> F3(7, 2), FSW |-> F3(39, 2), FMADD_S |-> F2(67, 0), FMSUB_S |-> F2(71, 0),
   FNMADD_S |-> F2(79, 0), FNMSUB_S |-> F2(75, 0), FADD_S |-> Fp(83, 0), FSUB_S |-> Fp(83, 4),
   FMUL_S |-> Fp(83, 8), FDIV_S |-> Fp(83, 12), FSQRT_S |-> FpRs2(83, 44, 0),
   FSGNJ_S |-> F7(83, 0, 16), FSGNJN_S |-> F7(83, 1, 16), FSGNJX_S |-> F7(83, 2, 16),
   FMIN_S |-> F7(83, 0, 20), FMAX_S |-> F7(83, 1, 20), FCVT_W_S |-> FpRs2(83, 96, 0),
   FCVT_WU_S |-> FpRs2(83, 96, 1), FMV_X_W |-> FpF3(83, 112, 0), FEQ_S |-> F7(83, 2, 80),
   FLT_S |-> F7(83, 1, 80), FLE_S |-> F7(83, 0, 80), FCLASS_S |-> FpF3(83, 112, 1),
   FCVT_S_W |-> FpRs2(83, 104, 0), FCVT_S_WU |-> FpRs2(83, 104, 1), FMV_W_X |-> FpF3(83, 120, 0),
   FCVT_L_S |-> FpRs2(83, 96, 2), FCVT_LU_S |-> FpRs2(83, 96, 3), FCVT_S_L |-> FpRs2(83, 104, 2),
   FCVT_S_LU |-> FpRs2(83, 104, 3)]

RV32D ==
  [FLD |-> F3(7, 3), FSD |-> F3(39, 3), FMADD_D |-> F2(67, 1), FMSUB_D |-> F2(71, 1),
   FNMSUB_D |-> F2(75, 1), FNMADD_D |-> F2(79, 1), FADD_D |-> Fp(83, 1), FSUB_D |-> Fp(83, 5),
   FMUL_D |-> Fp(83, 9), FDIV_D |-> Fp(83, 13), FSQRT_D |-> FpRs2(83, 45, 0),
   FSGNJ_D |-> F7(83, 0, 17), FSGNJN_D |-> F7(83, 1, 17), FSGNJX_D |-> F7(83, 2, 17),
   FMIN_D |-> F7(83, 0, 21), FMAX_D |-> F7(83, 1, 21), FCVT_S_D |-> FpRs2(83, 32, 1),
   FCVT_D_S |-> FpRs2(83, 33, 0), FEQ_D |-> F7(83, 2, 81), FLT_D |-> F7(83, 1, 81),
   FLE_D |-> F7(83, 0, 81), FCLASS_D |-> FpF3(83, 113, 1), FCVT_W_D |-> FpRs2(83, 97, 0),
   FCVT_WU_D |-> FpRs2(83, 97, 1), FCVT_D_W |-> FpRs2(83, 105, 0), FCVT_D_WU |-> FpRs2(83, 105, 1),
   FCVT_L_D |-> FpRs2(83, 97, 2), FCVT_LU_D |-> FpRs2(83, 97, 3), FMV_X_D |-> FpF3(83, 113, 0),
   FCVT_D_L |-> FpRs2(83, 105, 2), FCVT_D_LU |-> FpRs2(83, 105, 3), FMV_D_X |-> FpF3(83, 121, 0)]

\* The table of an instruction's encoding; SLLI_32 and its like stand for
\* SLLI and its like in RV32.
Encoding(x) == CASE x \in DOMAIN RV32IM    -> RV32IM[x]
                 [] x \in DOMAIN RV32APriv -> RV32APriv[x]
                 [] x \in DOMAIN RV64IMA   -> RV64IMA[x]
                 [] x \in DOMAIN RV32F     -> RV32F[x]
                 [] x \in DOMAIN RV32D     -> RV32D[x]

Encodings == DOMAIN RV32IM \cup DOMAIN RV32APriv \cup DOMAIN RV64IMA
               \cup DOMAIN RV32F \cup DOMAIN RV32D

Shifts == {"SLLI", "SRLI", "SRAI"}
Shifts_32 == [SLLI |-> "SLLI_32", SRLI |-> "SRLI_32", SRAI |-> "SRAI_32"]

Mappings == Encodings \ {Shifts_32[x] : x \in Shifts}

\* The encoding that counts for an instruction.
EncodingFor(x, arch) ==
  IF arch = "RV32" /\ x \in Shifts THEN Encoding(Shifts_32[x]) ELSE Encoding(x)

\* (data() & X_MASK) == X_ENCODING
Matches(w, e) ==
  \A f \in DOMAIN e :
    e[f] = CASE f = "funct2"  -> funct2(w)  [] f = "funct5"  -> funct5(w)
             [] f = "funct6"  -> funct6(w)  [] f = "funct12" -> funct12(w)
             [] OTHER -> w[f]

-----------------------------------------------------------------------------
(* decode_normal.  A switch on funct3 is the tuple of its eight cases.     *)

OP == [LUI |-> 55, AUIPC |-> 23, JAL |-> 111, JALR |-> 103, LB |-> 3, SB |-> 35, BEQ |-> 99,
       ADDI |-> 19, ADD |-> 51, FENCE |-> 15, ECALL |-> 115, AMO |-> 47, ADDIW |-> 27,
       ADDW |-> 59]

FP == [FMADD_S |-> 67, FADD_S |-> 83, FLW |-> 7, FSW |-> 39, FMSUB_S |-> 71,
       FNMSUB_S |-> 75, FNMADD_S |-> 79]

U == "UNDEF"

Switch(i, cases) == IF i < Len(cases) THEN cases[i + 1] ELSE U

\* OP_LUI .. OP_SB
DecodeMemory(w) ==
  CASE w.opcode = OP.LUI   -> "LUI"
    [] w.opcode = OP.AUIPC -> "AUIPC"
    [] w.opcode = OP.JAL   -> "JAL"
    [] w.opcode = OP.JALR  -> "JALR"
    [] w.opcode = OP.BEQ   -> Switch(w.funct3, <<"BEQ", "BNE", U, U, "BLT", "BGE", "BLTU", "BGEU">>)
    [] w.opcode = OP.LB    -> Switch(w.funct3, <<"LB", "LH", "LW", "LD", "LBU", "LHU", "LWU">>)
    [] w.opcode = OP.SB    -> Switch(w.funct3, <<"SB", "SH", "SW", "SD">>)

\* OP_ADDI, OP_ADDIW: for the shifts to the right, funct6 or funct7 decides.
DecodeImmediate(w) ==
  CASE w.opcode = OP.ADDI /\ w.funct3 = 5 ->
         (CASE funct6(w) = 0 -> "SRLI" [] funct6(w) = 16 -> "SRAI" [] OTHER -> U)
    [] w.opcode = OP.ADDI ->
         Switch(w.funct3, <<"ADDI", "SLLI", "SLTI", "SLTIU", "XORI", U, "ORI", "ANDI">>)
    [] w.opcode = OP.ADDIW /\ w.funct3 = 5 ->
         (CASE w.funct7 = 0 -> "SRLIW" [] w.funct7 = 32 -> "SRAIW" [] OTHER -> U)
    [] w.opcode = OP.ADDIW -> Switch(w.funct3, <<"ADDIW", "SLLIW">>)

\* OP_ADD, OP_ADDW: funct7 selects the base, the subtracting or the M instructions.
DecodeRegister(w) ==
  CASE w.opcode = OP.ADD /\ w.funct7 = 0 ->
         Switch(w.funct3, <<"ADD", "SLL", "SLT", "SLTU", "XOR", "SRL", "OR", "AND">>)
    [] w.opcode = OP.ADD /\ w.funct7 = 32 ->
         Switch(w.funct3, <<"SUB", U, U, U, U, "SRA">>)
    [] w.opcode = OP.ADD /\ w.funct7 = 1 ->
         Switch(w.funct3, <<"MUL", "MULH", "MULHSU", "MULHU", "DIV", "DIVU", "REM", "REMU">>)
    [] w.opcode = OP.ADDW /\ w.funct7 = 0 ->
         Switch(w.funct3, <<"ADDW", "SLLW", U, U, U, "SRLW">>)
    [] w.opcode = OP.ADDW /\ w.funct7 = 32 ->
         Switch(w.funct3, <<"SUBW", U, U, U, U, "SRAW">>)
    [] w.opcode = OP.ADDW /\ w.funct7 = 1 ->
         Switch(w.funct3, <<"MULW", U, U, U, "DIVW", "DIVUW", "REMW", "REMUW">>)
    [] OTHER -> U

\* OP_FENCE, OP_ECALL
DecodeSystem(w) ==
  CASE w.opcode = OP.FENCE -> Switch(w.funct3, <<"FENCE", "FENCE_I">>)
    [] w.opcode = OP.ECALL /\ w.funct3 = 0 ->
         (CASE funct12(w) = 0   -> "ECALL" [] funct12(w) = 1   -> "EBREAK"
            [] funct12(w) = 2   -> "URET"  [] funct12(w) = 258 -> "SRET"
            [] funct12(w) = 770 -> "MRET"  [] funct12(w) = 261 -> "WFI"
            [] OTHER -> "SFENCE_VMA")
    [] w.opcode = OP.ECALL /\ w.funct3 # 0 ->
         Switch(w.funct3, <<U, "CSRRW", "CSRRS", "CSRRC", U, "CSRRWI", "CSRRSI", "CSRRCI">>)

\* OP_AMO: funct5 selects the operation; F3_AMO_D the 64 bit variant, any
\* other funct3 the 32 bit one, which then has to match.
DecodeAtomic(w) ==
  LET Width(x, y) == IF w.funct3 = 3 THEN y ELSE x
      f5 == funct5(w)
  IN  CASE f5 = 2  -> Width("LR_W", "LR_D")           [] f5 = 3  -> Width("SC_W", "SC_D")
        [] f5 = 1  -> Width("AMOSWAP_W", "AMOSWAP_D") [] f5 = 0  -> Width("AMOADD_W", "AMOADD_D")
        [] f5 = 4  -> Width("AMOXOR_W", "AMOXOR_D")   [] f5 = 12 -> Width("AMOAND_W", "AMOAND_D")
        [] f5 = 8  -> Width("AMOOR_W", "AMOOR_D")     [] f5 = 16 -> Width("AMOMIN_W", "AMOMIN_D")
        [] f5 = 20 -> Width("AMOMAX_W", "AMOMAX_D")   [] f5 = 24 -> Width("AMOMINU_W", "AMOMINU_D")
        [] f5 = 28 -> Width("AMOMAXU_W", "AMOMAXU_D") [] OTHER -> U

\* OP_FADD_S: funct7, then funct3 or rs2.
DecodeFloat(w) ==
  LET f == w.funct7 IN
  CASE f = 0  -> "FADD_S"  [] f = 4  -> "FSUB_S"  [] f = 8  -> "FMUL_S"  [] f = 12 -> "FDIV_S"
    [] f = 1  -> "FADD_D"  [] f = 5  -> "FSUB_D"  [] f = 9  -> "FMUL_D"  [] f = 13 -> "FDIV_D"
    [] f = 44 -> "FSQRT_S" [] f = 45 -> "FSQRT_D" [] f = 33 -> "FCVT_D_S" [] f = 32 -> "FCVT_S_D"
    [] f = 120 -> "FMV_W_X" [] f = 121 -> "FMV_D_X"
    [] f = 80  -> Switch(w.funct3, <<"FLE_S", "FLT_S", "FEQ_S">>)
    [] f = 81  -> Switch(w.funct3, <<"FLE_D", "FLT_D", "FEQ_D">>)
    [] f = 16  -> Switch(w.funct3, <<"FSGNJ_S", "FSGNJN_S", "FSGNJX_S">>)
    [] f = 17  -> Switch(w.funct3, <<"FSGNJ_D", "FSGNJN_D", "FSGNJX_D">>)
    [] f = 20  -> Switch(w.funct3, <<"FMIN_S", "FMAX_S">>)
    [] f = 21  -> Switch(w.funct3, <<"FMIN_D", "FMAX_D">>)
    [] f = 112 -> Switch(w.funct3, <<"FMV_X_W", "FCLASS_S">>)
    [] f = 113 -> Switch(w.funct3, <<"FMV_X_D", "FCLASS_D">>)
    [] f = 104 -> Switch(w.rs2, <<"FCVT_S_W", "FCVT_S_WU", "FCVT_S_L", "FCVT_S_LU">>)
    [] f = 105 -> Switch(w.rs2, <<"FCVT_D_W", "FCVT_D_WU", "FCVT_D_L", "FCVT_D_LU">>)
    [] f = 96  -> Switch(w.rs2, <<"FCVT_W_S", "FCVT_WU_S", "FCVT_L_S", "FCVT_LU_S">>)
    [] f = 97  -> Switch(w.rs2, <<"FCVT_W_D", "FCVT_WU_D", "FCVT_L_D", "FCVT_LU_D">>)
    [] OTHER -> U

\* OP_FLW, OP_FSW and the fused multiplications.
DecodeFloatOther(w) ==
  CASE w.opcode = FP.FLW      -> Switch(w.funct3, <<U, U, "FLW", "FLD">>)
    [] w.opcode = FP.FSW      -> Switch(w.funct3, <<U, U, "FSW", "FSD">>)
    [] w.opcode = FP.FMADD_S  -> Switch(funct2(w), <<"FMADD_S", "FMADD_D">>)
    [] w.opcode = FP.FMSUB_S  -> Switch(funct2(w), <<"FMSUB_S", "FMSUB_D">>)
    [] w.opcode = FP.FNMSUB_S -> Switch(funct2(w), <<"FNMSUB_S", "FNMSUB_D">>)
    [] w.opcode = FP.FNMADD_S -> Switch(funct2(w), <<"FNMADD_S", "FNMADD_D">>)

\* Where the switches lead, before the match.
Candidate(w) ==
  CASE w.opcode \in {OP.LUI, OP.AUIPC, OP.JAL, OP.JALR, OP.BEQ, OP.LB, OP.SB} -> DecodeMemory(w)
    [] w.opcode \in {OP.ADDI, OP.ADDIW}  -> DecodeImmediate(w)
    [] w.opcode \in {OP.ADD, OP.ADDW}    -> DecodeRegister(w)
    [] w.opcode \in {OP.FENCE, OP.ECALL} -> DecodeSystem(w)
    [] w.opcode = OP.AMO                 -> DecodeAtomic(w)
    [] w.opcode = FP.FADD_S              -> DecodeFloat(w)
    [] w.opcode \in {FP[x] : x \in DOMAIN FP \ {"FADD_S"}} -> DecodeFloatOther(w)
    [] OTHER -> U

\* Mutant: the default case of the privileged instructions returns unmatched.
ReturnUnmatched(w, x, arch) == x

\* MATCH_AND_RETURN_INSTR
MatchAndReturn(w, x, arch) == IF Matches(w, EncodingFor(x, arch)) THEN x ELSE U

decode_normal(w, arch) ==
  IF Candidate(w) = U THEN U ELSE MatchAndReturn(w, Candidate(w), arch)

-----------------------------------------------------------------------------
(* Compressed instructions: 16 bit words n.                                *)

\* BIT_SLICE
Bits(n, upper, lower) == (n \div 2 ^ lower) % 2 ^ (upper - lower + 1)

\* BIT_SINGLE_PN
BitTo(n, pos, new_pos) == Bits(n, pos, pos) * 2 ^ new_pos

\* EXTRACT_SIGN_BIT: bit pos is the sign, of weight new_pos.
SignTo(n, pos, new_pos) == -BitTo(n, pos, new_pos)

quadrant(n) == n % 4
c_opcode(n) == Bits(n, 15, 13)
c_b12(n) == Bits(n, 12, 12)
c_rd(n) == Bits(n, 11, 7)
c_rd_small(n) == Bits(n, 9, 7) + 8
c_rs2_small(n) == Bits(n, 4, 2) + 8
c_rs2(n) == Bits(n, 6, 2)
c_imm(n) == Bits(n, 6, 2) + SignTo(n, 12, 5)
c_uimm(n) == Bits(n, 6, 2) + BitTo(n, 12, 5)
c_f2_high(n) == Bits(n, 11, 10)
c_f2_low(n) == Bits(n, 6, 5)

C_ADDI4SPN_NZUIMM(n) ==
  Bits(n, 12, 11) * 2 ^ 4 + Bits(n, 10, 7) * 2 ^ 6 + BitTo(n, 6, 2) + BitTo(n, 5, 3)
C_LW_UIMM(n) == Bits(n, 12, 10) * 2 ^ 3 + BitTo(n, 6, 2) + BitTo(n, 5, 6)
C_LD_UIMM(n) == Bits(n, 12, 10) * 2 ^ 3 + Bits(n, 6, 5) * 2 ^ 6

\* Mutant: bits 6 and 7 of the offset change places.
C_JAL_IMM_SWAPPED(n) ==
  SignTo(n, 12, 11) + BitTo(n, 11, 4) + Bits(n, 10, 9) * 2 ^ 8 + BitTo(n, 8, 10)
    + BitTo(n, 7, 7) + BitTo(n, 6, 6) + Bits(n, 5, 3) * 2 + BitTo(n, 2, 5)

\* C_JAL_IMM, C_J_IMM
C_JAL_IMM(n) ==
  SignTo(n, 12, 11) + BitTo(n, 11, 4) + Bits(n, 10, 9) * 2 ^ 8 + BitTo(n, 8, 10)
    + BitTo(n, 7, 6) + BitTo(n, 6, 7) + Bits(n, 5, 3) * 2 + BitTo(n, 2, 5)
C_ADDI16SP_NZIMM(n) ==
  SignTo(n, 12, 9) + BitTo(n, 6, 4) + BitTo(n, 5, 6) + Bits(n, 4, 3) * 2 ^ 7 + BitTo(n, 2, 5)
C_LUI_NZIMM(n) == SignTo(n, 12, 17) + Bits(n, 6, 2) * 2 ^ 12
C_BRANCH_IMM(n) ==
  SignTo(n, 12, 8) + Bits(n, 11, 10) * 2 ^ 3 + Bits(n, 6, 5) * 2 ^ 6
    + Bits(n, 4, 3) * 2 + BitTo(n, 2, 5)
C_LWSP_UIMM(n) == BitTo(n, 12, 5) + Bits(n, 6, 4) * 2 ^ 2 + Bits(n, 3, 2) * 2 ^ 6
C_SWSP_UIMM(n) == Bits(n, 12, 9) * 2 ^ 2 + Bits(n, 8, 7) * 2 ^ 6
C_LDSP_UIMM(n) == BitTo(n, 12, 5) + Bits(n, 6, 5) * 2 ^ 3 + Bits(n, 4, 2) * 2 ^ 6
C_SDSP_UIMM(n) == Bits(n, 12, 10) * 2 ^ 3 + Bits(n, 9, 7) * 2 ^ 6

\* decode_compressed; C_Illegal where no case returns.
DecodeQuadrant0(n, arch) ==
  Switch(c_opcode(n), <<IF n = 0 THEN "C_Illegal" ELSE "C_ADDI4SPN", "C_FLD", "C_LW",
                        IF arch = "RV32" THEN "C_FLW" ELSE "C_LD", "C_Reserved", "C_FSD", "C_SW",
                        IF arch = "RV32" THEN "C_FSW" ELSE "C_SD">>)

DecodeQuadrant1(n, arch) ==
  LET arithmetic == Switch(c_f2_high(n), <<"C_SRLI", "C_SRAI", "C_ANDI",
        IF c_b12(n) = 1
        THEN Switch(c_f2_low(n), <<"C_SUBW", "C_ADDW", "C_Reserved", "C_Reserved">>)
        ELSE Switch(c_f2_low(n), <<"C_SUB", "C_XOR", "C_OR", "C_AND">>)>>)
  IN  Switch(c_opcode(n), <<IF n = 1 THEN "C_NOP" ELSE "C_ADDI",
                            IF arch = "RV32" THEN "C_JAL" ELSE "C_ADDIW", "C_LI",
                            IF c_rd(n) = 2 THEN "C_ADDI16SP" ELSE "C_LUI",
                            arithmetic, "C_J", "C_BEQZ", "C_BNEZ">>)

DecodeQuadrant2(n, arch) ==
  LET jumps == CASE c_b12(n) = 1 /\ c_rd(n) # 0 -> IF c_rs2(n) # 0 THEN "C_ADD" ELSE "C_JALR"
                 [] c_b12(n) = 1 /\ c_rd(n) = 0 -> "C_EBREAK"
                 [] c_b12(n) = 0                -> IF c_rs2(n) # 0 THEN "C_MV" ELSE "C_JR"
  IN  Switch(c_opcode(n), <<"C_SLLI", "C_FLDSP", "C_LWSP",
                            IF arch = "RV32" THEN "C_FLWSP" ELSE "C_LDSP", jumps,
                            "C_FSDSP", "C_SWSP", IF arch = "RV32" THEN "C_FSWSP" ELSE "C_SDSP">>)

decode_compressed(n, arch) ==
  CASE quadrant(n) = 0 -> DecodeQuadrant0(n, arch)
    [] quadrant(n) = 1 -> DecodeQuadrant1(n, arch)
    [] quadrant(n) = 2 -> DecodeQuadrant2(n, arch)

-----------------------------------------------------------------------------
(* InstructionFactory: the formats, and with them the instructions.        *)

RFormat(op, f3, f7, rd, rs1, rs2) ==
  [opcode |-> op, rd |-> rd, funct3 |-> f3, rs1 |-> rs1, rs2 |-> rs2, funct7 |-> f7]

IFormat(op, f3, rd, rs1, imm) ==
  RFormat(op, f3, (imm % 2 ^ 12) \div 32, rd, rs1, imm % 32)

SFormat(op, f3, rs1, rs2, imm) ==
  RFormat(op, f3, (imm % 2 ^ 12) \div 32, imm % 32, rs1, rs2)

BFormat(op, f3, rs1, rs2, imm) ==
  RFormat(op, f3, ((imm \div 2 ^ 12) % 2) * 64 + ((imm \div 2 ^ 5) % 64),
          ((imm \div 2) % 16) * 2 + ((imm \div 2 ^ 11) % 2), rs1, rs2)

\* A word from its upper 20 bits.
WordOf(op, rd, high) ==
  RFormat(op, high % 8, (high \div 2 ^ 13) % 2 ^ 7, rd, (high \div 2 ^ 3) % 32, (high \div 2 ^ 8) % 32)

UFormat(op, rd, imm) == WordOf(op, rd, (imm \div 2 ^ 12) % 2 ^ 20)

JFormat(op, rd, imm) ==
  WordOf(op, rd, ((imm \div 2 ^ 20) % 2) * 2 ^ 19 + ((imm \div 2) % 2 ^ 10) * 2 ^ 9
                   + ((imm \div 2 ^ 11) % 2) * 2 ^ 8 + ((imm \div 2 ^ 12) % 2 ^ 8))

ShiftFormat(f3, f7, rd, n) == RFormat(19, f3, f7 + ((n % 64) \div 32), rd, rd, n % 32)

\* What expand_compressed returns, with the word it leaves in instr.
To(op, w) == [op |-> op, word |-> w]
Undefined == [op |-> U]
Unless(reserved, e) == IF reserved THEN Undefined ELSE e

\* The instructions that have both registers among x8 to x15.
ExpandSmall(n, c) ==
  LET rd == c_rd_small(n)
      rs2 == c_rs2_small(n)
  IN  CASE c = "C_AND"  -> To("AND", RFormat(51, 7, 0, rd, rd, rs2))
        [] c = "C_OR"   -> To("OR", RFormat(51, 6, 0, rd, rd, rs2))
        [] c = "C_XOR"  -> To("XOR", RFormat(51, 4, 0, rd, rd, rs2))
        [] c = "C_SUB"  -> To("SUB", RFormat(51, 0, 32, rd, rd, rs2))
        [] c = "C_ADDW" -> To("ADDW", RFormat(59, 0, 0, rd, rd, rs2))
        [] c = "C_SUBW" -> To("SUBW", RFormat(59, 0, 32, rd, rd, rs2))
        [] c = "C_LW"   -> To("LW", IFormat(3, 2, rs2, rd, C_LW_UIMM(n)))
        [] c = "C_LD"   -> To("LD", IFormat(3, 3, rs2, rd, C_LD_UIMM(n)))
        [] c = "C_FLW"  -> To("FLW", IFormat(7, 2, rs2, rd, C_LW_UIMM(n)))
        [] c = "C_FLD"  -> To("FLD", IFormat(7, 3, rs2, rd, C_LD_UIMM(n)))
        [] c = "C_SW"   -> To("SW", SFormat(35, 2, rd, rs2, C_LW_UIMM(n)))
        [] c = "C_SD"   -> To("SD", SFormat(35, 3, rd, rs2, C_LD_UIMM(n)))
        [] c = "C_FSW"  -> To("FSW", SFormat(39, 2, rd, rs2, C_LW_UIMM(n)))
        [] c = "C_FSD"  -> To("FSD", SFormat(39, 3, rd, rs2, C_LD_UIMM(n)))

\* Immediates, shifts, jumps and branches.
ExpandImmediate(n, c, arch) ==
  LET rd == c_rd(n)
      small == c_rd_small(n)
      too_far == arch = "RV32" /\ c_uimm(n) > 31
  IN  CASE c = "C_ADDI4SPN" -> Unless(C_ADDI4SPN_NZUIMM(n) = 0,
                                 To("ADDI", IFormat(19, 0, c_rs2_small(n), 2, C_ADDI4SPN_NZUIMM(n))))
        [] c = "C_ADDI"     -> To("ADDI", IFormat(19, 0, rd, rd, c_imm(n)))
        [] c = "C_JAL"      -> To("JAL", JFormat(111, 1, C_JAL_IMM(n)))
        [] c = "C_ADDIW"    -> Unless(rd = 0, To("ADDIW", IFormat(19, 0, rd, rd, c_imm(n))))
        [] c = "C_LI"       -> To("ADDI", IFormat(19, 0, rd, 0, c_imm(n)))
        [] c = "C_ADDI16SP" -> Unless(C_ADDI16SP_NZIMM(n) = 0,
                                 To("ADDI", IFormat(19, 0, 2, 2, C_ADDI16SP_NZIMM(n))))
        [] c = "C_LUI"      -> Unless(C_LUI_NZIMM(n) = 0, To("LUI", UFormat(55, rd, C_LUI_NZIMM(n))))
        [] c = "C_SLLI"     -> Unless(too_far, To("SLLI", ShiftFormat(1, 0, rd, c_uimm(n))))
        [] c = "C_SRLI"     -> Unless(too_far, To("SRLI", ShiftFormat(5, 0, small, c_uimm(n))))
        [] c = "C_SRAI"     -> Unless(too_far, To("SRAI", ShiftFormat(5, 32, small, c_uimm(n))))
        [] c = "C_ANDI"     -> To("ANDI", IFormat(19, 7, small, small, c_imm(n)))
        [] c = "C_J"        -> To("JAL", JFormat(111, 0, C_JAL_IMM(n)))
        [] c = "C_BEQZ"     -> To("BEQ", BFormat(99, 0, small, 0, C_BRANCH_IMM(n)))
        [] c = "C_BNEZ"     -> To("BNE", BFormat(99, 1, small, 0, C_BRANCH_IMM(n)))

\* Accesses relative to the stack pointer, and quadrant two's 0b100.
ExpandStack(n, c) ==
  LET rd == c_rd(n)
      rs2 == c_rs2(n)
  IN  CASE c = "C_LWSP"   -> Unless(rd = 0, To("LW", IFormat(3, 2, rd, 2, C_LWSP_UIMM(n))))
        [] c = "C_LDSP"   -> Unless(rd = 0, To("LD", IFormat(3, 3, rd, 2, C_LDSP_UIMM(n))))
        [] c = "C_FLWSP"  -> To("FLW", IFormat(7, 2, rd, 2, C_LWSP_UIMM(n)))
        [] c = "C_FLDSP"  -> To("FLD", IFormat(7, 3, rd, 2, C_LDSP_UIMM(n)))
        [] c = "C_SWSP"   -> To("SW", SFormat(35, 2, 2, rs2, C_SWSP_UIMM(n)))
        [] c = "C_SDSP"   -> To("SD", SFormat(35, 3, 2, rs2, C_SDSP_UIMM(n)))
        [] c = "C_FSWSP"  -> To("FSW", SFormat(39, 2, 2, rs2, C_SWSP_UIMM(n)))
        [] c = "C_FSDSP"  -> To("FSD", SFormat(39, 3, 2, rs2, C_SDSP_UIMM(n)))
        [] c = "C_EBREAK" -> To("EBREAK", RFormat(115, 0, 0, 0, 0, 1))
        [] c = "C_JR"     -> Unless(rd = 0, To("JALR", IFormat(103, 0, 0, rd, 0)))
        [] c = "C_JALR"   -> To("JALR", IFormat(103, 0, 1, rd, 0))
        [] c = "C_NOP"    -> To("ADD", RFormat(51, 0, 0, 0, 0, 0))
        [] c = "C_ADD"    -> To("ADD", RFormat(51, 0, 0, rd, rd, rs2))
        [] c = "C_MV"     -> To("ADD", RFormat(51, 0, 0, rd, 0, rs2))

expand_compressed(n, c, arch) ==
  CASE c \in {"C_Illegal", "C_Reserved"} -> Undefined
    [] c \in {"C_AND", "C_OR", "C_XOR", "C_SUB", "C_ADDW", "C_SUBW", "C_LW", "C_LD", "C_FLW",
              "C_FLD", "C_SW", "C_SD", "C_FSW", "C_FSD"} -> ExpandSmall(n, c)
    [] c \in {"C_ADDI4SPN", "C_ADDI", "C_JAL", "C_ADDIW", "C_LI", "C_ADDI16SP", "C_LUI", "C_SLLI",
              "C_SRLI", "C_SRAI", "C_ANDI", "C_J", "C_BEQZ", "C_BNEZ"} -> ExpandImmediate(n, c, arch)
    [] OTHER -> ExpandStack(n, c)

decode_and_expand_compressed(n, arch) == expand_compressed(n, decode_compressed(n, arch), arch)

-----------------------------------------------------------------------------
(* getType, and the operands that an instruction of a type uses.           *)

IType == {"JALR", "LB", "LH", "LW", "LD", "LBU", "LHU", "LWU", "ADDI", "SLTI", "SLTIU", "XORI",
          "ORI", "ANDI", "ADDIW", "SLLIW", "SRLIW", "SRAIW", "FLW", "FLD"}
SType == {"SB", "SH", "SW", "SD", "FSW", "FSD"}
BType == {"BEQ", "BNE", "BLT", "BGE", "BLTU", "BGEU"}
R4Type == {"FMADD_S", "FMSUB_S", "FNMSUB_S", "FNMADD_S", "FMADD_D", "FMSUB_D", "FNMSUB_D", "FNMADD_D"}
NoType == {"FENCE", "FENCE_I", "ECALL", "EBREAK", "CSRRW", "CSRRS", "CSRRC", "CSRRWI", "CSRRSI",
           "CSRRCI", "URET", "SRET", "MRET", "WFI", "SFENCE_VMA"}

\* Every other instruction is listed among those of type R.
getType(x) ==
  CASE x \in IType -> "I" [] x \in SType -> "S" [] x \in BType -> "B" [] x \in R4Type -> "R4"
    [] x \in {"LUI", "AUIPC"} -> "U" [] x = "JAL" -> "J"
    [] x \in NoType \cup {U} -> "UNKNOWN"
    [] OTHER -> "R"

\* The operands by which exec_step executes an instruction.
Operands(x, w) ==
  CASE x \in Shifts       -> <<w.rd, w.rs1, shamt(w)>>
    [] getType(x) = "R" /\ x \notin Shifts -> <<w.rd, w.rs1, w.rs2>>
    [] getType(x) = "I"   -> <<w.rd, w.rs1, I_imm(w)>>
    [] getType(x) = "S"   -> <<w.rs1, w.rs2, S_imm(w)>>
    [] getType(x) = "B"   -> <<w.rs1, w.rs2, B_imm(w)>>
    [] getType(x) = "U"   -> <<w.rd, U_imm(w)>>
    [] getType(x) = "J"   -> <<w.rd, J_imm(w)>>
    [] getType(x) = "UNKNOWN" -> <<>>
=============================================================================
