--------------------------- MODULE RISCVEncoding ----------------------------
(***************************************************************************)
(* RV32I: the assembler's encoder (src/sim/assembler/riscv.py) and the      *)
(* decoder's extraction of fields (src/sim/isa/riscv/decoder_component.py). *)
(***************************************************************************)
EXTENDS Encoding

RTypes  == {"ADD", "SUB", "AND", "OR", "XOR", "SLT", "SLTU", "SLL", "SRL", "SRA"}
Shifts  == {"SLLI", "SRLI", "SRAI"}
IAlus   == {"ADDI", "ANDI", "ORI", "XORI", "SLTI", "SLTIU"} \union Shifts

AluFunct3 == [ADD |-> 0, SUB |-> 0, SLL |-> 1, SLT |-> 2, SLTU |-> 3, XOR |-> 4, SRL |-> 5,
              SRA |-> 5, OR |-> 6, AND |-> 7,
              ADDI |-> 0, SLLI |-> 1, SLTI |-> 2, SLTIU |-> 3, XORI |-> 4, SRLI |-> 5,
              SRAI |-> 5, ORI |-> 6, ANDI |-> 7]
BranchFunct3 == [BEQ |-> 0, BNE |-> 1, BLT |-> 4, BGE |-> 5, BLTU |-> 6, BGEU |-> 7]
OpWord == [R_TYPE |-> 51, I_ALU |-> 19, LOAD |-> 3, STORE |-> 35, BRANCH |-> 99, JAL |-> 111,
           JALR |-> 103, LUI |-> 55, AUIPC |-> 23]
F7_ALT == 32

EncodeR(i) ==
    <<Pack(<< <<IF i.mn \in {"SUB", "SRA"} THEN F7_ALT ELSE 0, 7>>, <<i.rs2, 5>>,
              <<i.rs1, 5>>, <<AluFunct3[i.mn], 3>>, <<i.rd, 5>>, <<OpWord.R_TYPE, 7>> >>)>>

\* imm[31:20] rs1 funct3 rd opcode, for the I format.
PackI(imm12, rs1, funct3, rd, opcode) ==
    <<Pack(<< <<imm12, 12>>, <<rs1, 5>>, <<funct3, 3>>, <<rd, 5>>, <<opcode, 7>> >>)>>

EncodeIAlu(i) ==
    IF i.mn \in Shifts
    THEN Checked(FitsUnsigned(i.imm, 5),
            PackI(i.imm + (IF i.mn = "SRAI" THEN F7_ALT * 32 ELSE 0), i.rs1, AluFunct3[i.mn], i.rd,
                  OpWord.I_ALU))
    ELSE Checked(FitsSigned(i.imm, 12), PackI(i.imm, i.rs1, AluFunct3[i.mn], i.rd, OpWord.I_ALU))

EncodeLoad(i) == Checked(FitsSigned(i.imm, 12), PackI(i.imm, i.rs1, 2, i.rd, OpWord.LOAD))
EncodeJalr(i) == Checked(FitsSigned(i.imm, 12), PackI(i.imm, i.rs1, 0, i.rd, OpWord.JALR))

EncodeStore(i) ==
    Checked(FitsSigned(i.imm, 12),
       <<Pack(<< <<i.imm \div 32, 7>>, <<i.rs2, 5>>, <<i.rs1, 5>>, <<2, 3>>, <<i.imm % 32, 5>>,
                 <<OpWord.STORE, 7>> >>)>>)

EncodeBranch(i, offset) ==
    Checked(FitsSigned(offset, 13) /\ offset % 2 = 0,
       <<Pack(<< <<Bits(offset, 12, 12), 1>>, <<Bits(offset, 10, 5), 6>>, <<i.rs2, 5>>,
                 <<i.rs1, 5>>, <<BranchFunct3[i.mn], 3>>, <<Bits(offset, 4, 1), 4>>,
                 <<Bits(offset, 11, 11), 1>>, <<OpWord.BRANCH, 7>> >>)>>)

EncodeJal(i, offset) ==
    Checked(FitsSigned(offset, 21) /\ offset % 2 = 0,
       <<Pack(<< <<Bits(offset, 20, 20), 1>>, <<Bits(offset, 10, 1), 10>>,
                 <<Bits(offset, 11, 11), 1>>, <<Bits(offset, 19, 12), 8>>, <<i.rd, 5>>,
                 <<OpWord.JAL, 7>> >>)>>)

\* LUI and AUIPC take the upper 20 bits, masked without a range check.
EncodeUpper(i) == <<Pack(<< <<i.imm, 20>>, <<i.rd, 5>>, <<OpWord[i.mn], 7>> >>)>>

RISCVEncode(i, pc, labels) ==
    LET offset == Offset(i, pc, labels)
    IN IF ~Resolves(i, labels) THEN Rejected ELSE
       CASE i.mn \in RTypes                -> EncodeR(i)
         [] i.mn \in IAlus                 -> EncodeIAlu(i)
         [] i.mn = "LW"                    -> EncodeLoad(i)
         [] i.mn = "SW"                    -> EncodeStore(i)
         [] i.mn \in DOMAIN BranchFunct3   -> EncodeBranch(i, offset)
         [] i.mn = "JAL"                   -> EncodeJal(i, offset)
         [] i.mn = "JALR"                  -> EncodeJalr(i)
         [] i.mn \in {"LUI", "AUIPC"}      -> EncodeUpper(i)
         [] i.mn = "NOP"                   -> PackI(0, 0, 0, 0, OpWord.I_ALU)
         [] OTHER                          -> Rejected

-----------------------------------------------------------------------------
(* Decoder.  rd, rs1 and rs2 are driven from their fixed positions for      *)
(* every opcode.                                                            *)

ImmI(w) == SignExtend(Bits(w, 31, 20), 12)
ImmS(w) == SignExtend(Bits(w, 11, 7) + 32 * Bits(w, 31, 25), 12)
ImmB(w) == SignExtend(2 * Bits(w, 11, 8) + 32 * Bits(w, 30, 25) + 2048 * Bits(w, 7, 7)
                        + 4096 * Bits(w, 31, 31), 13)
ImmU(w) == w - (w % 4096)
ImmJ(w) == SignExtend(2 * Bits(w, 30, 21) + 2048 * Bits(w, 20, 20) + 4096 * Bits(w, 19, 12)
                        + 1048576 * Bits(w, 31, 31), 21)

\* _decode_r_alu and _decode_i_alu: alt is funct7 = 0100000.
AluOpOf(funct3, alt, immediate) ==
    CASE funct3 = 0 -> IF alt /\ ~immediate THEN "SUB" ELSE "ADD"
      [] funct3 = 1 -> "SLL"
      [] funct3 = 2 -> "SLT"
      [] funct3 = 3 -> "SLTU"
      [] funct3 = 4 -> "XOR"
      [] funct3 = 5 -> IF alt THEN "SRA" ELSE "SRL"
      [] funct3 = 6 -> "OR"
      [] funct3 = 7 -> "AND"

\* _decode_branch: ALU operation and condition.
BranchOf(funct3) ==
    CASE funct3 = 0 -> <<"SUB", "EQ">>
      [] funct3 = 1 -> <<"SUB", "NEQ">>
      [] funct3 = 4 -> <<"SLT", "LT">>
      [] funct3 = 5 -> <<"SLT", "GE">>
      [] funct3 = 6 -> <<"SLTU", "LT">>
      [] funct3 = 7 -> <<"SLTU", "GE">>
      [] OTHER      -> <<"ADD", "NEVER">>

RISCVDecode(w) ==
    LET opcode == Bits(w, 6, 0)
        funct3 == Bits(w, 14, 12)
        alt    == Bits(w, 31, 25) = F7_ALT
        fields == [NoSignals EXCEPT !.rd = Bits(w, 11, 7), !.rs1 = Bits(w, 19, 15),
                                    !.rs2 = Bits(w, 24, 20)]
    IN CASE opcode = OpWord.R_TYPE ->
              [fields EXCEPT !.reg_write = TRUE, !.alu_op = AluOpOf(funct3, alt, FALSE)]
         [] opcode = OpWord.I_ALU ->
              [fields EXCEPT !.imm = ImmI(w), !.reg_write = TRUE, !.alu_src = TRUE,
                             !.alu_op = AluOpOf(funct3, alt, TRUE)]
         [] opcode = OpWord.LOAD ->
              [fields EXCEPT !.imm = ImmI(w), !.reg_write = TRUE, !.alu_src = TRUE,
                             !.mem_read = TRUE, !.wb_sel = "MEMORY"]
         [] opcode = OpWord.STORE ->
              [fields EXCEPT !.imm = ImmS(w), !.alu_src = TRUE, !.mem_write = TRUE]
         [] opcode = OpWord.BRANCH ->
              [fields EXCEPT !.imm = ImmB(w), !.branch = TRUE, !.alu_op = BranchOf(funct3)[1],
                             !.branch_cond = BranchOf(funct3)[2]]
         [] opcode = OpWord.JAL ->
              [fields EXCEPT !.imm = ImmJ(w), !.reg_write = TRUE, !.jal = TRUE, !.wb_sel = "PC4"]
         [] opcode = OpWord.JALR ->
              [fields EXCEPT !.imm = ImmI(w), !.reg_write = TRUE, !.jalr = TRUE, !.alu_src = TRUE,
                             !.wb_sel = "PC4"]
         [] opcode = OpWord.LUI ->
              [fields EXCEPT !.imm = ImmU(w), !.reg_write = TRUE, !.alu_src = TRUE,
                             !.alu_op = "PASS"]
         [] opcode = OpWord.AUIPC ->
              [fields EXCEPT !.imm = ImmU(w), !.reg_write = TRUE, !.alu_src = TRUE,
                             !.use_pc = TRUE]
         [] OTHER -> fields
=============================================================================
