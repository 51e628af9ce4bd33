---------------------------- MODULE ARMEncoding -----------------------------
(***************************************************************************)
(* AArch64 subset: the assembler's encoder (src/sim/assembler/arm.py) and   *)
(* the decoder (src/sim/isa/arm/decoder_component.py).  In a Line, rs1 is   *)
(* Rn and rs2 is Rm; a load or store has its data register Rt in rd; form   *)
(* "imm" marks an operand written #imm.                                     *)
(***************************************************************************)
EXTENDS Encoding

XZR == 31
LR  == 30
NOP_WORD == Pack(<< <<213, 8>>, <<3, 8>>, <<32, 8>>, <<31, 8>> >>)   \* D503201F

ArithOpc == [ADD |-> 0, SUB |-> 2, SUBS |-> 3]
LogicOpc == [AND |-> 0, ORR |-> 1, EOR |-> 2]
\* _COND_MAP of the conditions in _BCOND_SUPPORTED; the others are rejected.
CondCode == [EQ |-> 0, NE |-> 1, GE |-> 10, LT |-> 11, GT |-> 12, LE |-> 13]

EncodeDpReg(opc, class, i) ==
    <<Pack(<< <<1, 1>>, <<opc, 2>>, <<class, 5>>, <<0, 3>>, <<i.rs2, 5>>, <<0, 6>>,
              <<i.rs1, 5>>, <<i.rd, 5>> >>)>>

\* An immediate above 12 bits is accepted when it is a multiple of 4096.
EncodeDpImm(i) ==
    LET shifted == i.imm >= 4096
        imm12   == IF shifted THEN i.imm \div 4096 ELSE i.imm
    IN Checked(i.imm >= 0 /\ (shifted => i.imm % 4096 = 0 /\ imm12 < 4096),
               <<Pack(<< <<1, 1>>, <<ArithOpc[i.mn], 2>>, <<34, 6>>,
                         <<IF shifted THEN 1 ELSE 0, 1>>, <<imm12, 12>>, <<i.rs1, 5>>,
                         <<i.rd, 5>> >>)>>)

\* MOVZ: 16 bits, in the low or (multiples of 65536) in the high halfword.
EncodeMovz(i) ==
    LET high == i.imm >= 65536
        half == IF high THEN i.imm \div 65536 ELSE i.imm
    IN Checked(i.imm >= 0 /\ (high => i.imm % 65536 = 0),
               <<Pack(<< <<1, 1>>, <<2, 2>>, <<37, 6>>, <<IF high THEN 1 ELSE 0, 2>>,
                         <<half, 16>>, <<i.rd, 5>> >>)>>)

EncodeLdSt(i) ==
    Checked(i.imm % 8 = 0 /\ FitsUnsigned(i.imm \div 8, 12),
            <<Pack(<< <<3, 2>>, <<7, 3>>, <<0, 1>>, <<1, 2>>, <<IF i.mn = "LDR" THEN 1 ELSE 0, 2>>,
                      <<i.imm \div 8, 12>>, <<i.rs1, 5>>, <<i.rd, 5>> >>)>>)

\* B and BL: the offset is masked to 26 bits without a range check.
EncodeB(link, offset) ==
    Checked(offset % 4 = 0, <<Pack(<< <<link, 1>>, <<5, 5>>, <<offset \div 4, 26>> >>)>>)
EncodeBCond(cond, offset) ==
    Checked(offset % 4 = 0,
            <<Pack(<< <<84, 8>>, <<offset \div 4, 19>>, <<0, 1>>, <<CondCode[cond], 4>> >>)>>)
EncodeCbz(i, offset) ==
    Checked(offset % 4 = 0,
            <<Pack(<< <<1, 1>>, <<26, 6>>, <<IF i.mn = "CBZ" THEN 0 ELSE 1, 1>>,
                      <<offset \div 4, 19>>, <<i.rd, 5>> >>)>>)
EncodeRet(rn) == <<Pack(<< <<107, 7>>, <<2, 4>>, <<31, 5>>, <<0, 6>>, <<rn, 5>>, <<0, 5>> >>)>>

\* B.cond has mnemonic "B." and the condition in `form`.
ARMEncode(i, pc, labels) ==
    LET offset == Offset(i, pc, labels)
    IN IF ~Resolves(i, labels) THEN Rejected ELSE
       CASE i.mn = "NOP"                                   -> <<NOP_WORD>>
         [] i.mn = "RET"                                   -> EncodeRet(i.rs1)
         [] i.mn = "B." /\ i.form \in DOMAIN CondCode      -> EncodeBCond(i.form, offset)
         [] i.mn = "B"                                     -> EncodeB(0, offset)
         [] i.mn = "BL"                                    -> EncodeB(1, offset)
         [] i.mn \in {"CBZ", "CBNZ"}                       -> EncodeCbz(i, offset)
         [] i.mn = "CMP" -> EncodeDpReg(ArithOpc.SUBS, 11, [i EXCEPT !.rd = XZR])
         [] i.mn \in {"ADD", "SUB"} /\ i.form = "imm"      -> EncodeDpImm(i)
         [] i.mn \in DOMAIN ArithOpc /\ i.form # "imm"     -> EncodeDpReg(ArithOpc[i.mn], 11, i)
         [] i.mn \in DOMAIN LogicOpc                       -> EncodeDpReg(LogicOpc[i.mn], 10, i)
         [] i.mn \in {"MOVZ", "MOV"}                       -> EncodeMovz(i)
         [] i.mn \in {"LDR", "STR"}                        -> EncodeLdSt(i)
         [] OTHER                                          -> Rejected

-----------------------------------------------------------------------------
(* Decoder, one operator per _decode_ method.                               *)

RegisterFields(w) ==
    [NoSignals EXCEPT !.rd = Bits(w, 4, 0), !.rs1 = Bits(w, 9, 5), !.rs2 = Bits(w, 20, 16),
                      !.reg_write = TRUE]

DecodeDpRegArith(w) ==
    CASE Bits(w, 30, 29) = 2 -> [RegisterFields(w) EXCEPT !.alu_op = "SUB"]
      [] Bits(w, 30, 29) = 3 ->
            [RegisterFields(w) EXCEPT !.alu_op = "SUB", !.sets_flags = TRUE,
                                      !.reg_write = Bits(w, 4, 0) # XZR]
      [] OTHER               -> RegisterFields(w)

DecodeDpRegLogical(w) ==
    CASE Bits(w, 30, 29) = 0 -> [RegisterFields(w) EXCEPT !.alu_op = "AND"]
      [] Bits(w, 30, 29) = 1 -> [RegisterFields(w) EXCEPT !.alu_op = "OR"]
      [] Bits(w, 30, 29) = 2 -> [RegisterFields(w) EXCEPT !.alu_op = "XOR"]
      [] OTHER               -> RegisterFields(w)

DecodeDpImmAddSub(w) ==
    [RegisterFields(w) EXCEPT
        !.rs2 = 0, !.alu_src = TRUE,
        !.imm = Bits(w, 21, 10) * (IF Bits(w, 22, 22) = 1 THEN 4096 ELSE 1),
        !.alu_op = IF Bits(w, 30, 29) = 2 THEN "SUB" ELSE "ADD"]

\* A halfword above the low one, as a signed word.
DecodeMovz(w) ==
    [NoSignals EXCEPT
        !.rd = Bits(w, 4, 0), !.rs1 = XZR, !.alu_src = TRUE, !.reg_write = TRUE,
        !.imm = CASE Bits(w, 22, 21) = 0 -> Bits(w, 20, 5)
                  [] Bits(w, 22, 21) = 1 -> SignExtend(Bits(w, 20, 5), 16) * 65536
                  [] OTHER               -> 0]

DecodeLdSt(w) ==
    LET rt   == Bits(w, 4, 0)
        base == [NoSignals EXCEPT !.rs1 = Bits(w, 9, 5), !.alu_src = TRUE,
                                  !.imm = Bits(w, 21, 10) * 2^Bits(w, 31, 30)]
    IN IF Bits(w, 22, 22) = 1
       THEN [base EXCEPT !.rd = rt, !.mem_read = TRUE, !.reg_write = TRUE, !.wb_sel = "MEMORY"]
       ELSE [base EXCEPT !.rs2 = rt, !.mem_write = TRUE]

DecodeB(w)  == [NoSignals EXCEPT !.imm = SignExtend(4 * Bits(w, 25, 0), 28), !.jal = TRUE]
DecodeBl(w) == [DecodeB(w) EXCEPT !.rd = LR, !.reg_write = TRUE, !.wb_sel = "PC4"]

CondOf(code) == CASE code = 0  -> "EQ"  [] code = 1  -> "NEQ" [] code = 10 -> "GE"
                  [] code = 11 -> "LT"  [] code = 12 -> "GT"  [] code = 13 -> "LE"
                  [] OTHER     -> "NEVER"
DecodeBCond(w) ==
    [NoSignals EXCEPT !.imm = SignExtend(4 * Bits(w, 23, 5), 21), !.branch = TRUE,
                      !.branch_cond = CondOf(Bits(w, 3, 0)),
                      !.alu_op = CASE Bits(w, 3, 0) \in {0, 1} -> "SUB"
                                   [] CondOf(Bits(w, 3, 0)) = "NEVER" -> "ADD"
                                   [] OTHER -> "SLT"]

\* CBZ and CBNZ compare Rt with XZR and pass the result through the flags.
DecodeCbz(w) ==
    [NoSignals EXCEPT !.imm = SignExtend(4 * Bits(w, 23, 5), 21), !.rs1 = Bits(w, 4, 0),
                      !.rs2 = XZR, !.alu_op = "SUB", !.branch = TRUE, !.sets_flags = TRUE,
                      !.branch_cond = IF Bits(w, 24, 24) = 0 THEN "EQ" ELSE "NEQ"]

DecodeRet(w) == [NoSignals EXCEPT !.rs1 = Bits(w, 9, 5), !.jalr = TRUE]

\* The classes in the order the decoder tests them.
ARMDecode(w) ==
    CASE w \in {0, NOP_WORD}                                -> NoSignals
      [] Bits(w, 28, 24) = 11 /\ Bits(w, 31, 31) = 1        -> DecodeDpRegArith(w)
      [] Bits(w, 28, 24) = 10 /\ Bits(w, 31, 31) = 1        -> DecodeDpRegLogical(w)
      [] Bits(w, 28, 23) = 34 /\ Bits(w, 31, 31) = 1        -> DecodeDpImmAddSub(w)
      [] Bits(w, 28, 23) = 37 /\ Bits(w, 31, 31) = 1        -> DecodeMovz(w)
      [] Bits(w, 29, 27) = 7 /\ Bits(w, 25, 24) = 1         -> DecodeLdSt(w)
      [] Bits(w, 31, 26) = 5                                -> DecodeB(w)
      [] Bits(w, 31, 26) = 37                               -> DecodeBl(w)
      [] Bits(w, 31, 24) = 84                               -> DecodeBCond(w)
      [] Bits(w, 31, 25) = 90                               -> DecodeCbz(w)
      [] Bits(w, 31, 25) = 107 /\ Bits(w, 24, 10) = 2 * 2048 + 31 * 64 -> DecodeRet(w)
      [] OTHER                                              -> NoSignals
=============================================================================
