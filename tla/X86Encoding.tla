---------------------------- MODULE X86Encoding -----------------------------
(***************************************************************************)
(* IA-32 subset, instructions of one to six bytes: the assembler's encoder  *)
(* and size estimate (src/sim/assembler/x86.py) and the decoder             *)
(* (src/sim/isa/x86/decoder_component.py).                                  *)
(*                                                                          *)
(* In a Line, rd is the destination and rs2 the source register; rs1 is the *)
(* base of a memory operand.  `form` is "rr", "ri", "load" and "store"      *)
(* (with a displacement token), "load0" and "store0" (without).             *)
(***************************************************************************)
EXTENDS Encoding

ESP == 4

AluOpcode == [ADD |-> 1, OR |-> 9, AND |-> 33, SUB |-> 41, XOR |-> 49, CMP |-> 57]
Group1Ext == [ADD |-> 0, OR |-> 1, AND |-> 4, SUB |-> 5, XOR |-> 6, CMP |-> 7]
JccCode   == [JE |-> 4, JNE |-> 5, JL |-> 12, JGE |-> 13, JLE |-> 14, JG |-> 15]
IsBranch(i) == i.mn = "JMP" \/ i.mn \in DOMAIN JccCode

ModRM(mod, reg, rm) == mod * 64 + reg * 8 + rm
Imm32(v) == [k \in 1..4 |-> (v \div 2^(8 * (k - 1))) % 256]
FitsImm8(v) == FitsSigned(v, 8)

-----------------------------------------------------------------------------
(* Encoder.  `wide` says the branch was relaxed to its rel32 form.          *)

\* Mutant: both long forms are taken to be five bytes.
EncodeBranchFive(i, offset, wide) ==
    LET short == <<IF i.mn = "JMP" THEN 235 ELSE 112 + JccCode[i.mn], (offset - 2) % 256>>
        long  == IF i.mn = "JMP" THEN <<233>> \o Imm32(offset - 5)
                                 ELSE <<15, 128 + JccCode[i.mn]>> \o Imm32(offset - 5)
    IN IF wide THEN long ELSE Checked(FitsImm8(offset - 2), short)

\* A displacement counts from the end of the instruction.
EncodeBranch(i, offset, wide) ==
    LET short == <<IF i.mn = "JMP" THEN 235 ELSE 112 + JccCode[i.mn], (offset - 2) % 256>>
        long  == IF i.mn = "JMP" THEN <<233>> \o Imm32(offset - 5)
                                 ELSE <<15, 128 + JccCode[i.mn]>> \o Imm32(offset - 6)
    IN IF wide THEN long ELSE Checked(FitsImm8(offset - 2), short)

EncodeMov(i) ==
    CASE i.form = "store"  -> Checked(FitsImm8(i.imm),
                                      <<137, ModRM(1, i.rs2, i.rs1), i.imm % 256>>)
      [] i.form = "store0" -> <<137, ModRM(0, i.rs2, i.rs1)>>
      [] i.form = "load"   -> Checked(FitsImm8(i.imm),
                                      <<139, ModRM(1, i.rd, i.rs1), i.imm % 256>>)
      [] i.form = "load0"  -> <<139, ModRM(0, i.rd, i.rs1)>>
      [] i.form = "rr"     -> <<137, ModRM(3, i.rs2, i.rd)>>
      [] i.form = "ri"     -> <<184 + i.rd>> \o Imm32(i.imm)

EncodeAlu(i) ==
    IF i.form = "rr" THEN <<AluOpcode[i.mn], ModRM(3, i.rs2, i.rd)>>
    ELSE Checked(i.form = "ri" /\ FitsImm8(i.imm),
                 <<131, ModRM(3, Group1Ext[i.mn], i.rd), i.imm % 256>>)

X86Encode(i, pc, labels, wide) ==
    LET offset == Offset(i, pc, labels)
    IN IF ~Resolves(i, labels) THEN Rejected ELSE
       CASE i.mn = "NOP"                 -> <<144>>
         [] i.mn = "RET"                 -> <<195>>
         [] i.mn = "PUSH"                -> <<80 + i.rd>>
         [] i.mn = "POP"                 -> <<88 + i.rd>>
         [] IsBranch(i)                  -> EncodeBranch(i, offset, wide)
         [] i.mn = "CALL"                -> <<232>> \o Imm32(offset - 5)
         [] i.mn = "MOV"                 -> EncodeMov(i)
         [] i.mn \in DOMAIN AluOpcode    -> EncodeAlu(i)
         [] OTHER                        -> Rejected

\* Mutant: relaxed branches keep their short size.
EstimatedNarrow(i, wide) ==
    CASE IsBranch(i)                                        -> 2
      [] i.mn \in {"NOP", "RET", "PUSH", "POP"}             -> 1
      [] i.mn = "CALL"                                      -> 5
      [] i.mn = "MOV" /\ i.form \in {"load", "store"}       -> 3
      [] i.mn = "MOV" /\ i.form = "ri"                      -> 5
      [] i.mn \in DOMAIN AluOpcode /\ i.form = "ri"         -> 3
      [] OTHER                                              -> 2

\* _estimate_instruction_size: what pass 1 advances the pc by.
EstimatedSize(i, wide) ==
    CASE IsBranch(i)                      -> IF ~wide THEN 2 ELSE IF i.mn = "JMP" THEN 5 ELSE 6
      [] i.mn \in {"NOP", "RET", "PUSH", "POP"}             -> 1
      [] i.mn = "CALL"                                      -> 5
      [] i.mn = "MOV" /\ i.form \in {"load", "store"}       -> 3
      [] i.mn = "MOV" /\ i.form = "ri"                      -> 5
      [] i.mn \in DOMAIN AluOpcode /\ i.form = "ri"         -> 3
      [] OTHER                                              -> 2

-----------------------------------------------------------------------------
(* Decoder, from the eight bytes at pc.                                     *)

\* Four little-endian bytes as a signed word.
Rel32(b, k) == b[k] + 256 * b[k + 1] + 65536 * b[k + 2] + 16777216 * SignExtend(b[k + 3], 8)
Disp8(b, k) == SignExtend(b[k], 8)
Mod(b) == b[2] \div 64
RegField(b) == (b[2] \div 8) % 8
Rm(b) == b[2] % 8

\* _modrm_disp_len: displacement and SIB bytes behind ModRM.
DispLen(b) ==
    CASE Mod(b) = 1               -> 1
      [] Mod(b) = 2               -> 4
      [] Mod(b) = 0 /\ Rm(b) = 5  -> 4
      [] Mod(b) = 0 /\ Rm(b) = 4  -> 1
      [] OTHER                    -> 0

Sized(length) == [NoSignals EXCEPT !.instr_len = length]
MemoryAt(length, base, disp) ==
    [Sized(length) EXCEPT !.rs1 = base, !.imm = disp, !.alu_src = TRUE]
LoadFrom(length, base, disp, rd) ==
    [MemoryAt(length, base, disp) EXCEPT !.rd = rd, !.mem_read = TRUE, !.reg_write = TRUE,
                                         !.wb_sel = "MEMORY"]
StoreTo(length, base, disp, source) ==
    [MemoryAt(length, base, disp) EXCEPT !.rs2 = source, !.mem_write = TRUE]

Jump(length, disp) == [Sized(length) EXCEPT !.imm = length + disp, !.jal = TRUE]
ConditionOf(cc) == CASE cc = 4  -> "EQ" [] cc = 5  -> "NEQ" [] cc = 12 -> "LT"
                     [] cc = 13 -> "GE" [] cc = 14 -> "LE"  [] cc = 15 -> "GT"
                     [] OTHER   -> "NEVER"
Jcc(length, disp, cc) ==
    [Sized(length) EXCEPT !.imm = length + disp, !.branch = TRUE, !.branch_cond = ConditionOf(cc)]

DecodeMovRm(b) ==
    LET load == b[1] = 139
    IN CASE Mod(b) = 3 ->
              [MemoryAt(2, IF load THEN Rm(b) ELSE RegField(b), 0)
                  EXCEPT !.rd = IF load THEN RegField(b) ELSE Rm(b), !.reg_write = TRUE]
         [] Mod(b) = 2 -> Sized(1)
         [] OTHER ->
              LET length == 2 + Mod(b)
                  disp   == IF Mod(b) = 1 THEN Disp8(b, 3) ELSE 0
              IN IF load THEN LoadFrom(length, Rm(b), disp, RegField(b))
                         ELSE StoreTo(length, Rm(b), disp, RegField(b))

\* CMP is a subtraction that writes flags only.
AluSignals(c, op, rd) ==
    LET flagged == [c EXCEPT !.sets_flags = TRUE, !.alu_op = IF op = "CMP" THEN "SUB" ELSE op]
    IN IF op = "CMP" THEN flagged ELSE [flagged EXCEPT !.rd = rd, !.reg_write = TRUE]

DecodeAlu(b) ==
    IF Mod(b) # 3 THEN Sized(2 + DispLen(b))
    ELSE AluSignals([Sized(2) EXCEPT !.rs1 = Rm(b), !.rs2 = RegField(b)],
                    CHOOSE op \in DOMAIN AluOpcode : AluOpcode[op] = b[1], Rm(b))

DecodeGroup1(b) ==
    LET ops == {op \in DOMAIN Group1Ext : Group1Ext[op] = RegField(b)}
        c   == MemoryAt(3, Rm(b), Disp8(b, 3))
    IN CASE Mod(b) # 3 -> Sized(3 + DispLen(b))
         [] ops = {}   -> [c EXCEPT !.sets_flags = TRUE]
         [] OTHER      -> AluSignals(c, CHOOSE op \in ops : TRUE, Rm(b))

X86Decode(b) ==
    CASE b[1] = 144                                -> Sized(1)
      [] b[1] = 195 -> [MemoryAt(1, ESP, 0) EXCEPT !.mem_read = TRUE, !.jalr = TRUE]
      [] b[1] \in 80..87 -> [StoreTo(1, ESP, -4, b[1] - 80) EXCEPT !.rd = ESP, !.reg_write = TRUE]
      [] b[1] \in 88..95                           -> LoadFrom(1, ESP, 0, b[1] - 88)
      [] b[1] \in 184..191 ->
            [Sized(5) EXCEPT !.rd = b[1] - 184, !.imm = Rel32(b, 2), !.alu_op = "PASS",
                             !.alu_src = TRUE, !.reg_write = TRUE]
      [] b[1] \in {232, 233}                       -> Jump(5, Rel32(b, 2))
      [] b[1] = 15 /\ b[2] \in 128..143            -> Jcc(6, Rel32(b, 3), b[2] % 16)
      [] b[1] = 235                                -> Jump(2, Disp8(b, 2))
      [] b[1] \in 112..127                         -> Jcc(2, Disp8(b, 2), b[1] % 16)
      [] b[1] \in {AluOpcode[op] : op \in DOMAIN AluOpcode} -> DecodeAlu(b)
      [] b[1] \in {137, 139}                       -> DecodeMovRm(b)
      [] b[1] = 131                                -> DecodeGroup1(b)
      [] OTHER                                     -> Sized(1)
=============================================================================
