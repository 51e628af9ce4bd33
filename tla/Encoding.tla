------------------------------ MODULE Encoding ------------------------------
(***************************************************************************)
(* Bit fields of machine words, lines of assembly text, control signals.    *)
(*                                                                          *)
(* A 32-bit word is held as a signed number, so that it fits the integers   *)
(* of the model checker.  A line of assembly is a record: mnemonic, the     *)
(* registers by index, the immediate, the branch target by name.  Splitting *)
(* text into such records (tokens, comments, spelling of registers and      *)
(* numbers) is left out.                                                    *)
(***************************************************************************)
EXTENDS Integers, Sequences, SequencesExt

\* What the provers, to which exponentiation is opaque, have to know of it.
ASSUME PowersOfTwo ==
    /\ 2^0 = 1
    /\ \A n \in 0..29 : 2^(n + 1) = 2 * 2^n

Bits(w, hi, lo) == IF lo = 31 THEN (IF w < 0 THEN 1 ELSE 0)
                              ELSE (w \div 2^lo) % 2^(hi - lo + 1)
SignExtend(v, width) == IF v >= 2^(width - 1) THEN v - 2^width ELSE v

\* The word whose fields are given from bit 31 down, as <<value, width>>.
Pack(fields) ==
    LET word[k \in 0..Len(fields)] ==
          IF k = 0
          THEN IF Bits(fields[1][1], fields[1][2] - 1, fields[1][2] - 1) = 1 THEN -1 ELSE 0
          ELSE word[k - 1] * 2^fields[k][2] + (fields[k][1] % 2^fields[k][2])
    IN word[Len(fields)]

\* The parts one behind the other, as FlattenSeq has them, but joined by halves: a
\* text has a thousand parts, and FlattenSeq recurses once for each.
Joined(parts) ==
    LET join[span \in (1..Len(parts) + 1) \X (0..Len(parts))] ==
          CASE span[1] > span[2] -> <<>>
            [] span[1] = span[2] -> parts[span[1]]
            [] OTHER -> join[<<span[1], (span[1] + span[2]) \div 2>>]
                        \o join[<<(span[1] + span[2]) \div 2 + 1, span[2]>>]
    IN join[<<1, Len(parts)>>]

FitsSigned(v, width)   == -(2^(width - 1)) <= v /\ v < 2^(width - 1)
FitsUnsigned(v, width) == 0 <= v /\ v < 2^width

\* An assembler that raises AssemblerError encodes nothing.
Rejected == <<>>
Checked(valid, words) == IF valid THEN words ELSE Rejected

-----------------------------------------------------------------------------
(* Labels are a name and a number, as new_label makes them; NoLabel is an   *)
(* instruction's target when it has none or a numeric one (then imm).       *)

NoLabel == <<"", 0>>

Line(mn, form, rd, rs1, rs2, imm, label) ==
    [mn |-> mn, form |-> form, rd |-> rd, rs1 |-> rs1, rs2 |-> rs2, imm |-> imm,
     label |-> label]
LabelLine(label) == Line("label", "", 0, 0, 0, 0, label)
IsLabel(line)    == line.mn = "label"

\* _resolve_label_or_imm: distance of the target from the instruction.  A name
\* that is no label is parsed as a number, which raises.
Resolves(line, labels)   == line.label \in DOMAIN labels \union {NoLabel}
Offset(line, pc, labels) == IF line.label = NoLabel THEN line.imm ELSE labels[line.label] - pc

-----------------------------------------------------------------------------
\* What every decoder drives before it looks at the instruction.
NoSignals ==
    [rd |-> 0, rs1 |-> 0, rs2 |-> 0, imm |-> 0, alu_op |-> "ADD", alu_src |-> FALSE,
     use_pc |-> FALSE, mem_read |-> FALSE, mem_write |-> FALSE, reg_write |-> FALSE,
     branch |-> FALSE, branch_cond |-> "NEVER", jal |-> FALSE, jalr |-> FALSE,
     wb_sel |-> "ALU", sets_flags |-> FALSE, instr_len |-> 4]
=============================================================================
