----------------------------- MODULE Assembler ------------------------------
(***************************************************************************)
(* The two passes of every assembler (src/sim/assembler/base.py) and the    *)
(* branch relaxation of the x86 one (src/sim/assembler/x86.py).             *)
(* A text is a sequence of Lines; `wide` is the set of the lines whose      *)
(* branch has been lengthened.  Processor is extended for the decoders: what *)
(* is encoded is right when they read what was written.                     *)
(***************************************************************************)
EXTENDS Processor, FiniteSets

ISAs == {"riscv", "arm", "x86"}

\* _estimate_instruction_size_at
SizeAt(isa, line, wide) == IF isa = "x86" THEN X86!EstimatedSize(line, wide) ELSE 4

Encoded(isa, line, pc, labels, wide) ==
    CASE isa = "riscv" -> RV!RISCVEncode(line, pc, labels)
      [] isa = "arm"   -> ARM!ARMEncode(line, pc, labels)
      [] isa = "x86"   -> X86!X86Encode(line, pc, labels, wide)

\* Bytes of the lines from span[1] to span[2], summed by halves.
Bytes(isa, text, wide) ==
    LET bytes[span \in (1..Len(text) + 1) \X (0..Len(text))] ==
          CASE span[1] > span[2] -> 0
            [] span[1] = span[2] /\ IsLabel(text[span[1]])  -> 0
            [] span[1] = span[2] /\ ~IsLabel(text[span[1]]) ->
                  SizeAt(isa, text[span[1]], span[1] \in wide)
            [] OTHER -> bytes[<<span[1], (span[1] + span[2]) \div 2>>]
                        + bytes[<<(span[1] + span[2]) \div 2 + 1, span[2]>>]
    IN bytes

\* _pass1: addresses of lines and of labels; a label may be defined once.
Pass1(isa, text, wide) ==
    LET before(k) == Bytes(isa, text, wide)[<<1, k - 1>>]
        placed == {k \in DOMAIN text : IsLabel(text[k])}
        names  == {text[k].label : k \in placed}
    IN [at |-> [k \in DOMAIN text |-> before(k)],
        pc |-> before(Len(text) + 1),
        labels |-> [l \in names |-> before(CHOOSE k \in placed : text[k].label = l)],
        duplicate |-> Cardinality(names) # Cardinality(placed)]

\* Mutant: the displacement counts from the start.
TooFarFromStart(isa, text, wide, layout) ==
    {k \in DOMAIN text \ wide :
        /\ isa = "x86" /\ X86!IsBranch(text[k])
        /\ text[k].label \in DOMAIN layout.labels
        /\ ~FitsSigned(layout.labels[text[k].label] - layout.at[k], 8)}

\* The branches to a label that do not fit their short form.
TooFar(isa, text, wide, layout) ==
    {k \in DOMAIN text \ wide :
        /\ isa = "x86" /\ X86!IsBranch(text[k])
        /\ text[k].label \in DOMAIN layout.labels
        /\ ~FitsSigned(layout.labels[text[k].label] - layout.at[k] - 2, 8)}

\* _pass2: the words, or bytes; Rejected when a line is.
Pass2(isa, text, wide, layout) ==
    LET parts == [k \in DOMAIN text |->
                     IF IsLabel(text[k]) THEN <<>>
                     ELSE Encoded(isa, text[k], layout.at[k], layout.labels, k \in wide)]
    IN IF \/ layout.duplicate
          \/ \E k \in DOMAIN text : ~IsLabel(text[k]) /\ parts[k] = Rejected
       THEN Rejected ELSE Joined(parts)

-----------------------------------------------------------------------------
(* The assembler at work on the text of a job.                              *)

VARIABLES
    job,    \* what is assembled for: its `isa` is the instruction set
    phase,  \* "layout", "encode", "assembled" or "error"
    text,   \* the lines to assemble
    wide,   \* X86Assembler._wide_jumps
    layout, \* what pass 1 found
    image   \* the assembled program

\* Before pass 1.
Unplaced == wide = {} /\ layout = <<>> /\ image = <<>>

Overlong == TooFar(job.isa, text, wide, layout)

\* Pass 1.
Place ==
    /\ phase = "layout"
    /\ layout' = Pass1(job.isa, text, wide)
    /\ phase' = "encode"
    /\ UNCHANGED <<job, text, wide, image>>

\* Mutant: a branch that now fits is shortened again.
RelaxForgetful ==
    /\ phase = "encode"
    /\ Overlong # {}
    /\ wide' = Overlong
    /\ phase' = "layout"
    /\ UNCHANGED <<job, text, layout, image>>

\* Every branch that does not fit becomes long, for good; then pass 1 again.
Relax ==
    /\ phase = "encode"
    /\ Overlong # {}
    /\ wide' = wide \union Overlong
    /\ phase' = "layout"
    /\ UNCHANGED <<job, text, layout, image>>

\* Pass 2.
Encode ==
    /\ phase = "encode"
    /\ Overlong = {}
    /\ image' = Pass2(job.isa, text, wide, layout)
    /\ phase' = IF image' = <<>> THEN "error" ELSE "assembled"
    /\ UNCHANGED <<job, text, wide, layout>>

\* A line as splitting leaves it: registers and forms of its instruction set, a
\* name only where a branch has its target.
Branches == [riscv |-> {"JAL"} \union DOMAIN RV!BranchFunct3,
             arm   |-> {"B", "BL", "B.", "CBZ", "CBNZ"},
             x86   |-> {"JMP", "CALL"} \union DOMAIN X86!JccCode]
WellFormed(isa, line) ==
    /\ {line.rd, line.rs1, line.rs2} \subseteq 0..(NumRegs(isa) - 1)
    /\ line.imm \in Int
    /\ line.label = NoLabel \/ line.mn \in {"label"} \union Branches[isa]
    /\ isa = "x86" /\ line.mn = "MOV" =>
          line.form \in {"rr", "ri", "load", "store", "load0", "store0"}

\* Assembling by itself, whatever the text.
AssemblerInit ==
    /\ job.isa \in ISAs
    /\ text \in Seq(Range(text)) \ {<<>>}
    /\ \A k \in DOMAIN text : WellFormed(job.isa, text[k])
    /\ phase = "layout"
    /\ Unplaced
AssemblerNext == Place \/ Relax \/ Encode
AssemblerSpec == AssemblerInit /\ [][AssemblerNext]_<<job, phase, text, wide, layout, image>>

-----------------------------------------------------------------------------
(* Properties.                                                              *)

\* The sizes pass 1 counts with, the lengths pass 2 emits and the lengths the
\* decoder steps by are the same, line by line (x86.py:200).
LayoutMatchesImage ==
    phase = "assembled" =>
        LET end(k) == IF k = Len(text) THEN layout.pc ELSE layout.at[k + 1]
        IN /\ Len(image) * (IF job.isa = "x86" THEN 1 ELSE 4) = layout.pc
           /\ \A k \in DOMAIN text :
                 ~IsLabel(text[k]) =>
                     layout.at[k] + Decoded(job.isa, image, layout.at[k]).instr_len = end(k)

\* What the decoder makes of an encoded branch leads to the label it was written
\* with, in every displacement format and width.
BranchesReachTheirLabels ==
    phase = "assembled" =>
        \A k \in DOMAIN text :
            ~IsLabel(text[k]) /\ text[k].label # NoLabel =>
                LET c == Decoded(job.isa, image, layout.at[k])
                IN (c.jal \/ c.branch) /\ layout.at[k] + c.imm = layout.labels[text[k].label]

\* Relaxation lengthens no branch whose short form would still fit when all the
\* others stay as they are: its own growth does not count.
LongOnlyWhenNeeded ==
    phase = "assembled" =>
        \A k \in wide :
            LET size   == SizeAt("x86", text[k], TRUE)
                target == layout.labels[text[k].label]
                growth == IF target > layout.at[k] THEN size - 2 ELSE 0
            IN ~FitsSigned(target - layout.at[k] - 2 - growth, 8)
=============================================================================
