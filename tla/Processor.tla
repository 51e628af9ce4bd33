----------------------------- MODULE Processor ------------------------------
(***************************************************************************)
(* The single-cycle machines of the three instruction sets, executing the   *)
(* words or bytes an assembler produced (src/sim/isa/<isa>/presets/         *)
(* single_cycle.py): one wiring, with per instruction set the decoder, the  *)
(* register file, the fetch unit and how a branch sees a comparison.        *)
(***************************************************************************)
EXTENDS Encoding, TLC

CONSTANTS XLEN,      \* bits of a word, 32 in the code
          MEM_WORDS  \* capacity of the data memory in words

RV  == INSTANCE RISCVEncoding
ARM == INSTANCE ARMEncoding
X86 == INSTANCE X86Encoding

\* StandardRegisterFile(num_regs, zero_reg_index); no zero register on x86.
NumRegs(isa) == IF isa = "x86" THEN 8 ELSE 32
ZeroReg(isa) == CASE isa = "riscv" -> 0 [] isa = "arm" -> 31 [] isa = "x86" -> 8
LOCAL D(isa) == INSTANCE Datapath WITH NREGS <- NumRegs(isa), ZERO_REG <- ZeroReg(isa)

Wrapped(v) == v % 2^XLEN

-----------------------------------------------------------------------------
(* Fetch: words outside the program read as the RISC-V NOP, bytes as 90h.   *)

WordAt(image, addr) == IF addr \div 4 < Len(image) THEN image[addr \div 4 + 1] ELSE 19
BytesAt(image, addr) ==
    [k \in 1..8 |-> IF addr + k <= Len(image) THEN image[addr + k] ELSE 144]

Decoded(isa, image, addr) ==
    CASE isa = "riscv" -> RV!RISCVDecode(WordAt(image, addr))
      [] isa = "arm"   -> ARM!ARMDecode(WordAt(image, addr))
      [] isa = "x86"   -> X86!X86Decode(BytesAt(image, addr))

\* PcLenAdder and X86Fetch: the address behind the instruction.
FallThrough(c, pc) == Wrapped(pc + c.instr_len)

-----------------------------------------------------------------------------
(* Flags and branches.                                                      *)

\* FlagsRegister: the ALU's outputs when the instruction sets flags, else those
\* of the last instruction that did.
Flags(c, latched, result) ==
    IF c.sets_flags THEN [zero |-> result = 0, result |-> result] ELSE latched

\* BranchResolutionUnit.  compare_mode "slt" (RISC-V) reads the ALU itself, "sub"
\* the sign of the subtraction behind the flags.
Taken(isa, c, flags, result) ==
    LET seen == IF isa = "riscv" THEN [zero |-> result = 0, result |-> result] ELSE flags
        lt   == IF isa = "riscv" THEN seen.result % 2 = 1
                                 ELSE D(isa)!ToSigned(seen.result) < 0
    IN CASE c.branch_cond = "EQ"    -> seen.zero
         [] c.branch_cond = "NEQ"   -> ~seen.zero
         [] c.branch_cond = "LT"    -> lt
         [] c.branch_cond = "GE"    -> ~lt
         [] c.branch_cond = "LE"    -> lt \/ seen.zero
         [] c.branch_cond = "GT"    -> ~(lt \/ seen.zero)
         [] c.branch_cond = "NEVER" -> FALSE

-----------------------------------------------------------------------------
(* Registers and memory.  mem lists the words ever written; the others are  *)
(* zero.                                                                    *)

RegisterAt(isa, regs, r) == D(isa)!RegRead(regs, r)
WordIndex(addr)              == (addr \div 4) % MEM_WORDS
WordIn(mem, addr)        == IF WordIndex(addr) \in DOMAIN mem THEN mem[WordIndex(addr)] ELSE 0

Written(mem, addr, value) ==
    IF WordIn(mem, addr) = value THEN mem ELSE (WordIndex(addr) :> value) @@ mem

\* A machine when it is built.
Reset(isa) == [pc |-> 0, regs |-> [r \in 0..(NumRegs(isa) - 1) |-> 0], mem |-> <<>>,
               flags |-> [zero |-> FALSE, result |-> 0]]

\* The operand multiplexers and the ALU, for the instruction c at pc.
AluResult(isa, c, pc, rs1_data, rs2_data) ==
    D(isa)!Alu(c.alu_op, IF c.use_pc THEN pc ELSE rs1_data,
                         IF c.alu_src THEN Wrapped(c.imm) ELSE rs2_data)

Redirects(isa, c, flags, result) == c.jal \/ c.jalr \/ (c.branch /\ Taken(isa, c, flags, result))
NextPC(isa, c, pc, rs1_data, flags, result) ==
    CASE c.jalr -> 2 * (Wrapped(rs1_data + c.imm) \div 2)
      [] ~c.jalr /\ Redirects(isa, c, flags, result) -> Wrapped(pc + c.imm)
      [] OTHER  -> FallThrough(c, pc)

WriteBackValue(c, pc, result, data) ==
    CASE c.wb_sel = "ALU"    -> result
      [] c.wb_sel = "MEMORY" -> data
      [] c.wb_sel = "PC4"    -> FallThrough(c, pc)
RegistersAfter(isa, regs, c, value) == D(isa)!RegWrite(regs, c.reg_write, c.rd, value)
MemoryAfter(mem, c, addr, value)    == IF c.mem_write THEN Written(mem, addr, value) ELSE mem

\* The ALU's result for the instruction at s.pc: a load's or store's address.
Result(isa, c, s) ==
    AluResult(isa, c, s.pc, RegisterAt(isa, s.regs, c.rs1), RegisterAt(isa, s.regs, c.rs2))

\* CPU.tick: the machine behind the instruction at s.pc.
Stepped(isa, c, s, result, flags) ==
    [pc    |-> NextPC(isa, c, s.pc, RegisterAt(isa, s.regs, c.rs1), flags, result),
     regs  |-> RegistersAfter(isa, s.regs, c,
                              WriteBackValue(c, s.pc, result, WordIn(s.mem, result))),
     mem   |-> MemoryAfter(s.mem, c, result, RegisterAt(isa, s.regs, c.rs2)),
     flags |-> flags]
After(isa, image, s) ==
    LET c      == Decoded(isa, image, s.pc)
        result == Result(isa, c, s)
    IN Stepped(isa, c, s, result, Flags(c, s.flags, result))
=============================================================================
