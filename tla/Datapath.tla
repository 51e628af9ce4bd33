------------------------------ MODULE Datapath ------------------------------
(***************************************************************************)
(* The combinational parts every execution model is wired from: instruction *)
(* memory, decoder, operand multiplexers, ALU, branch resolution unit and   *)
(* write-back multiplexer (src/sim/components, src/sim/isa/riscv).  The     *)
(* module has no variables: an execution model reads these operators during *)
(* the combinational phase of CPU.tick.                                     *)
(*                                                                          *)
(* Words are W-bit values in the code (W = 32), here integers modulo WORDS: *)
(* ComponentBase.__setitem__ masks every port write to its width.           *)
(* An instruction is a record of its raw fields.  The decoder drives rd,    *)
(* rs1 and rs2 for EVERY opcode, so an instruction without a register field *)
(* presents bits of its immediate on that port; the constructors below keep *)
(* that aliasing (which bits is a matter of encoding and left out).         *)
(***************************************************************************)
EXTENDS Integers

CONSTANTS NREGS,     \* architectural registers
          ZERO_REG,  \* index of the hardwired zero register; NREGS for none
          XLEN,      \* bits of a word, 32 in the code
          MEM_WORDS  \* capacity of the data memory in words

ASSUME DatapathAssumption ==
    /\ NREGS \in Nat \ {0}
    /\ ZERO_REG \in 0..NREGS
    /\ XLEN \in Nat \ 0..2
    /\ MEM_WORDS \in Nat \ {0}

WORDS == 2 ^ XLEN   \* number of word values

\* What the provers, to which exponentiation is opaque, have to know of it.
ASSUME PowersOfTwo ==
    /\ 2 ^ 0 = 1
    /\ \A n \in 0..(XLEN - 1) : 2 ^ (n + 1) = 2 * 2 ^ n

Reg  == 0..(NREGS - 1)
Word == 0..(WORDS - 1)

Mask(v) == v % WORDS
ToSigned(v) == IF v >= WORDS \div 2 THEN v - WORDS ELSE v

-----------------------------------------------------------------------------
(* Instructions.  `fn` names the operation funct3/funct7 select.            *)

AluOp    == {"ADD", "SUB", "AND", "OR", "XOR", "SLT", "SLTU", "SLL", "SRL", "SRA", "PASS"}
BranchFn == {"BEQ", "BNE", "BLT", "BGE", "BLTU", "BGEU"}
Opcode   == {"R_TYPE", "I_ALU", "LOAD", "STORE", "BRANCH", "JAL", "JALR", "LUI", "AUIPC"}

\* An instruction is a branch exactly when its function is a comparison.
Instruction ==
    {i \in [opcode : Opcode, fn : AluOp \cup BranchFn, rd : Reg, rs1 : Reg, rs2 : Reg,
            imm : Word] : i.opcode = "BRANCH" <=> i.fn \in BranchFn}

RType(fn, rd, rs1, rs2) ==
    [opcode |-> "R_TYPE", fn |-> fn, rd |-> rd, rs1 |-> rs1, rs2 |-> rs2, imm |-> 0]
IAlu(fn, rd, rs1, imm) ==
    [opcode |-> "I_ALU", fn |-> fn, rd |-> rd, rs1 |-> rs1,
     rs2 |-> imm % NREGS, imm |-> Mask(imm)]
Load(rd, rs1, imm) ==
    [opcode |-> "LOAD", fn |-> "ADD", rd |-> rd, rs1 |-> rs1,
     rs2 |-> imm % NREGS, imm |-> Mask(imm)]
Store(rs2, rs1, imm) ==
    [opcode |-> "STORE", fn |-> "ADD", rd |-> imm % NREGS, rs1 |-> rs1, rs2 |-> rs2,
     imm |-> Mask(imm)]
Branch(fn, rs1, rs2, imm) ==
    [opcode |-> "BRANCH", fn |-> fn, rd |-> imm % NREGS, rs1 |-> rs1, rs2 |-> rs2,
     imm |-> Mask(imm)]
Jal(rd, imm) ==
    [opcode |-> "JAL", fn |-> "ADD", rd |-> rd, rs1 |-> 0, rs2 |-> imm % NREGS,
     imm |-> Mask(imm)]
Jalr(rd, rs1, imm) ==
    [opcode |-> "JALR", fn |-> "ADD", rd |-> rd, rs1 |-> rs1,
     rs2 |-> imm % NREGS, imm |-> Mask(imm)]
Lui(rd, imm) ==
    [opcode |-> "LUI", fn |-> "PASS", rd |-> rd, rs1 |-> (imm \div 8) % NREGS,
     rs2 |-> imm % NREGS, imm |-> Mask(imm)]
Auipc(rd, imm) == [Lui(rd, imm) EXCEPT !.opcode = "AUIPC", !.fn = "ADD"]

\* ADDI x0, x0, 0: what the instruction memory returns outside the program.
Nop == IAlu("ADD", 0, 0, 0)

Fetched(program, pc) ==
    IF pc \div 4 \in DOMAIN program THEN program[pc \div 4] ELSE Nop

-----------------------------------------------------------------------------
(* Decoder: the control signals of one instruction.                         *)

BranchAluOp(fn) == CASE fn \in {"BEQ", "BNE"}   -> "SUB"
                     [] fn \in {"BLT", "BGE"}   -> "SLT"
                     [] fn \in {"BLTU", "BGEU"} -> "SLTU"

BranchCond(fn) == CASE fn = "BEQ"              -> "EQ"
                    [] fn = "BNE"              -> "NEQ"
                    [] fn \in {"BLT", "BLTU"}  -> "LT"
                    [] fn \in {"BGE", "BGEU"}  -> "GE"

Decode(i) ==
    LET is(ops) == i.opcode \in ops
    IN [rd          |-> i.rd,
        rs1         |-> i.rs1,
        rs2         |-> i.rs2,
        imm         |-> i.imm,
        alu_op      |-> IF is({"BRANCH"}) THEN BranchAluOp(i.fn) ELSE i.fn,
        alu_src     |-> is({"I_ALU", "LOAD", "STORE", "JALR", "LUI", "AUIPC"}),
        use_pc      |-> is({"AUIPC"}),
        mem_read    |-> is({"LOAD"}),
        mem_write   |-> is({"STORE"}),
        reg_write   |-> ~is({"STORE", "BRANCH"}),
        branch      |-> is({"BRANCH"}),
        branch_cond |-> IF is({"BRANCH"}) THEN BranchCond(i.fn) ELSE "NEVER",
        jal         |-> is({"JAL"}),
        jalr        |-> is({"JALR"}),
        wb_sel      |-> CASE is({"LOAD"})        -> "MEMORY"
                          [] is({"JAL", "JALR"}) -> "PC4"
                          [] OTHER               -> "ALU"]

-----------------------------------------------------------------------------
(* ALU.  A shift amount (shamt) is taken modulo the width of a word.        *)

BitAnd[a \in Word] ==
    [b \in Word |-> IF a = 0 THEN 0 ELSE (a % 2) * (b % 2) + 2 * BitAnd[a \div 2][b \div 2]]

Alu(op, a, b) ==
    LET scale == 2 ^ (b % XLEN)
    IN CASE op = "ADD"  -> Mask(a + b)
         [] op = "SUB"  -> Mask(a - b)
         [] op = "AND"  -> BitAnd[a][b]
         [] op = "OR"   -> a + b - BitAnd[a][b]
         [] op = "XOR"  -> a + b - 2 * BitAnd[a][b]
         [] op = "SLT"  -> IF ToSigned(a) < ToSigned(b) THEN 1 ELSE 0
         [] op = "SLTU" -> IF a < b THEN 1 ELSE 0
         [] op = "SLL"  -> Mask(a * scale)
         [] op = "SRL"  -> a \div scale
         [] op = "SRA"  -> Mask(ToSigned(a) \div scale)
         [] op = "PASS" -> b

-----------------------------------------------------------------------------
(* Branch resolution (combinational part shared by all models): direction   *)
(* and next PC.  result is the comparison the branch's ALU computed.        *)

\* bit 0 of an slt result is "a < b"
BranchTaken(c, result) ==
    CASE c.branch_cond = "EQ"  -> result = 0
      [] c.branch_cond = "NEQ" -> result # 0
      [] c.branch_cond = "LT"  -> result % 2 = 1
      [] c.branch_cond = "GE"  -> result % 2 = 0
      [] OTHER                 -> FALSE

Redirects(c, result) == c.jal \/ c.jalr \/ (c.branch /\ BranchTaken(c, result))

\* JALR clears bit 0 of its target.
NextPC(c, pc, rs1_data, result) ==
    CASE c.jal                   -> Mask(pc + c.imm)
      [] c.jalr                  -> 2 * (Mask(rs1_data + c.imm) \div 2)
      [] Redirects(c, result)    -> Mask(pc + c.imm)
      [] OTHER                   -> Mask(pc + 4)

-----------------------------------------------------------------------------
(* Register file read port, data memory index, write-back multiplexer.      *)

RegRead(regs, r) == IF r = ZERO_REG THEN 0 ELSE regs[r]

RegWrite(regs, wen, rd, value) ==
    IF wen /\ rd # ZERO_REG THEN [regs EXCEPT ![rd] = value] ELSE regs

MemIndex(addr) == (addr \div 4) % MEM_WORDS

MemWrite(mem, wen, addr, value) ==
    IF wen THEN [mem EXCEPT ![MemIndex(addr)] = value] ELSE mem

WriteBack(c, alu_value, mem_value, pc) ==
    CASE c.wb_sel = "ALU"    -> alu_value
      [] c.wb_sel = "MEMORY" -> mem_value
      [] c.wb_sel = "PC4"    -> Mask(pc + 4)

\* The ALU's result for the control c at pc with source values a and b.
ResultOf(c, pc, a, b) == Alu(c.alu_op, IF c.use_pc THEN pc ELSE a, IF c.alu_src THEN c.imm ELSE b)

\* The state of the single-cycle machine behind the instruction at s.pc.
Step(program, s) ==
    LET c      == Decode(Fetched(program, s.pc))
        a      == RegRead(s.regs, c.rs1)
        b      == RegRead(s.regs, c.rs2)
        result == ResultOf(c, s.pc, a, b)
    IN [regs |-> RegWrite(s.regs, c.reg_write, c.rd,
                          WriteBack(c, result, s.mem[MemIndex(result)], s.pc)),
        mem  |-> MemWrite(s.mem, c.mem_write, result, b),
        pc   |-> NextPC(c, s.pc, a, result)]

InitialRegs == [r \in Reg |-> 0]
InitialMem  == [a \in 0..(MEM_WORDS - 1) |-> 0]
=============================================================================
