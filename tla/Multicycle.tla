----------------------------- MODULE Multicycle -----------------------------
(***************************************************************************)
(* The multicycle RISC-V machine (src/sim/isa/riscv/presets/multicycle.py): *)
(* a controller walks each instruction through FETCH, DECODE, EXECUTE and,  *)
(* for loads and stores, MEMORY; latches carry its values between phases.   *)
(***************************************************************************)
EXTENDS Datapath

CONSTANT Programs   \* functions from word index to instruction

VARIABLES program,   \* InstructionMemory._program
          pc,        \* SimpleFetch._pc
          phase,     \* MultiCycleController._phase
          control,   \* its _mem_read, _mem_write, _reg_write, sampled in DECODE
          ir, reg_a, reg_b, pc_latch, alu_out,   \* the latches
          regs, mem
vars == <<program, pc, phase, control, ir, reg_a, reg_b, pc_latch, alu_out, regs, mem>>

Phase == {"FETCH", "DECODE", "EXECUTE", "MEMORY"}

TypeOK ==
    /\ phase \in Phase
    /\ control \in [mem_read : BOOLEAN, mem_write : BOOLEAN, reg_write : BOOLEAN]
    /\ {pc, reg_a, reg_b, pc_latch, alu_out} \subseteq Word
    /\ regs \in [Reg -> Word]
    /\ mem \in [0..(MEM_WORDS - 1) -> Word]

Init ==
    /\ program \in Programs
    /\ pc = 0
    /\ phase = "FETCH"
    /\ control = [mem_read |-> FALSE, mem_write |-> FALSE, reg_write |-> FALSE]
    /\ ir = [Nop EXCEPT !.opcode = "NONE"]   \* the word 0 is no instruction
    /\ reg_a = 0 /\ reg_b = 0 /\ pc_latch = 0 /\ alu_out = 0
    /\ regs = InitialRegs
    /\ mem = InitialMem

-----------------------------------------------------------------------------
(* The datapath works on the latched instruction in every phase; the        *)
(* controller's enables decide what it may change.                          *)

Decoded == Decode(ir)

\* Mutant: a difference that is not cut to the width of a word.
Unmasked == IF Decoded.alu_op = "SUB" THEN reg_a - reg_b
            ELSE Alu(Decoded.alu_op, reg_a, IF Decoded.alu_src THEN Decoded.imm ELSE reg_b)
Result == Alu(Decoded.alu_op, IF Decoded.use_pc THEN pc_latch ELSE reg_a,
                              IF Decoded.alu_src THEN Decoded.imm ELSE reg_b)

WbData == WriteBack(Decoded, Result, mem[MemIndex(alu_out)], pc_latch)

\* gate_reg_wen: the decoder's enable and the controller's
WriteRegister(enabled) ==
    regs' = RegWrite(regs, Decoded.reg_write /\ enabled, Decoded.rd, WbData)

UsesMemory == control.mem_read \/ control.mem_write

\* The only phase in which fetch is not stalled.
Fetch ==
    /\ phase = "FETCH"
    /\ phase' = "DECODE"
    /\ ir' = Fetched(program, pc)
    /\ pc_latch' = pc
    /\ pc' = Mask(pc + 4)
    /\ UNCHANGED <<program, control, reg_a, reg_b, alu_out, regs, mem>>

DecodePhase ==
    /\ phase = "DECODE"
    /\ phase' = "EXECUTE"
    /\ control' = [mem_read |-> Decoded.mem_read, mem_write |-> Decoded.mem_write,
                   reg_write |-> Decoded.reg_write]
    /\ reg_a' = RegRead(regs, Decoded.rs1)
    /\ reg_b' = RegRead(regs, Decoded.rs2)
    /\ UNCHANGED <<program, pc, ir, pc_latch, alu_out, regs, mem>>

\* Mutant: a load is written back in EXECUTE too, before its address is latched.
AlwaysWrites == TRUE
WritesInExecute == ~UsesMemory

\* Branches are resolved here and nowhere else; a register write that needs no
\* memory is made here.
Execute ==
    /\ phase = "EXECUTE"
    /\ phase' = IF UsesMemory THEN "MEMORY" ELSE "FETCH"
    /\ alu_out' = Result
    /\ WriteRegister(WritesInExecute /\ control.reg_write)
    /\ pc' = IF Redirects(Decoded, Result) THEN NextPC(Decoded, pc_latch, reg_a, Result) ELSE pc
    /\ UNCHANGED <<program, control, ir, reg_a, reg_b, pc_latch, mem>>

Memory ==
    /\ phase = "MEMORY"
    /\ phase' = "FETCH"
    /\ mem' = MemWrite(mem, Decoded.mem_write /\ control.mem_write, alu_out, reg_b)
    /\ WriteRegister(control.reg_write)
    /\ UNCHANGED <<program, pc, control, ir, reg_a, reg_b, pc_latch, alu_out>>

Next == Fetch \/ DecodePhase \/ Execute \/ Memory

\* The runner calls CPU.tick in a loop: the clock does not stop.
Spec == Init /\ [][Next]_vars /\ WF_vars(Next)

-----------------------------------------------------------------------------
(* Properties.                                                              *)

\* The program counter of the instruction in progress: fetch has moved on.
CommittedPC == IF phase = "FETCH" THEN pc ELSE pc_latch

Oracle == INSTANCE SingleCycle WITH pc <- CommittedPC

\* An instruction changes registers, memory and program counter in one and the
\* same edge, its last, and exactly as the single-cycle machine does.
ImplementsOracle == Oracle!Init /\ [][Oracle!Next]_(Oracle!vars)

\* And it never stops doing so.
KeepsCommitting == Oracle!Fairness
=============================================================================
