---------------------------- MODULE SingleCycle -----------------------------
(***************************************************************************)
(* The single-cycle RISC-V machine (src/sim/isa/riscv/presets/single_cycle  *)
(* .py): one instruction per clock.  The test suite and the cross-model     *)
(* race use it as the oracle every other execution model is compared with;  *)
(* the other models are checked to implement this module.                   *)
(***************************************************************************)
EXTENDS Datapath

VARIABLES program,  \* InstructionMemory._program: any function from word index to instruction
          pc,       \* SimpleFetch._pc
          regs,     \* StandardRegisterFile.regs
          mem       \* DataMemory._mem
vars == <<program, pc, regs, mem>>

Init ==
    /\ pc = 0
    /\ regs = InitialRegs
    /\ mem = InitialMem

\* The state behind the instruction at s.pc.
After(s) == Step(program, s)

\* One clock cycle: everything the instruction at pc does.
Tick ==
    LET next == After([pc |-> pc, regs |-> regs, mem |-> mem])
    IN /\ pc' = next.pc
       /\ regs' = next.regs
       /\ mem' = next.mem
       /\ UNCHANGED program

Next == Tick

\* The runner calls CPU.tick in a loop: the clock does not stop.
Fairness == WF_vars(Next)
Spec == Init /\ [][Next]_vars /\ Fairness
=============================================================================
