---------------------------- MODULE CycleBudget -----------------------------
(***************************************************************************)
(* The configurable machine (src/sim/isa/riscv/presets/configurable.py): the *)
(* single-cycle datapath holds each instruction for the number of cycles    *)
(* its class costs and commits it in the last of them.                      *)
(***************************************************************************)
EXTENDS Datapath

CONSTANTS Programs,   \* functions from word index to instruction
          Profiles    \* cost configurations: functions from Class to Int

Class == {"alu", "load", "store", "branch"}

VARIABLES program, pc, regs, mem,
          costs,     \* CycleBudgetController._costs
          elapsed    \* CycleBudgetController._elapsed
vars == <<program, pc, regs, mem, costs, elapsed>>

\* An instruction takes at least one cycle, whatever is configured.
Clamp(profile) == [k \in Class |-> IF profile[k] < 1 THEN 1 ELSE profile[k]]

Init ==
    /\ program \in Programs
    /\ pc = 0
    /\ regs = InitialRegs
    /\ mem = InitialMem
    /\ costs \in {Clamp(profile) : profile \in Profiles}
    /\ elapsed = 0

-----------------------------------------------------------------------------

Decoded == Decode(Fetched(program, pc))

ClassOf(c) ==
    CASE c.mem_read                    -> "load"
      [] c.mem_write                   -> "store"
      [] c.branch \/ c.jal \/ c.jalr   -> "branch"
      [] OTHER                         -> "alu"

Cost == costs[ClassOf(Decoded)]
LastLate == elapsed >= Cost   \* mutant: counts from zero
Last == elapsed + 1 >= Cost

rs1    == RegRead(regs, Decoded.rs1)
rs2    == RegRead(regs, Decoded.rs2)
Result == Alu(Decoded.alu_op, IF Decoded.use_pc THEN pc ELSE rs1,
                              IF Decoded.alu_src THEN Decoded.imm ELSE rs2)

\* The edge with commit = 1: the gated write enables and the fetch unit.
CommitNow ==
    /\ Last
    /\ regs' = RegWrite(regs, Decoded.reg_write, Decoded.rd,
                        WriteBack(Decoded, Result, mem[MemIndex(Result)], pc))
    /\ mem' = MemWrite(mem, Decoded.mem_write, Result, rs2)
    /\ pc' = NextPC(Decoded, pc, rs1, Result)
    /\ elapsed' = 0
    /\ UNCHANGED <<program, costs>>

\* Mutant: the memory write is not gated.
EagerStore ==
    /\ ~Last
    /\ elapsed' = elapsed + 1
    /\ mem' = MemWrite(mem, Decoded.mem_write, Result, rs2)
    /\ UNCHANGED <<program, pc, regs, costs>>

\* Mutant: a cycle that is not counted.
Uncounted == ~Last /\ UNCHANGED vars

\* The edge with stall = 1.
Hold ==
    /\ ~Last
    /\ elapsed' = elapsed + 1
    /\ UNCHANGED <<program, pc, regs, mem, costs>>

Next == CommitNow \/ Hold

\* The runner calls CPU.tick in a loop: the clock does not stop.
Spec == Init /\ [][Next]_vars /\ WF_vars(Next)

-----------------------------------------------------------------------------
(* Properties.                                                              *)

Oracle == INSTANCE SingleCycle

\* Whatever the costs, the results are those of the single-cycle machine; only
\* the number of cycles differs.
ImplementsOracle == Oracle!Init /\ [][Oracle!Next]_(Oracle!vars)

\* And it never stops doing so.
KeepsCommitting == Oracle!Fairness
=============================================================================
