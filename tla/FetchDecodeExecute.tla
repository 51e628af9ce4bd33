------------------------- MODULE FetchDecodeExecute -------------------------
(***************************************************************************)
(* The multicycle machine and the configurable machine clocked together on  *)
(* one program.  presets/configurable.py says the classic cost profile      *)
(* {alu 3, load 4, store 4, branch 3} reproduces the multicycle machine, so *)
(* under that profile the two must agree cycle by cycle; under every other  *)
(* they differ only in time.                                                *)
(***************************************************************************)
EXTENDS Datapath

CONSTANTS Programs,   \* functions from word index to instruction
          Profiles    \* cost configurations of the configurable machine

VARIABLES program,
          mpc, phase, control, ir, reg_a, reg_b, pc_latch, alu_out, mregs, mmem,
          bpc, bregs, bmem, costs, elapsed

M == INSTANCE Multicycle WITH pc <- mpc, regs <- mregs, mem <- mmem
B == INSTANCE CycleBudget WITH pc <- bpc, regs <- bregs, mem <- bmem

ASSUME ProgramsAssumption == \A p \in Programs : \A w \in DOMAIN p : p[w] \in Instruction
ASSUME ProfilesAssumption == Profiles \subseteq [B!Class -> Int]

\* The classic costs, of budget_controller.py.
FETDECEXE_COSTS == [alu |-> 3, load |-> 4, store |-> 4, branch |-> 3]

vars == <<M!vars, B!vars>>

Init == M!Init /\ B!Init
Next == M!Next /\ B!Next

\* The runner calls CPU.tick in a loop: no clock stops.
Spec == Init /\ [][Next]_vars /\ WF_vars(Next)

-----------------------------------------------------------------------------
(* Properties.                                                              *)

\* Types of the multicycle machine, whose latches could be wider than a word.
TypeOK == M!TypeOK

\* An instruction of the multicycle machine changes registers, memory and
\* program counter in one and the same edge, its last, and exactly as the
\* single-cycle machine does.
MulticycleImplementsOracle == M!ImplementsOracle

\* Whatever the costs, the results of the configurable machine are those of the
\* single-cycle machine; only the number of cycles differs.
BudgetImplementsOracle == B!ImplementsOracle

\* Neither machine stops completing instructions: the controller leaves every
\* phase, and the cycle counter reaches every cost.
BothKeepCommitting == M!KeepsCommitting /\ B!KeepsCommitting

\* Under the classic profile the two machines show the same registers and
\* memory in every cycle, and start every instruction in the same cycle at the
\* same address: the finite state controller and the cycle counter are two
\* descriptions of one schedule.
InLockstep ==
    costs = FETDECEXE_COSTS =>
        /\ mregs = bregs
        /\ mmem = bmem
        /\ M!CommittedPC = bpc
        /\ (phase = "FETCH") <=> (elapsed = 0)
=============================================================================
