--------------------------- MODULE MC_Superscalar ---------------------------
(***************************************************************************)
(* Instances of Superscalar for TLC: every program of LENGTH instructions   *)
(* over a small set, then the idle spin.                                    *)
(***************************************************************************)
EXTENDS Superscalar, SequencesExt, TLC

CONSTANT LENGTH

Spin == Branch("BEQ", 0, 0, 0)

Backward(i) == i.opcode = "BRANCH" /\ ToSigned(i.imm) < 0

\* Programs that stay below the end of the address space: two spins at the end
\* stop what jumps over the first, and nothing branches back from address 0.
\* (WideInstructionMemory does not wrap the index of a lane around 2^32, so a
\* group across that boundary is not what the single-cycle machine executes.)
ProgramsOver(n, S) ==
    {[w \in 0..(n + 1) |-> IF w >= n THEN Spin ELSE p[w]] :
        p \in {q \in [0..(n - 1) -> S] : ~Backward(q[0])}}

-----------------------------------------------------------------------------
(* Instruction sets.                                                        *)

\* Dependencies in a group, between groups and through memory, branches both
\* ways and a jump that keeps its return address.
GroupSet == {IAlu("ADD", 1, 1, 2), RType("SUB", 2, 1, 2), Load(2, 0, 0),
             Store(2, 0, 0), Branch("BNE", 1, 2, 8), Branch("BLT", 1, 2, -4),
             Jal(2, 8)}

\* For wider groups: writes of one register and one word in several lanes.
WideSet == {IAlu("ADD", 1, 0, 2), IAlu("ADD", 1, 1, 4), Load(2, 0, 0), Store(1, 0, 0),
            Branch("BNE", 1, 2, -4)}

\* Instructions that need nothing of each other, with immediates equal to the
\* others' destination registers.
IndependentSet == {IAlu("ADD", 1, 0, 2), IAlu("ADD", 2, 0, 1), Load(2, 0, 0), Store(0, 0, 0)}

MCPrograms ==
    [lanes \in {2, 4} |->
        IF lanes = 2
        THEN ProgramsOver(LENGTH, GroupSet) \cup ProgramsOver(LENGTH + 1, IndependentSet)
        ELSE ProgramsOver(LENGTH + 1, WideSet)]

-----------------------------------------------------------------------------
(* These programs stay below the end of the address space.                  *)

CONSTANT STEPS   \* after so many every program has come back to a state it was in

\* The states the single-cycle machine goes through from reset.
Run(p) == FoldLeft(LAMBDA run, n : Append(run, Step(p, Last(run))),
                   <<[pc |-> 0, regs |-> InitialRegs, mem |-> InitialMem]>>,
                   [n \in 1..STEPS |-> n])

\* What the theorems of Superscalar_proofs ask of programs.
ASSUME ProgramsStayBelow ==
    \A lanes \in DOMAIN Programs : \A p \in Programs[lanes] : StaysBelow(p, Range(Run(p)))
=============================================================================
