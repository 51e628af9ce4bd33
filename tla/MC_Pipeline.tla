---------------------------- MODULE MC_Pipeline -----------------------------
(***************************************************************************)
(* Instances of Pipeline for TLC: every program of LENGTH instructions over *)
(* a small set, and of one less over a larger, then the idle spin (twice,   *)
(* for a jump over the first).                                              *)
(***************************************************************************)
EXTENDS Pipeline, TLC

CONSTANT LENGTH

Spin == Branch("BEQ", 0, 0, 0)

ProgramsOver(n, S) ==
    {[w \in 0..(n + 1) |-> IF w >= n THEN Spin ELSE p[w]] : p \in [0..(n - 1) -> S]}

-----------------------------------------------------------------------------
(* Instruction sets.                                                        *)

\* Chains of dependencies through registers, loads, branches both ways.
DeepSet == {IAlu("ADD", 1, 1, 2), RType("SUB", 2, 1, 2), Load(2, 0, 0),
            Branch("BNE", 1, 2, 8), Branch("BLT", 1, 2, -4)}

WideSet == DeepSet \cup {Store(2, 0, 0), Auipc(1, 8)}

\* A loop around an indirect jump that goes somewhere else the second time.
IndirectLoopSet == {IAlu("ADD", 1, 1, 4), Jalr(0, 1, 4), Branch("BEQ", 0, 0, -8)}

-----------------------------------------------------------------------------
(* Programs by prediction stage.  In ID also a jump that keeps its return   *)
(* address and a return through it; in IF, where those differ from the      *)
(* single-cycle machine, a jump without either.                             *)

MCPrograms ==
    [stage \in {"id", "if"} |->
        IF stage = "id"
        THEN ProgramsOver(LENGTH, DeepSet)
               \cup ProgramsOver(LENGTH - 1, WideSet \cup {Jal(2, 8), Jalr(1, 2, -4)})
        ELSE ProgramsOver(LENGTH, DeepSet)
               \cup ProgramsOver(LENGTH - 1, WideSet \cup {Jal(0, -4)})]

IndirectPrograms == [stage \in {"if"} |-> ProgramsOver(LENGTH - 1, IndirectLoopSet)]
=============================================================================
