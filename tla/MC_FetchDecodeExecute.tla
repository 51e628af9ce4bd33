----------------------- MODULE MC_FetchDecodeExecute ------------------------
(***************************************************************************)
(* Instance of FetchDecodeExecute for TLC: every program of LENGTH          *)
(* instructions, one of each class and the dependencies between them, then  *)
(* the idle spin (twice, for a jump over the first).                        *)
(***************************************************************************)
EXTENDS FetchDecodeExecute, TLC

CONSTANT LENGTH

InstrSet == {IAlu("ADD", 1, 1, 2), RType("SUB", 2, 1, 2), Load(2, 0, 0), Store(1, 0, 0),
             Branch("BNE", 1, 2, 8), Jal(2, 8), Jalr(1, 2, -4)}

MCPrograms == {[w \in 0..(LENGTH + 1) |-> IF w >= LENGTH THEN Branch("BEQ", 0, 0, 0) ELSE p[w]] :
                  p \in [0..(LENGTH - 1) -> InstrSet]}

\* Costs below one are configurations the controller clamps.
MCProfiles ==
    {FETDECEXE_COSTS,
     [alu |-> 1, load |-> 1, store |-> 1, branch |-> 1],
     [alu |-> -1, load |-> 3, store |-> 2, branch |-> 0],
     [alu |-> 2, load |-> 0, store |-> 5, branch |-> 4]}
=============================================================================
