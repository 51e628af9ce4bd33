----------------------- MODULE MC_ReservationStation ------------------------
(* An instance of ReservationStation for TLC: per tag an instruction whose   *)
(* sources are known, a load, and one waiting for the other tag on each     *)
(* source in turn.                                                          *)
EXTENDS ReservationStation, TLC

CONSTANT v0

MCIssueOps == {[is_load |-> FALSE], [is_load |-> TRUE]}

Known    == [ready |-> TRUE, tag |-> 0, val |-> v0]
Await(t) == [ready |-> FALSE, tag |-> t, val |-> v0]

Instruction(load, s1, s2, t) == [op |-> [is_load |-> load], src1 |-> s1, src2 |-> s2, rob_tag |-> t]

MCIssues ==
    UNION {{Instruction(FALSE, Known, Known, t), Instruction(TRUE, Known, Known, t),
            Instruction(FALSE, Await(1 - t), Known, t),
            Instruction(FALSE, Known, Await(1 - t), t)} : t \in 0..1}
=============================================================================
