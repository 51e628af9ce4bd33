-------------------------- MODULE MC_ReorderBuffer --------------------------
(* Instances of ReorderBuffer for TLC: one op of each kind the buffer tells *)
(* apart.                                                                   *)
EXTENDS ReorderBuffer, TLC

Descriptor(b, l, s) == [is_branch |-> b, is_load |-> l, is_store |-> s]

MCOps  == {Descriptor(FALSE, FALSE, FALSE), Descriptor(TRUE, FALSE, FALSE),
           Descriptor(FALSE, TRUE, FALSE)}
MCNoOp == Descriptor(FALSE, FALSE, FALSE)
=============================================================================
