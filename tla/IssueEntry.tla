----------------------------- MODULE IssueEntry -----------------------------
(***************************************************************************)
(* One instruction waiting for its operands in the reservation station      *)
(* (src/sim/components/ooo/reservation_station.py): capturing results from  *)
(* the common data bus (CDB), and the rule that orders loads after stores.  *)
(***************************************************************************)
EXTENDS Integers

CONSTANTS ROB_SIZE,  \* reorder buffer entries; a tag is a reorder buffer slot
          RS_SIZE,   \* reservation station entries, 4 in the code
          IssueOps,  \* what is executed: records with is_load
          Values,    \* operand values
          Issues,    \* instructions the dispatcher may present
          NoInput    \* a port that is not driven this cycle

Tag     == 0..(ROB_SIZE - 1)
Operand == [ready : BOOLEAN, tag : Tag, val : Values]
Pending == [op : IssueOps, src1 : Operand, src2 : Operand, rob_tag : Tag]
Broadcast == [tag : Tag, value : Values]

ASSUME IssueAssumption == Issues \subseteq Pending /\ NoInput \notin Issues

\* Mutant: the source keeps the tag it waited for as its value.
CaptureTag(src, cdb) ==
    IF cdb # NoInput /\ ~src.ready /\ src.tag = cdb.tag
    THEN [src EXCEPT !.ready = TRUE, !.val = cdb.tag]
    ELSE src

\* An unresolved source takes the value broadcast under the tag it waits for.
Capture(src, cdb) ==
    IF cdb # NoInput /\ ~src.ready /\ src.tag = cdb.tag
    THEN [src EXCEPT !.ready = TRUE, !.val = cdb.value]
    ELSE src

Snoop(e, cdb) == [e EXCEPT !.src1 = Capture(@, cdb), !.src2 = Capture(@, cdb)]

\* Mutants: loads ignore the stores before them, or wait for every store.
IgnoresStores(e, store_mask, rob_head) == FALSE
AnyStorePending(e, store_mask, rob_head) == store_mask # {}

\* Age is the distance from the reorder buffer's head.
OlderStorePending(e, store_mask, rob_head) ==
    LET age(slot) == (slot - rob_head) % ROB_SIZE
    IN \E slot \in store_mask : age(slot) < age(e.rob_tag)

\* Both sources resolved, and a load additionally has no older store pending.
Runnable(e, store_mask, rob_head) ==
    /\ e.src1.ready /\ e.src2.ready
    /\ e.op.is_load => ~OlderStorePending(e, store_mask, rob_head)
=============================================================================
