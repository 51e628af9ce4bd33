----------------------------- MODULE IssueQueue -----------------------------
(***************************************************************************)
(* What the reservation station promises: a bounded list of instructions in *)
(* issue order from which the oldest runnable one is executed.  It has no   *)
(* slots and no age stamps; ReservationStation is checked to implement it,  *)
(* and the out-of-order machine is built on it.                             *)
(***************************************************************************)
EXTENDS IssueEntry, Sequences

VARIABLE waiting   \* instructions not yet executed, oldest first

TypeOK == waiting \in Seq(Pending) /\ Len(waiting) <= RS_SIZE

Init == waiting = <<>>

full == Len(waiting) = RS_SIZE

\* Positions that may execute this cycle, and the one that does (0: none).
RunnableAt(store_mask, rob_head) ==
    {i \in DOMAIN waiting : Runnable(waiting[i], store_mask, rob_head)}

Selected(store_mask, rob_head) ==
    LET at == RunnableAt(store_mask, rob_head)
    IN IF at = {} THEN 0 ELSE CHOOSE i \in at : \A j \in at : i <= j

\* Mutant: the executed instruction keeps its place.
Retained(i) == waiting

Without(i) == [j \in 1..(Len(waiting) - 1) |-> waiting[IF j < i THEN j ELSE j + 1]]

\* Mutant: the instruction being issued misses the broadcast of its own cycle.
LostWakeup(sel, cdb, issue) ==
    LET kept == IF sel = 0 THEN waiting ELSE Without(sel)
        seen == [j \in DOMAIN kept |-> Snoop(kept[j], cdb)]
    IN waiting' = IF issue # NoInput /\ Len(seen) < RS_SIZE THEN Append(seen, issue) ELSE seen

\* The executed instruction leaves, the others see the broadcast, and so does
\* the instruction issued in the same cycle.  With no room it is lost.
Advance(sel, cdb, issue) ==
    LET kept == IF sel = 0 THEN waiting ELSE Without(sel)
        seen == [j \in DOMAIN kept |-> Snoop(kept[j], cdb)]
    IN waiting' = IF issue # NoInput /\ Len(seen) < RS_SIZE
                  THEN Append(seen, Snoop(issue, cdb))
                  ELSE seen

Flush == waiting' = <<>>

\* Every result the bus can carry for the selected instruction.
Broadcasts(sel) ==
    IF sel = 0 THEN {NoInput} ELSE {[tag |-> waiting[sel].rob_tag, value |-> v] : v \in Values}

Next ==
    \/ Flush
    \/ \E store_mask \in SUBSET Tag, rob_head \in Tag, issue \in Issues \cup {NoInput} :
         LET sel == Selected(store_mask, rob_head)
         IN \E cdb \in Broadcasts(sel) : Advance(sel, cdb, issue)

Spec == Init /\ [][Next]_waiting
=============================================================================
