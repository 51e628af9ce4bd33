---------------------------- MODULE CommitQueue -----------------------------
(***************************************************************************)
(* What the reorder buffer promises (src/sim/components/ooo/rob.py, "ensures *)
(* in-order commit"): a bounded FIFO of instructions.  An instruction enters *)
(* at the back, is completed in any order, and leaves only from the front,  *)
(* once, and only after it was completed.  A taken branch at the front      *)
(* discards everything behind it.                                           *)
(***************************************************************************)
EXTENDS Naturals, Sequences

CONSTANTS CAPACITY,  \* entries the queue may hold
          Ops,       \* instructions; an op is a record with is_branch, is_load, is_store
          Values     \* results

VARIABLE queue       \* in flight, oldest first

Item == [op : Ops, ready : BOOLEAN, value : Values, branch_taken : BOOLEAN]

TypeOK == queue \in Seq(Item) /\ Len(queue) <= CAPACITY

Init == queue = <<>>

\* Some element not retired in this step receives a result.
Completed(q) ==
    {[q EXCEPT ![i].ready = TRUE, ![i].value = v, ![i].branch_taken = t] :
        i \in DOMAIN q, v \in Values, t \in BOOLEAN}

Front == Head(queue)
Mispredicted == queue # <<>> /\ Front.ready /\ Front.op.is_branch /\ Front.branch_taken

Flush == Mispredicted /\ queue' = <<>>

\* What the clock edge leaves in flight when the front entry is ready: its tail.
Retired == IF queue # <<>> /\ Front.ready THEN Tail(queue) ELSE queue

\* Retire the front if it is ready, then perhaps complete, then perhaps accept.
Advance ==
    /\ ~Mispredicted
    /\ \E done \in {Retired} \cup Completed(Retired) :
         \/ queue' = done
         \/ /\ Len(done) < CAPACITY
            /\ \E op \in Ops, v \in Values :
                 queue' = Append(done, [op |-> op, ready |-> FALSE, value |-> v,
                                        branch_taken |-> FALSE])

Next == Flush \/ Advance

Spec == Init /\ [][Next]_queue
=============================================================================
