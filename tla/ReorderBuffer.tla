--------------------------- MODULE ReorderBuffer ----------------------------
(***************************************************************************)
(* The Tomasulo reorder buffer (src/sim/components/ooo/rob.py): a circular  *)
(* buffer of ROB_SIZE entries, a head that commits, a tail that dispatches  *)
(* and an explicit count.                                                   *)
(*                                                                          *)
(* RisingEdge(d, c) is the clock edge with the inputs of the cycle: d is    *)
(* the dispatched op (or NoInput), c the result on the common data bus (or  *)
(* NoInput).  An execution model conjoins it with the edges of its other    *)
(* components.  Spec drives it with every input the ports can carry.        *)
(***************************************************************************)
EXTENDS Integers

CONSTANTS ROB_SIZE,  \* number of entries, 8 in the code
          Ops,       \* dispatch descriptors: records with is_branch, is_load, is_store
          NoOp,      \* descriptor of a free entry, the dispatch fields of _EMPTY_ENTRY
          Values,    \* results carried by the common data bus
          Zero,      \* the value of an entry without a result
          NoInput    \* a port that is not driven this cycle

ASSUME RobAssumption ==
    /\ ROB_SIZE \in Nat \ {0}
    /\ Zero \in Values
    /\ NoInput \notin Ops

VARIABLES entries, head, tail, count
vars == <<entries, head, tail, count>>

Slot  == 0..(ROB_SIZE - 1)
Entry == [valid : BOOLEAN, ready : BOOLEAN, op : Ops \cup {NoOp}, value : Values,
          branch_taken : BOOLEAN]
Completion == [tag : Slot, value : Values, mem_value : Values, branch_taken : BOOLEAN]

EmptyEntry == [valid |-> FALSE, ready |-> FALSE, op |-> NoOp, value |-> Zero,
               branch_taken |-> FALSE]

TypeOK ==
    /\ entries \in [Slot -> Entry]
    /\ head \in Slot
    /\ tail \in Slot
    /\ count \in 0..ROB_SIZE

Init ==
    /\ entries = [s \in Slot |-> EmptyEntry]
    /\ head = 0
    /\ tail = 0
    /\ count = 0

Wrap(x) == x % ROB_SIZE   \* slot numbers wrap around
SuccUnwrapped(s) == s + 1   \* mutant: pointers grow past the last slot
Succ(s) == Wrap(s + 1)

-----------------------------------------------------------------------------
(* Combinational outputs.                                                   *)

full         == count >= ROB_SIZE
empty        == count = 0
dispatch_tag == tail
store_pending_mask == {s \in Slot : entries[s].valid /\ entries[s].op.is_store}

CommitUnready == ~empty /\ entries[head].valid   \* mutant: does not wait for the result
commit_en == ~empty /\ entries[head].valid /\ entries[head].ready
flush     == commit_en /\ entries[head].op.is_branch /\ entries[head].branch_taken

-----------------------------------------------------------------------------
(* The clock edge: flush, or commit then complete then dispatch.            *)

Flush ==
    /\ flush
    /\ entries' = [s \in Slot |-> EmptyEntry]
    /\ head' = 0
    /\ tail' = 0
    /\ count' = 0

AfterCommit ==
    IF commit_en THEN [entries EXCEPT ![head] = EmptyEntry] ELSE entries

\* Results for a slot nobody occupies are dropped; a load keeps the memory value.
CompletedIn(es, c) ==
    IF c # NoInput /\ es[c.tag].valid
    THEN [es EXCEPT ![c.tag].ready = TRUE,
                    ![c.tag].value = IF es[c.tag].op.is_load THEN c.mem_value ELSE c.value,
                    ![c.tag].branch_taken = c.branch_taken]
    ELSE es

DispatchedIn(es, d) ==
    [es EXCEPT ![tail] = [valid |-> TRUE, ready |-> FALSE, op |-> d, value |-> Zero,
                          branch_taken |-> FALSE]]

CountKept == count   \* mutant: a commit gives no room back
CountAfterCommit == IF commit_en THEN count - 1 ELSE count

\* Fullness is judged after the commit of the same edge; a request made while
\* the buffer is full is lost, nothing stalls the dispatcher.
Advance(d, c) ==
    LET dispatches == d # NoInput /\ CountAfterCommit < ROB_SIZE
        completed  == CompletedIn(AfterCommit, c)
    IN /\ ~flush
       /\ head' = IF commit_en THEN Succ(head) ELSE head
       /\ entries' = IF dispatches THEN DispatchedIn(completed, d) ELSE completed
       /\ tail' = IF dispatches THEN Succ(tail) ELSE tail
       /\ count' = IF dispatches THEN CountAfterCommit + 1 ELSE CountAfterCommit

RisingEdge(d, c) == Flush \/ Advance(d, c)

-----------------------------------------------------------------------------
(* The component on its own, driven by every input.                         *)

Next == \/ Flush
        \/ \E d \in Ops \cup {NoInput}, c \in Completion \cup {NoInput} : Advance(d, c)

Spec == Init /\ [][Next]_vars

-----------------------------------------------------------------------------
(* Properties.                                                              *)

\* Slots from head on, in program order.
Position(s) == Wrap(s - head)

\* The pointers, the count and the valid bits agree: the occupied slots are the
\* count slots that start at head, and tail is the slot after the youngest.
\* rob.py keeps the three in separate fields and updates them in separate steps
\* of rising_edge (commit, complete, dispatch).
WindowInv ==
    /\ tail = Wrap(head + count)
    /\ \A s \in Slot : entries[s].valid <=> Position(s) < count

\* The in-flight instructions in program order: what CommitQueue calls queue.
InFlight ==
    [i \in 1..count |->
        LET e == entries[Wrap(head + i - 1)]
        IN [op |-> e.op, ready |-> e.ready, value |-> e.value,
            branch_taken |-> e.branch_taken]]

Queue == INSTANCE CommitQueue WITH CAPACITY <- ROB_SIZE, queue <- InFlight

\* The circular buffer is a FIFO: dispatch order is commit order, an
\* instruction commits once and only after it was completed.
ImplementsCommitQueue == Queue!Spec
=============================================================================
