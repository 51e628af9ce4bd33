------------------------ MODULE ReorderBuffer_proofs ------------------------
(***************************************************************************)
(* Proofs about ReorderBuffer for every buffer size, every set of ops and   *)
(* every set of values.                                                     *)
(***************************************************************************)
EXTENDS ReorderBuffer, SequenceTheorems, TLAPS

\* Wrapping a number below twice the size subtracts the size at most once.
LEMMA ModOfSum ==
    ASSUME NEW n \in Nat \ {0}, NEW x \in 0..(2 * n - 1)
    PROVE  x % n = IF x < n THEN x ELSE x - n
BY Z3

\* Wrapping a difference of two indices adds the size at most once.
LEMMA ModOfDifference ==
    ASSUME NEW n \in Nat \ {0}, NEW x \in (1 - n)..(n - 1)
    PROVE  x % n = IF x < 0 THEN x + n ELSE x
BY Z3

LEMMA WrapSum ==
    ASSUME NEW x \in 0..(2 * ROB_SIZE - 1)
    PROVE  Wrap(x) = IF x < ROB_SIZE THEN x ELSE x - ROB_SIZE
BY ModOfSum, RobAssumption DEF Wrap

LEMMA WrapDifference ==
    ASSUME NEW x \in (1 - ROB_SIZE)..(ROB_SIZE - 1)
    PROVE  Wrap(x) = IF x < 0 THEN x + ROB_SIZE ELSE x
BY ModOfDifference, RobAssumption DEF Wrap

\* The successor of a slot is a slot.
LEMMA SuccIsSlot == ASSUME NEW s \in Slot PROVE Succ(s) \in Slot
BY WrapSum, RobAssumption DEF Slot, Succ

-----------------------------------------------------------------------------
(* The pieces of a clock edge keep the type of the entries.                 *)

LEMMA EmptyEntryType == EmptyEntry \in Entry
BY RobAssumption DEF EmptyEntry, Entry

LEMMA AfterCommitType == TypeOK => AfterCommit \in [Slot -> Entry]
BY EmptyEntryType DEF TypeOK, AfterCommit

LEMMA CompletedInType ==
    ASSUME NEW es \in [Slot -> Entry], NEW c \in Completion \cup {NoInput}
    PROVE  CompletedIn(es, c) \in [Slot -> Entry]
<1>1. CASE c # NoInput /\ es[c.tag].valid
  <2> DEFINE e == es[c.tag]
             v == IF e.op.is_load THEN c.mem_value ELSE c.value
             f == [e EXCEPT !.ready = TRUE, !.value = v, !.branch_taken = c.branch_taken]
  <2>1. c.tag \in Slot /\ v \in Values /\ c.branch_taken \in BOOLEAN
    BY <1>1 DEF Completion
  <2>2. e \in Entry
    BY <2>1
  <2>3. f \in Entry
    BY <2>1, <2>2 DEF Entry
  <2>4. CompletedIn(es, c) = [es EXCEPT ![c.tag] = f]
    BY <1>1 DEF CompletedIn
  <2> QED BY <2>1, <2>3, <2>4
<1>2. CASE ~(c # NoInput /\ es[c.tag].valid)
  BY <1>2 DEF CompletedIn
<1> QED BY <1>1, <1>2

LEMMA DispatchedInType ==
    ASSUME TypeOK, NEW es \in [Slot -> Entry], NEW d \in Ops
    PROVE  DispatchedIn(es, d) \in [Slot -> Entry]
BY RobAssumption DEF TypeOK, DispatchedIn, Entry

-----------------------------------------------------------------------------

LEMMA TypeInvariance ==
    ASSUME TypeOK, [Next]_vars
    PROVE  TypeOK'
<1> USE RobAssumption
<1>1. CASE Flush
  BY <1>1, EmptyEntryType DEF Flush, TypeOK, Slot
<1>2. ASSUME NEW d \in Ops \cup {NoInput}, NEW c \in Completion \cup {NoInput}, Advance(d, c)
      PROVE  TypeOK'
  <2> DEFINE completed == CompletedIn(AfterCommit, c)
  <2>1. completed \in [Slot -> Entry]
    BY AfterCommitType, CompletedInType
  <2>2. entries' \in [Slot -> Entry]
    BY <1>2, <2>1, DispatchedInType DEF Advance
  <2>3. head' \in Slot /\ tail' \in Slot
    BY <1>2, SuccIsSlot DEF Advance, TypeOK
  <2>4. count' \in 0..ROB_SIZE
    BY <1>2 DEF Advance, TypeOK, CountAfterCommit, commit_en, empty
  <2> QED BY <2>2, <2>3, <2>4 DEF TypeOK
<1>3. CASE UNCHANGED vars
  BY <1>3 DEF vars, TypeOK
<1> QED BY <1>1, <1>2, <1>3 DEF Next

\* The fields of the reorder buffer keep their types whatever the ports carry.
THEOREM TypeCorrect == Spec => []TypeOK
<1>1. Init => TypeOK
  BY RobAssumption, EmptyEntryType DEF Init, TypeOK, Slot
<1> QED BY <1>1, TypeInvariance, PTL DEF Spec

-----------------------------------------------------------------------------
(* The window.  Position unfolds to linear arithmetic, so that what happens *)
(* to the window at an edge is a matter of comparing slot numbers.          *)

LEMMA DistanceIs ==
    ASSUME NEW s \in Slot, NEW h \in Slot
    PROVE  Wrap(s - h) = IF s < h THEN s - h + ROB_SIZE ELSE s - h
BY WrapDifference, RobAssumption DEF Slot

LEMMA SuccIs ==
    ASSUME NEW s \in Slot
    PROVE  Succ(s) = IF s = ROB_SIZE - 1 THEN 0 ELSE s + 1
BY WrapSum, RobAssumption DEF Slot, Succ

\* Where the window ends, for any start and any length.
LEMMA EndIs ==
    ASSUME NEW h \in Slot, NEW n \in 0..ROB_SIZE
    PROVE  Wrap(h + n) = IF h + n < ROB_SIZE THEN h + n ELSE h + n - ROB_SIZE
BY WrapSum, RobAssumption DEF Slot

\* A result changes no valid bit.
LEMMA CompletionKeepsValid ==
    ASSUME NEW es \in [Slot -> Entry], NEW c \in Completion \cup {NoInput}, NEW s \in Slot
    PROVE  CompletedIn(es, c)[s].valid = es[s].valid
<1>1. CASE c # NoInput /\ es[c.tag].valid
  <2> DEFINE e == es[c.tag]
             f == [e EXCEPT !.ready = TRUE,
                            !.value = IF e.op.is_load THEN c.mem_value ELSE c.value,
                            !.branch_taken = c.branch_taken]
  <2>1. c.tag \in Slot
    BY <1>1 DEF Completion
  <2>2. f.valid = e.valid
    BY <2>1 DEF Entry
  <2>3. CompletedIn(es, c) = [es EXCEPT ![c.tag] = f]
    BY <1>1 DEF CompletedIn
  <2> QED BY <2>1, <2>2, <2>3
<1>2. CASE ~(c # NoInput /\ es[c.tag].valid)
  BY <1>2 DEF CompletedIn
<1> QED BY <1>1, <1>2

LEMMA WindowStep ==
    ASSUME TypeOK, WindowInv, [Next]_vars
    PROVE  WindowInv'
<1> USE RobAssumption
<1>1. CASE Flush
  <2>1. tail' = 0 /\ head' = 0 /\ count' = 0
    BY <1>1 DEF Flush
  <2>2. tail' = Wrap(head' + count')
    BY <2>1, EndIs DEF Slot
  <2>3. \A s \in Slot : ~entries'[s].valid
    BY <1>1 DEF Flush, EmptyEntry
  <2>4. ASSUME NEW s \in Slot PROVE ~(Wrap(s - head') < count')
    <3>1. Wrap(s - head') = IF s < head' THEN s - head' + ROB_SIZE ELSE s - head'
      BY <2>1, DistanceIs DEF Slot
    <3> QED BY <3>1, <2>1 DEF Slot
  <2> QED BY <2>2, <2>3, <2>4 DEF WindowInv, Position
<1>2. ASSUME NEW d \in Ops \cup {NoInput}, NEW c \in Completion \cup {NoInput}, Advance(d, c)
      PROVE  WindowInv'
  <2> DEFINE n == CountAfterCommit
             h == IF commit_en THEN Succ(head) ELSE head
             dispatches == d # NoInput /\ n < ROB_SIZE
             completed == CompletedIn(AfterCommit, c)
  <2>1. h \in Slot /\ h = head'
    BY <1>2, SuccIsSlot DEF Advance, TypeOK
  <2>2. n \in 0..ROB_SIZE
    BY DEF TypeOK, CountAfterCommit, commit_en, empty
  <2>3. completed \in [Slot -> Entry]
    BY AfterCommitType, CompletedInType
  (* The commit moves the front of the window past the retired slot. *)
  <2>4. tail = Wrap(h + n)
    BY <2>1, <2>2, EndIs, SuccIs DEF TypeOK, WindowInv, CountAfterCommit, commit_en, empty, Slot
  <2>5. \A s \in Slot : completed[s].valid <=> Wrap(s - h) < n
    <3> SUFFICES ASSUME NEW s \in Slot
                 PROVE  completed[s].valid <=> Wrap(s - h) < n
      OBVIOUS
    <3>1. completed[s].valid = AfterCommit[s].valid
      BY AfterCommitType, CompletionKeepsValid
    <3>2. CASE commit_en
      <4>1. AfterCommit[s].valid <=> s # head /\ entries[s].valid
        BY <3>2 DEF AfterCommit, TypeOK, EmptyEntry
      <4>2. s # head /\ Wrap(s - head) < count <=> Wrap(s - h) < n
        <5>1. head \in Slot /\ h = Succ(head) /\ n = count - 1 /\ count \in 0..ROB_SIZE
          BY <3>2 DEF TypeOK, CountAfterCommit
        <5>2. h = IF head = ROB_SIZE - 1 THEN 0 ELSE head + 1
          BY <5>1, SuccIs
        <5>3. Wrap(s - head) = IF s < head THEN s - head + ROB_SIZE ELSE s - head
          BY <5>1, DistanceIs
        <5>4. Wrap(s - h) = IF s < h THEN s - h + ROB_SIZE ELSE s - h
          BY <2>1, DistanceIs
        <5> HIDE DEF h, n
        <5> QED BY <5>1, <5>2, <5>3, <5>4 DEF Slot
      <4> QED BY <3>1, <4>1, <4>2 DEF WindowInv, Position
    <3>3. CASE ~commit_en
      BY <3>1, <3>3 DEF AfterCommit, CountAfterCommit, WindowInv, Position
    <3> QED BY <3>2, <3>3
  (* The dispatch takes the slot after its end. *)
  <2>6. CASE dispatches
    <3>1. tail' = Succ(tail) /\ count' = n + 1 /\ entries' = DispatchedIn(completed, d)
      BY <1>2, <2>6 DEF Advance
    <3>2. tail' = Wrap(head' + count')
      <4>1. Wrap(h + n) = IF h + n < ROB_SIZE THEN h + n ELSE h + n - ROB_SIZE
        BY <2>1, <2>2, EndIs
      <4>2. n + 1 \in 0..ROB_SIZE
        BY <2>2, <2>6
      <4>3. Wrap(h + (n + 1))
              = IF h + (n + 1) < ROB_SIZE THEN h + (n + 1) ELSE h + (n + 1) - ROB_SIZE
        BY <2>1, <4>2, EndIs
      <4>4. tail' = IF tail = ROB_SIZE - 1 THEN 0 ELSE tail + 1
        BY <3>1, SuccIs DEF TypeOK
      <4>5. head' = h /\ count' = n + 1 /\ tail = Wrap(h + n)
        BY <3>1, <2>1, <2>4
      <4> HIDE DEF h, n
      <4>6. tail' = Wrap(h + (n + 1))
        BY <4>1, <4>2, <4>3, <4>4, <4>5, <2>1, <2>2 DEF Slot
      <4> QED BY <4>5, <4>6
    <3>3. \A s \in Slot : entries'[s].valid <=> s = tail \/ completed[s].valid
      BY <3>1, <2>3 DEF DispatchedIn, TypeOK
    <3>4. \A s \in Slot :
             s = tail \/ Wrap(s - h) < n <=> Wrap(s - h) < n + 1
      <4>1. Wrap(h + n) = IF h + n < ROB_SIZE THEN h + n ELSE h + n - ROB_SIZE
        BY <2>1, <2>2, EndIs
      <4>2. ASSUME NEW s \in Slot
            PROVE  Wrap(s - h) = IF s < h THEN s - h + ROB_SIZE ELSE s - h
        BY <2>1, DistanceIs
      <4>3. n \in 0..ROB_SIZE /\ n < ROB_SIZE /\ h \in Slot /\ tail = Wrap(h + n)
        BY <2>1, <2>2, <2>4, <2>6
      <4> HIDE DEF h, n
      <4> SUFFICES ASSUME NEW s \in Slot
                   PROVE  s = tail \/ Wrap(s - h) < n <=> Wrap(s - h) < n + 1
        OBVIOUS
      <4> QED BY <4>1, <4>2, <4>3 DEF Slot
    <3> HIDE DEF h, n, completed
    <3> QED BY <3>1, <3>2, <3>3, <3>4, <2>1, <2>5 DEF WindowInv, Position
  <2>7. CASE ~dispatches
    <3>1. tail' = tail /\ count' = n /\ entries' = completed
      BY <1>2, <2>7 DEF Advance
    <3> HIDE DEF h, n, completed
    <3> QED BY <3>1, <2>1, <2>4, <2>5 DEF WindowInv, Position
  <2> QED BY <2>6, <2>7
<1>3. CASE UNCHANGED vars
  BY <1>3 DEF vars, WindowInv, Position
<1> QED BY <1>1, <1>2, <1>3 DEF Next

\* Pointers, count and valid bits of the buffer always describe one window:
\* whatever is dispatched and completed, and in whatever slots, no entry is
\* lost, overwritten or committed out of a gap.
THEOREM WindowCorrect == Spec => []WindowInv
<1>1. Init => WindowInv
  <2> SUFFICES ASSUME Init PROVE WindowInv
    OBVIOUS
  <2>1. tail = Wrap(head + count)
    BY EndIs, RobAssumption DEF Init, Slot
  <2>2. \A s \in Slot : ~entries[s].valid
    BY DEF Init, EmptyEntry
  <2>3. ASSUME NEW s \in Slot PROVE ~(Position(s) < count)
    <3>1. head = 0 /\ count = 0 /\ head \in Slot
      BY RobAssumption DEF Init, Slot
    <3>2. Wrap(s - head) = IF s < head THEN s - head + ROB_SIZE ELSE s - head
      BY <3>1, DistanceIs
    <3> QED BY <3>1, <3>2 DEF Position, Slot
  <2> QED BY <2>1, <2>2, <2>3 DEF WindowInv
<1> QED BY <1>1, TypeCorrect, WindowStep, PTL DEF Spec

-----------------------------------------------------------------------------
(* The buffer is a FIFO.  QueueOf reads a window off the slots; a clock edge *)
(* commits, completes and dispatches, and each of the three does to the      *)
(* window what CommitQueue does to its queue.                                *)

ItemOf(e) == [op |-> e.op, ready |-> e.ready, value |-> e.value, branch_taken |-> e.branch_taken]
QueueOf(es, h, n) == [i \in 1..n |-> ItemOf(es[Wrap(h + i - 1)])]

\* An occupied slot holds what was dispatched, never the descriptor of a free one.
ValidDispatched == \A s \in Slot : entries[s].valid => entries[s].op \in Ops

\* Items are told apart by their fields.
LEMMA ItemsEqual ==
    ASSUME NEW i \in Queue!Item, NEW j \in Queue!Item,
           i.op = j.op, i.ready = j.ready, i.value = j.value, i.branch_taken = j.branch_taken
    PROVE  i = j
BY DEF Queue!Item

\* The entry at place i of a window lies in a slot at distance i - 1.
LEMMA PlaceIsSlot ==
    ASSUME NEW h \in Slot, NEW i \in 1..ROB_SIZE
    PROVE  /\ Wrap(h + i - 1) \in Slot
           /\ Wrap(Wrap(h + i - 1) - h) = i - 1
<1>1. Wrap(h + (i - 1)) = IF h + (i - 1) < ROB_SIZE THEN h + (i - 1) ELSE h + (i - 1) - ROB_SIZE
  BY EndIs, RobAssumption
<1>2. h + i - 1 = h + (i - 1)
  BY RobAssumption DEF Slot
<1>3. Wrap(h + i - 1) \in Slot
  BY <1>1, <1>2, RobAssumption DEF Slot
<1>4. Wrap(Wrap(h + i - 1) - h) = IF Wrap(h + i - 1) < h THEN Wrap(h + i - 1) - h + ROB_SIZE
                                 ELSE Wrap(h + i - 1) - h
  BY <1>3, DistanceIs
<1> QED BY <1>1, <1>2, <1>3, <1>4, RobAssumption DEF Slot

\* Every slot of a window has a place in it.
LEMMA SlotHasPlace ==
    ASSUME NEW h \in Slot, NEW s \in Slot
    PROVE  /\ Wrap(s - h) \in Slot
           /\ Wrap(s - h) + 1 \in 1..ROB_SIZE
           /\ Wrap(h + (Wrap(s - h) + 1) - 1) = s
<1>1. Wrap(s - h) = IF s < h THEN s - h + ROB_SIZE ELSE s - h
  BY DistanceIs
<1>2. Wrap(s - h) \in 0..ROB_SIZE
  BY <1>1, RobAssumption DEF Slot
<1>3. h + (Wrap(s - h) + 1) - 1 = h + Wrap(s - h)
  BY <1>1, RobAssumption DEF Slot
<1>4. Wrap(h + Wrap(s - h)) = IF h + Wrap(s - h) < ROB_SIZE THEN h + Wrap(s - h)
                              ELSE h + Wrap(s - h) - ROB_SIZE
  BY <1>2, EndIs
<1> QED BY <1>1, <1>3, <1>4, RobAssumption DEF Slot

LEMMA QueueOfType ==
    ASSUME NEW es \in [Slot -> Entry], NEW h \in Slot, NEW n \in 0..ROB_SIZE,
           \A s \in Slot : Wrap(s - h) < n => es[s].op \in Ops
    PROVE  /\ QueueOf(es, h, n) \in Seq(Queue!Item)
           /\ Len(QueueOf(es, h, n)) = n
           /\ DOMAIN QueueOf(es, h, n) = 1..n
<1>1. ASSUME NEW i \in 1..n
      PROVE  ItemOf(es[Wrap(h + i - 1)]) \in Queue!Item
  <2> DEFINE s == Wrap(h + i - 1)
  <2>1. s \in Slot /\ Wrap(s - h) < n
    BY PlaceIsSlot, RobAssumption
  <2>2. es[s] \in Entry /\ es[s].op \in Ops
    BY <2>1
  <2> QED BY <2>2 DEF ItemOf, Queue!Item, Entry
<1>2. QueueOf(es, h, n) \in [1..n -> Queue!Item]
  BY <1>1 DEF QueueOf
<1> QED BY <1>2, RobAssumption

\* What a result in slot t does to a window: the entry in that slot is completed.
LEMMA CompletionInWindow ==
    ASSUME NEW es \in [Slot -> Entry], NEW h \in Slot, NEW n \in 0..ROB_SIZE,
           \A s \in Slot : es[s].valid <=> Wrap(s - h) < n,
           \A s \in Slot : es[s].valid => es[s].op \in Ops,
           NEW c \in Completion \cup {NoInput}
    PROVE  LET q == QueueOf(es, h, n)
           IN QueueOf(CompletedIn(es, c), h, n) \in {q} \cup Queue!Completed(q)
<1> DEFINE q == QueueOf(es, h, n)
           done == CompletedIn(es, c)
<1>1. CASE c # NoInput /\ es[c.tag].valid
  <2> DEFINE t == c.tag
             k == Wrap(t - h) + 1
             v == IF es[t].op.is_load THEN c.mem_value ELSE c.value
             e == [es[t] EXCEPT !.ready = TRUE, !.value = v, !.branch_taken = c.branch_taken]
  <2>1. t \in Slot /\ v \in Values /\ c.branch_taken \in BOOLEAN
    BY <1>1 DEF Completion
  <2>2. k \in 1..n /\ Wrap(h + k - 1) = t
    <3>1. Wrap(t - h) \in Slot /\ Wrap(h + (Wrap(t - h) + 1) - 1) = t
      BY <2>1, SlotHasPlace
    <3>2. Wrap(t - h) < n
      BY <1>1, <2>1
    <3> HIDE DEF t, v, e
    <3> QED BY <3>1, <3>2, RobAssumption DEF Slot
  <2>3. done = [es EXCEPT ![t] = e]
    BY <1>1 DEF CompletedIn
  <2>4. ASSUME NEW i \in 1..n, i # k
        PROVE  Wrap(h + i - 1) # t
    <3>1. i \in 1..ROB_SIZE /\ k \in 1..ROB_SIZE
      BY <2>2, RobAssumption
    <3> QED BY <3>1, <2>2, <2>4, PlaceIsSlot
  <2>5. ASSUME NEW i \in 1..n
        PROVE  ItemOf(done[Wrap(h + i - 1)]) = IF i = k THEN ItemOf(e) ELSE q[i]
    <3>1. Wrap(h + i - 1) \in Slot
      BY PlaceIsSlot, RobAssumption
    <3> QED BY <2>1, <2>2, <2>3, <2>4, <3>1 DEF QueueOf
  <2>6. ItemOf(e) = [q[k] EXCEPT !.ready = TRUE, !.value = v, !.branch_taken = c.branch_taken]
    <3>1. q[k] = ItemOf(es[t])
      BY <2>2 DEF QueueOf
    <3>2. es[t] \in Entry
      BY <2>1
    <3>3. es[t].op \in Ops
      BY <1>1, <2>1
    <3> HIDE DEF v, k, q, t
    <3> DEFINE i == q[k]
               j == [i EXCEPT !.ready = TRUE, !.value = v, !.branch_taken = c.branch_taken]
    <3>4. i \in Queue!Item
      BY <3>1, <3>2, <3>3 DEF ItemOf, Entry, Queue!Item
    <3>5. j \in Queue!Item
      BY <3>4, <2>1 DEF Queue!Item
    <3>6. /\ e.op = es[t].op /\ e.ready = TRUE /\ e.value = v
          /\ e.branch_taken = c.branch_taken
      BY <3>2, <2>1 DEF Entry
    <3>7. /\ j.op = i.op /\ j.ready = TRUE /\ j.value = v /\ j.branch_taken = c.branch_taken
      BY <3>4, <2>1 DEF Queue!Item
    <3>8. i.op = es[t].op
      BY <3>1 DEF ItemOf
    <3> HIDE DEF i, j, e
    <3>9. ItemOf(e) \in Queue!Item
      BY <3>3, <3>6, <2>1 DEF ItemOf, Queue!Item
    <3>10. ItemOf(e) = j
      BY <3>5, <3>6, <3>7, <3>8, <3>9, ItemsEqual DEF ItemOf
    <3> QED BY <3>10 DEF i, j
  <2>7. QueueOf(done, h, n) = [q EXCEPT ![k].ready = TRUE, ![k].value = v,
                                        ![k].branch_taken = c.branch_taken]
    <3> HIDE DEF e, v, done, k
    <3>1. QueueOf(done, h, n) = [i \in 1..n |-> IF i = k THEN ItemOf(e) ELSE q[i]]
      BY <2>5 DEF QueueOf
    <3>2. DOMAIN q = 1..n
      BY DEF QueueOf
    <3> HIDE DEF q
    <3> QED BY <2>2, <2>6, <3>1, <3>2
  <2>8. k \in DOMAIN q
    BY <2>2 DEF QueueOf
  <2>9. QueueOf(done, h, n) \in Queue!Completed(q)
    <3> HIDE DEF q, done, k, v
    <3>1. \E i \in DOMAIN q, x \in Values, b \in BOOLEAN :
             QueueOf(done, h, n) = [q EXCEPT ![i].ready = TRUE, ![i].value = x,
                                            ![i].branch_taken = b]
      BY <2>1, <2>7, <2>8, Zenon
    <3> DEFINE g(i, x, b) == [q EXCEPT ![i].ready = TRUE, ![i].value = x,
                                       ![i].branch_taken = b]
    <3>2. Queue!Completed(q) = {g(i, x, b) : i \in DOMAIN q, x \in Values, b \in BOOLEAN}
      BY DEF Queue!Completed
    <3>3. \E i \in DOMAIN q, x \in Values, b \in BOOLEAN : QueueOf(done, h, n) = g(i, x, b)
      BY <3>1
    <3> HIDE DEF g
    <3> QED BY <3>2, <3>3
  <2> QED BY <2>9
<1>2. CASE ~(c # NoInput /\ es[c.tag].valid)
  BY <1>2 DEF CompletedIn
<1> QED BY <1>1, <1>2

\* A dispatch into the slot behind the window appends to it.
LEMMA DispatchInWindow ==
    ASSUME NEW es \in [Slot -> Entry], NEW h \in Slot, NEW n \in 0..(ROB_SIZE - 1),
           \A s \in Slot : es[s].valid => es[s].op \in Ops,
           \A s \in Slot : es[s].valid <=> Wrap(s - h) < n,
           tail = Wrap(h + n), NEW d \in Ops
    PROVE  QueueOf(DispatchedIn(es, d), h, n + 1)
             = Append(QueueOf(es, h, n), [op |-> d, ready |-> FALSE, value |-> Zero,
                                          branch_taken |-> FALSE])
<1> DEFINE q == QueueOf(es, h, n)
           new == [valid |-> TRUE, ready |-> FALSE, op |-> d, value |-> Zero,
                   branch_taken |-> FALSE]
<1>1. DispatchedIn(es, d) = [es EXCEPT ![tail] = new]
  BY DEF DispatchedIn
<1>2. h + (n + 1) - 1 = h + n
  BY RobAssumption DEF Slot
<1>3. tail \in Slot /\ Wrap(tail - h) = n
  BY <1>2, PlaceIsSlot, RobAssumption
<1>4. ASSUME NEW i \in 1..(n + 1)
      PROVE  ItemOf(DispatchedIn(es, d)[Wrap(h + i - 1)]) = IF i = n + 1 THEN ItemOf(new) ELSE q[i]
  <2>1. i \in 1..ROB_SIZE
    BY RobAssumption
  <2>2. Wrap(h + i - 1) \in Slot /\ Wrap(Wrap(h + i - 1) - h) = i - 1
    BY <2>1, PlaceIsSlot
  <2>3. Wrap(h + i - 1) = tail <=> i = n + 1
    BY <1>2, <1>3, <2>2
  <2> QED BY <1>1, <1>3, <2>2, <2>3 DEF QueueOf
<1>5. q \in Seq(Queue!Item) /\ Len(q) = n
  BY QueueOfType, RobAssumption
<1>6. QueueOf(DispatchedIn(es, d), h, n + 1)
        = [i \in 1..(n + 1) |-> IF i = n + 1 THEN ItemOf(new) ELSE q[i]]
  BY <1>4 DEF QueueOf
<1>7. ItemOf(new) = [op |-> d, ready |-> FALSE, value |-> Zero, branch_taken |-> FALSE]
  BY DEF ItemOf
<1>8. ItemOf(new) \in Queue!Item
  <2> HIDE DEF new
  <2> QED BY <1>7, RobAssumption DEF Queue!Item
<1> HIDE DEF q
<1>9. \A i \in 1..n : q[i] \in Queue!Item
  BY <1>5, ElementOfSeq
<1>10. QueueOf(DispatchedIn(es, d), h, n + 1) \in Seq(Queue!Item)
  <2> DEFINE f == [i \in 1..(n + 1) |-> IF i = n + 1 THEN ItemOf(new) ELSE q[i]]
  <2>1. f \in [1..(n + 1) -> Queue!Item]
    BY <1>8, <1>9
  <2>2. QueueOf(DispatchedIn(es, d), h, n + 1) = f
    BY <1>6
  <2> HIDE DEF f
  <2>3. f \in Seq(Queue!Item)
    BY <2>1
  <2> QED BY <2>2, <2>3
<1>11. Len(QueueOf(DispatchedIn(es, d), h, n + 1)) = n + 1
  BY <1>6, RobAssumption
<1>12. /\ Append(q, ItemOf(new)) \in Seq(Queue!Item)
       /\ Len(Append(q, ItemOf(new))) = n + 1
       /\ \A i \in 1..n : Append(q, ItemOf(new))[i] = q[i]
       /\ Append(q, ItemOf(new))[n + 1] = ItemOf(new)
  BY <1>5, <1>8, AppendProperties
<1>13. \A i \in 1..(n + 1) :
          QueueOf(DispatchedIn(es, d), h, n + 1)[i] = Append(q, ItemOf(new))[i]
  <2> SUFFICES ASSUME NEW i \in 1..(n + 1)
               PROVE  QueueOf(DispatchedIn(es, d), h, n + 1)[i] = Append(q, ItemOf(new))[i]
    OBVIOUS
  <2> HIDE DEF new
  <2>1. CASE i = n + 1
    BY <2>1, <1>6, <1>12
  <2>2. CASE i \in 1..n
    BY <2>2, <1>6, <1>12
  <2>3. i = n + 1 \/ i \in 1..n
    BY RobAssumption
  <2> QED BY <2>1, <2>2, <2>3
<1>14. QueueOf(DispatchedIn(es, d), h, n + 1) = Append(q, ItemOf(new))
  BY <1>10, <1>11, <1>12, <1>13, SeqEqual
<1> QED BY <1>7, <1>14 DEF q

\* A commit takes the first entry off the window.
LEMMA CommitInWindow ==
    ASSUME TypeOK, WindowInv, ValidDispatched
    PROVE  LET h == IF commit_en THEN Succ(head) ELSE head
           IN QueueOf(AfterCommit, h, CountAfterCommit) = Queue!Retired
<1> USE RobAssumption
<1>1. /\ InFlight \in Seq(Queue!Item)
      /\ Len(InFlight) = count
      /\ InFlight = QueueOf(entries, head, count)
  <2>1. InFlight = QueueOf(entries, head, count)
    BY DEF InFlight, QueueOf, ItemOf
  <2>2. \A s \in Slot : Wrap(s - head) < count => entries[s].op \in Ops
    BY DEF WindowInv, Position, ValidDispatched
  <2> QED BY <2>1, <2>2, QueueOfType DEF TypeOK
<1>2. InFlight # <<>> <=> count > 0
  BY <1>1, EmptySeq DEF TypeOK
<1>3. ASSUME count > 0
      PROVE  Queue!Front = ItemOf(entries[head]) /\ entries[head].valid
  <2>1. Wrap(head + 1 - 1) = head
    <3>1. head + 1 - 1 = head + 0 /\ head + 0 = head
      BY DEF TypeOK, Slot
    <3> QED BY <3>1, EndIs DEF TypeOK, Slot
  <2>2. InFlight[1] = ItemOf(entries[head])
    BY <1>1, <1>3, <2>1 DEF QueueOf, TypeOK
  <2>3. Wrap(head - head) = 0
    BY DistanceIs DEF TypeOK, Slot
  <2> QED BY <1>1, <1>2, <1>3, <2>2, <2>3 DEF Queue!Front, WindowInv, Position, TypeOK
<1>4. commit_en <=> InFlight # <<>> /\ Queue!Front.ready
  BY <1>2, <1>3 DEF commit_en, empty, ItemOf, TypeOK
<1>5. CASE commit_en
  <2> DEFINE h == Succ(head)
             n == count - 1
             q == QueueOf(AfterCommit, h, n)
  <2>1. count > 0 /\ n \in 0..ROB_SIZE /\ h \in Slot
    BY <1>5, SuccIsSlot DEF commit_en, empty, TypeOK
  <2>2. ASSUME NEW i \in 1..n
        PROVE  q[i] = InFlight[i + 1]
    <3>1. Wrap(h + i - 1) = Wrap(head + (i + 1) - 1)
      <4>1. /\ h + i - 1 = h + (i - 1) /\ i - 1 \in 0..ROB_SIZE
            /\ head + (i + 1) - 1 = head + i /\ i \in 0..ROB_SIZE
        BY <2>1 DEF TypeOK, Slot
      <4>2. Wrap(h + (i - 1)) = IF h + (i - 1) < ROB_SIZE THEN h + (i - 1)
                                ELSE h + (i - 1) - ROB_SIZE
        BY <4>1, <2>1, EndIs
      <4>3. Wrap(head + i) = IF head + i < ROB_SIZE THEN head + i ELSE head + i - ROB_SIZE
        BY <4>1, EndIs DEF TypeOK
      <4>4. h = IF head = ROB_SIZE - 1 THEN 0 ELSE head + 1
        BY SuccIs DEF TypeOK
      <4> HIDE DEF h
      <4> QED BY <4>1, <4>2, <4>3, <4>4, <2>1 DEF TypeOK, Slot
    <3>2. i + 1 \in 1..ROB_SIZE /\ i + 1 \in 1..count
      BY DEF TypeOK
    <3>3. Wrap(head + (i + 1) - 1) \in Slot /\ Wrap(Wrap(head + (i + 1) - 1) - head) = i
      BY <3>2, PlaceIsSlot DEF TypeOK
    <3>4. Wrap(head - head) = 0
      BY DistanceIs DEF TypeOK, Slot
    <3>5. Wrap(head + (i + 1) - 1) # head
      BY <3>3, <3>4
    <3>6. AfterCommit[Wrap(head + (i + 1) - 1)] = entries[Wrap(head + (i + 1) - 1)]
      BY <1>5, <3>3, <3>5 DEF AfterCommit, TypeOK
    <3> QED BY <1>1, <3>1, <3>2, <3>6 DEF QueueOf
  <2>3. q \in Seq(Queue!Item) /\ Len(q) = n
    <3>1. ASSUME NEW s \in Slot, Wrap(s - h) < n
          PROVE  AfterCommit[s].op \in Ops
      <4>1. Wrap(s - h) \in Slot
        BY <2>1, SlotHasPlace
      <4> DEFINE i == Wrap(s - h) + 1
      <4>2. i \in 1..n /\ Wrap(h + i - 1) = s
        BY <3>1, <4>1, <2>1, SlotHasPlace DEF Slot
      <4>3. q[i] = ItemOf(AfterCommit[s])
        BY <4>2 DEF QueueOf
      <4>4. InFlight[i + 1] \in Queue!Item
        BY <4>2, <1>1, ElementOfSeq DEF TypeOK
      <4> HIDE DEF q, i
      <4> QED BY <4>2, <4>3, <4>4, <2>2 DEF ItemOf, Queue!Item
    <3> QED BY <2>1, <3>1, AfterCommitType, QueueOfType
  <2>4. /\ Tail(InFlight) \in Seq(Queue!Item)
        /\ Len(Tail(InFlight)) = n
        /\ \A i \in 1..n : Tail(InFlight)[i] = InFlight[i + 1]
    BY <1>1, <1>2, <2>1, HeadTailProperties
  <2>5. q = Tail(InFlight)
    <3> HIDE DEF q, n
    <3> QED BY <2>2, <2>3, <2>4, SeqEqual
  <2> QED BY <1>4, <1>5, <2>5 DEF Queue!Retired, CountAfterCommit
<1>6. CASE ~commit_en
  BY <1>1, <1>4, <1>6 DEF AfterCommit, CountAfterCommit, Queue!Retired
<1> QED BY <1>5, <1>6

\* A result changes no descriptor.
LEMMA CompletionKeepsOp ==
    ASSUME NEW es \in [Slot -> Entry], NEW c \in Completion \cup {NoInput}, NEW s \in Slot
    PROVE  CompletedIn(es, c)[s].op = es[s].op
<1>1. CASE c # NoInput /\ es[c.tag].valid
  <2> DEFINE e == es[c.tag]
             f == [e EXCEPT !.ready = TRUE,
                            !.value = IF e.op.is_load THEN c.mem_value ELSE c.value,
                            !.branch_taken = c.branch_taken]
  <2>1. c.tag \in Slot
    BY <1>1 DEF Completion
  <2>2. f.op = e.op
    BY <2>1 DEF Entry
  <2>3. CompletedIn(es, c) = [es EXCEPT ![c.tag] = f]
    BY <1>1 DEF CompletedIn
  <2> QED BY <2>1, <2>2, <2>3
<1>2. CASE ~(c # NoInput /\ es[c.tag].valid)
  BY <1>2 DEF CompletedIn
<1> QED BY <1>1, <1>2

\* What is left after commit and completion: a window that holds dispatched ops.
LEMMA CompletedWindow ==
    ASSUME TypeOK, WindowInv, ValidDispatched, NEW c \in Completion \cup {NoInput}
    PROVE  LET h == IF commit_en THEN Succ(head) ELSE head
               es == CompletedIn(AfterCommit, c)
           IN /\ h \in Slot
              /\ CountAfterCommit \in 0..ROB_SIZE
              /\ tail = Wrap(h + CountAfterCommit)
              /\ \A s \in Slot : /\ es[s].valid <=> Wrap(s - h) < CountAfterCommit
                                 /\ AfterCommit[s].valid <=> Wrap(s - h) < CountAfterCommit
                                 /\ es[s].valid => es[s].op \in Ops
                                 /\ AfterCommit[s].valid => AfterCommit[s].op \in Ops
<1> USE RobAssumption
<1> DEFINE h == IF commit_en THEN Succ(head) ELSE head
           es == CompletedIn(AfterCommit, c)
<1>1. h \in Slot /\ CountAfterCommit \in 0..ROB_SIZE
  BY SuccIsSlot DEF TypeOK, CountAfterCommit, commit_en, empty
<1>2. tail = Wrap(h + CountAfterCommit)
  <2>1. tail = Wrap(head + count) /\ head \in Slot /\ count \in 0..ROB_SIZE
    BY DEF TypeOK, WindowInv
  <2>2. Wrap(head + count) = IF head + count < ROB_SIZE THEN head + count
                             ELSE head + count - ROB_SIZE
    BY <2>1, EndIs
  <2>3. CASE commit_en
    <3>1. h = Succ(head) /\ CountAfterCommit = count - 1 /\ count > 0
      BY <2>1, <2>3 DEF CountAfterCommit, commit_en, empty
    <3>2. h = IF head = ROB_SIZE - 1 THEN 0 ELSE head + 1
      BY <3>1, <2>1, SuccIs
    <3>3. Wrap(h + (count - 1)) = IF h + (count - 1) < ROB_SIZE THEN h + (count - 1)
                                  ELSE h + (count - 1) - ROB_SIZE
      <4>1. count - 1 \in 0..ROB_SIZE
        BY <2>1, <3>1
      <4> HIDE DEF h
      <4> QED BY <1>1, <4>1, EndIs
    <3> HIDE DEF h
    <3> QED BY <2>1, <2>2, <3>1, <3>2, <3>3 DEF Slot
  <2>4. CASE ~commit_en
    BY <2>1, <2>4 DEF CountAfterCommit
  <2> QED BY <2>3, <2>4
<1>3. ASSUME NEW s \in Slot
      PROVE  /\ AfterCommit[s].valid <=> Wrap(s - h) < CountAfterCommit
             /\ AfterCommit[s].valid => AfterCommit[s].op \in Ops
  <2>1. CASE commit_en
    <3>1. AfterCommit[s] = IF s = head THEN EmptyEntry ELSE entries[s]
      BY <2>1 DEF AfterCommit, TypeOK
    <3>2. s # head /\ Wrap(s - head) < count <=> Wrap(s - h) < CountAfterCommit
      <4>1. head \in Slot /\ count \in 0..ROB_SIZE /\ h = Succ(head)
            /\ CountAfterCommit = count - 1
        BY <2>1 DEF TypeOK, CountAfterCommit
      <4>2. h = IF head = ROB_SIZE - 1 THEN 0 ELSE head + 1
        BY <4>1, SuccIs
      <4>3. Wrap(s - head) = IF s < head THEN s - head + ROB_SIZE ELSE s - head
        BY <4>1, DistanceIs
      <4>4. Wrap(s - h) = IF s < h THEN s - h + ROB_SIZE ELSE s - h
        BY <1>1, DistanceIs
      <4> HIDE DEF h
      <4> QED BY <4>1, <4>2, <4>3, <4>4 DEF Slot
    <3> QED BY <3>1, <3>2 DEF WindowInv, Position, ValidDispatched, EmptyEntry
  <2>2. CASE ~commit_en
    BY <2>2 DEF AfterCommit, CountAfterCommit, WindowInv, Position, ValidDispatched
  <2> QED BY <2>1, <2>2
<1>4. ASSUME NEW s \in Slot
      PROVE  es[s].valid = AfterCommit[s].valid /\ es[s].op = AfterCommit[s].op
  BY AfterCommitType, CompletionKeepsValid, CompletionKeepsOp
<1> HIDE DEF es, h
<1> QED BY <1>1, <1>2, <1>3, <1>4 DEF es, h

LEMMA ValidDispatchedStep ==
    ASSUME TypeOK, WindowInv, ValidDispatched, [Next]_vars
    PROVE  ValidDispatched'
<1>1. CASE Flush
  BY <1>1 DEF Flush, ValidDispatched, EmptyEntry
<1>2. ASSUME NEW d \in Ops \cup {NoInput}, NEW c \in Completion \cup {NoInput}, Advance(d, c)
      PROVE  ValidDispatched'
  <2> DEFINE es == CompletedIn(AfterCommit, c)
  <2>1. es \in [Slot -> Entry]
    BY AfterCommitType, CompletedInType
  <2>2. \A s \in Slot : es[s].valid => es[s].op \in Ops
    BY CompletedWindow
  <2>3. entries' = es \/ (d \in Ops /\ entries' = DispatchedIn(es, d))
    BY <1>2 DEF Advance
  <2> HIDE DEF es
  <2> QED BY <2>1, <2>2, <2>3 DEF ValidDispatched, DispatchedIn
<1>3. CASE UNCHANGED vars
  BY <1>3 DEF vars, ValidDispatched
<1> QED BY <1>1, <1>2, <1>3 DEF Next

\* Every clock edge is a step of the queue, or leaves it alone.
LEMMA QueueStep ==
    ASSUME TypeOK, WindowInv, ValidDispatched, [Next]_vars
    PROVE  [Queue!Next]_InFlight
<1> USE RobAssumption
<1>1. InFlight = QueueOf(entries, head, count)
  BY DEF InFlight, QueueOf, ItemOf
<1>2. InFlight \in Seq(Queue!Item) /\ Len(InFlight) = count
  <2>1. \A s \in Slot : Wrap(s - head) < count => entries[s].op \in Ops
    BY DEF WindowInv, Position, ValidDispatched
  <2> QED BY <1>1, <2>1, QueueOfType DEF TypeOK
<1>3. flush <=> Queue!Mispredicted
  <2>1. InFlight # <<>> <=> count > 0
    BY <1>2, EmptySeq DEF TypeOK
  <2>2. ASSUME count > 0
        PROVE  Queue!Front = ItemOf(entries[head]) /\ entries[head].valid
    <3>1. Wrap(head + 1 - 1) = head
      <4>1. head + 1 - 1 = head + 0 /\ head + 0 = head
        BY DEF TypeOK, Slot
      <4> QED BY <4>1, EndIs DEF TypeOK, Slot
    <3>2. InFlight[1] = ItemOf(entries[head])
      BY <1>1, <2>2, <3>1 DEF QueueOf, TypeOK
    <3>3. Wrap(head - head) = 0
      BY DistanceIs DEF TypeOK, Slot
    <3> QED BY <1>2, <2>1, <2>2, <3>2, <3>3 DEF Queue!Front, WindowInv, Position, TypeOK
  <2> QED BY <2>1, <2>2 DEF flush, commit_en, empty, ItemOf, Queue!Mispredicted, TypeOK
<1>4. CASE Flush
  <2>1. count' = 0
    BY <1>4 DEF Flush
  <2>2. InFlight' = <<>>
    BY <2>1 DEF InFlight
  <2> QED BY <1>3, <1>4, <2>2 DEF Flush, Queue!Next, Queue!Flush
<1>5. ASSUME NEW d \in Ops \cup {NoInput}, NEW c \in Completion \cup {NoInput}, Advance(d, c)
      PROVE  Queue!Next
  <2> DEFINE h == IF commit_en THEN Succ(head) ELSE head
             n == CountAfterCommit
             es == CompletedIn(AfterCommit, c)
             done == QueueOf(es, h, n)
  <2>1. /\ h \in Slot /\ n \in 0..ROB_SIZE /\ tail = Wrap(h + n)
        /\ \A s \in Slot : /\ es[s].valid <=> Wrap(s - h) < n
                           /\ AfterCommit[s].valid <=> Wrap(s - h) < n
                           /\ es[s].valid => es[s].op \in Ops
                           /\ AfterCommit[s].valid => AfterCommit[s].op \in Ops
    BY CompletedWindow
  <2>2. AfterCommit \in [Slot -> Entry] /\ es \in [Slot -> Entry]
    BY AfterCommitType, CompletedInType
  <2>3. QueueOf(AfterCommit, h, n) = Queue!Retired
    BY CommitInWindow
  <2>4. done \in {Queue!Retired} \cup Queue!Completed(Queue!Retired)
    <3>1. done \in {QueueOf(AfterCommit, h, n)} \cup Queue!Completed(QueueOf(AfterCommit, h, n))
      <4> HIDE DEF h, n
      <4> QED BY <2>1, <2>2, CompletionInWindow
    <3> QED BY <2>3, <3>1
  <2>5. Len(done) = n
    <3> HIDE DEF es, h, n
    <3> QED BY <2>1, <2>2, QueueOfType
  <2>6. InFlight' = QueueOf(entries', head', count')
    BY DEF InFlight, QueueOf, ItemOf
  <2>7. CASE d # NoInput /\ n < ROB_SIZE
    <3> DEFINE new == [op |-> d, ready |-> FALSE, value |-> Zero, branch_taken |-> FALSE]
    <3>1. /\ head' = h /\ count' = n + 1 /\ entries' = DispatchedIn(es, d)
          /\ d \in Ops /\ n \in 0..(ROB_SIZE - 1)
      BY <1>5, <2>1, <2>7 DEF Advance
    <3>2. InFlight' = Append(done, new)
      <4> HIDE DEF es, h, n
      <4> QED BY <2>1, <2>2, <2>6, <3>1, DispatchInWindow
    <3>3. Len(done) < ROB_SIZE
      BY <2>5, <2>7
    <3> HIDE DEF done
    <3>4. Queue!Advance
      BY <1>3, <1>5, <2>4, <3>1, <3>2, <3>3 DEF Advance, Queue!Advance
    <3> QED BY <3>4 DEF Queue!Next
  <2>8. CASE ~(d # NoInput /\ n < ROB_SIZE)
    <3>1. head' = h /\ count' = n /\ entries' = es
      BY <1>5, <2>8 DEF Advance
    <3>2. InFlight' = done
      BY <2>6, <3>1
    <3> HIDE DEF done
    <3>3. Queue!Advance
      BY <1>3, <1>5, <2>4, <3>2 DEF Advance, Queue!Advance
    <3> QED BY <3>3 DEF Queue!Next
  <2> QED BY <2>7, <2>8
<1>6. CASE UNCHANGED vars
  BY <1>6 DEF vars, InFlight
<1> QED BY <1>4, <1>5, <1>6 DEF Next

\* The circular buffer is a FIFO for every size: dispatch order is commit order,
\* an instruction commits once and only after it was completed, and a taken
\* branch at the head discards exactly what is behind it.
THEOREM CommitsInOrder == Spec => ImplementsCommitQueue
<1>1. Init => ValidDispatched
  BY DEF Init, ValidDispatched, EmptyEntry
<1>2. Spec => []ValidDispatched
  BY <1>1, ValidDispatchedStep, TypeCorrect, WindowCorrect, PTL DEF Spec
<1>3. Init => Queue!Init
  BY DEF Init, Queue!Init, InFlight
<1> QED BY <1>2, <1>3, QueueStep, TypeCorrect, WindowCorrect, PTL
        DEF Spec, ImplementsCommitQueue, Queue!Spec
=============================================================================
