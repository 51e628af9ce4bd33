------------------------- MODULE OutOfOrder_proofs --------------------------
(***************************************************************************)
(* Proofs about OutOfOrder for every program, every size of the reorder     *)
(* buffer and of the reservation station, and every width of a word.        *)
(***************************************************************************)
EXTENDS OutOfOrder, Datapath_proofs, SequenceTheorems

\* What is proved about the reorder buffer on its own.
RP == INSTANCE ReorderBuffer_proofs WITH Ops <- Descriptor, NoOp <- NoDescriptor,
                                         Values <- Word, Zero <- 0

LEMMA DescriptorType == NoDescriptor \in Descriptor
<1>1. 0 \in Reg /\ 0 \in Word
  BY DatapathAssumption, WordsType DEF Reg, Word
<1> QED BY <1>1 DEF NoDescriptor, Descriptor

LEMMA RobAssumed == RP!RobAssumption
BY OutOfOrderAssumption, WordsType DEF RP!RobAssumption, Word

LEMMA RobStep ==
    ASSUME RP!TypeOK, RP!Next
    PROVE  RP!TypeOK' /\ (RP!WindowInv => RP!WindowInv')
BY RobAssumed, RP!TypeInvariance, RP!WindowStep

-----------------------------------------------------------------------------
(* Types.                                                                   *)

TypeInv == TypeOK /\ program \in Programs

LEMMA CurrentType == TypeInv => Current \in Control
BY OutOfOrderAssumption, FetchedType, DecodeType DEF TypeInv, Current

LEMMA RobTypes ==
    TypeInv => /\ RP!TypeOK
               /\ entries \in [Slot -> RP!Entry] /\ head \in Slot /\ tail \in Slot
               /\ count \in 0..ROB_SIZE
               /\ \A s \in Slot : entries[s].op \in Descriptor
BY DescriptorType DEF TypeInv, TypeOK, ROB!TypeOK, RP!TypeOK, ROB!Slot, RP!Slot, Slot,
     ROB!Entry, RP!Entry

LEMMA ReadType == ASSUME TypeInv, NEW r \in Reg PROVE Read(r) \in Word
<1>1. Retiring.value \in Word /\ regs \in [Reg -> Word]
  BY RobTypes DEF TypeInv, TypeOK, Retiring, RP!Entry
<1> QED BY <1>1, RegReadType DEF Read

LEMMA StationTypes ==
    TypeInv => /\ waiting \in Seq(RS!Pending) /\ Len(waiting) \in 0..RS_SIZE
               /\ \A i \in DOMAIN waiting :
                     /\ i \in 1..Len(waiting)
                     /\ waiting[i] \in RS!Pending
                     /\ waiting[i].op \in IssueOps
                     /\ waiting[i].src1 \in RS!Operand /\ waiting[i].src2 \in RS!Operand
                     /\ waiting[i].rob_tag \in Slot
<1> SUFFICES ASSUME TypeInv
             PROVE  /\ waiting \in Seq(RS!Pending) /\ Len(waiting) \in 0..RS_SIZE
                    /\ \A i \in DOMAIN waiting : i \in 1..Len(waiting) /\ waiting[i] \in RS!Pending
  BY DEF RS!Pending, RS!Tag, Slot
<1>1. waiting \in Seq(RS!Pending) /\ Len(waiting) <= RS_SIZE /\ RS_SIZE \in Nat
  BY OutOfOrderAssumption DEF TypeInv, TypeOK, RS!TypeOK
<1> QED BY <1>1, LenProperties, ElementOfSeq

\* The instruction selected, if any, is one of the runnable ones.
LEMMA SelectedRuns ==
    ASSUME TypeInv, Sel # 0
    PROVE  /\ Sel \in DOMAIN waiting
           /\ Exec.src1.ready /\ Exec.src2.ready
           /\ Exec.op.is_load =>
                 \A s \in ROB!store_pending_mask :
                     ~((s - head) % ROB_SIZE < (Exec.rob_tag - head) % ROB_SIZE)
<1> DEFINE at == RS!RunnableAt(ROB!store_pending_mask, head)
<1>1. at # {} /\ Sel = CHOOSE i \in at : \A j \in at : i <= j
  BY DEF Sel, RS!Selected
<1>2. at \in SUBSET Nat
  BY StationTypes DEF RS!RunnableAt
<1>3. \E i \in at : \A j \in at : i <= j
  <2> HIDE DEF at
  <2> QED BY <1>1, <1>2, LeastElement
<1>4. Sel \in at
  <2> HIDE DEF at
  <2> QED BY <1>1, <1>3
<1> QED BY <1>4 DEF RS!RunnableAt, RS!Runnable, RS!OlderStorePending, Exec

LEMMA ExecType ==
    ASSUME TypeInv, Sel # 0
    PROVE  Result \in Word /\ Loaded \in Word /\ Exec.rob_tag \in Slot
<1>1. Exec.op \in IssueOps /\ Exec.src1 \in RS!Operand /\ Exec.src2 \in RS!Operand
      /\ Exec.rob_tag \in Slot
  BY SelectedRuns, StationTypes DEF Exec
<1>2. Result \in Word
  BY <1>1, AluType DEF Result, IssueOps, RS!Operand
<1>3. mem \in Mem
  BY DEF TypeInv, TypeOK, Mem
<1> QED BY <1>1, <1>2, <1>3, MemReadType DEF Loaded

\* What the ports carry.
LEMMA PortTypes ==
    ASSUME TypeInv
    PROVE  /\ DispatchOp \in Descriptor \cup {NoInput}
           /\ Complete \in RP!Completion \cup {NoInput}
           /\ Cdb \in RS!Broadcast \cup {NoInput}
           /\ Issue \in RS!Pending \cup {NoInput}
           /\ Commit \in [rd : Reg, tag : Slot] \cup {NoInput}
           /\ Alloc \in [rd : Reg, tag : Slot] \cup {NoInput}
<1>1. DispatchOp \in Descriptor \cup {NoInput}
  BY CurrentType DEF DispatchOp, Descriptor, Control, TypeInv, TypeOK
<1>2. Complete \in RP!Completion \cup {NoInput} /\ Cdb \in RS!Broadcast \cup {NoInput}
  BY ExecType DEF Complete, Cdb, RP!Completion, RP!Slot, RS!Broadcast, RS!Tag, Slot
<1>3. Commit \in [rd : Reg, tag : Slot] \cup {NoInput}
  BY RobTypes DEF Commit, Retiring, Descriptor
<1>4. Alloc \in [rd : Reg, tag : Slot] \cup {NoInput}
  BY CurrentType, RobTypes DEF Alloc, Control, ROB!dispatch_tag
<1>5. Issue \in RS!Pending \cup {NoInput}
  <2>1. 0 \in Slot /\ pc \in Word /\ alias \in [Reg -> Slot \cup {NoTag}] /\ tail \in Slot
    BY OutOfOrderAssumption, RobTypes DEF TypeInv, TypeOK, RAT!TypeOK, Slot
  <2>2. \A r \in Reg : Source(r) \in RS!Operand
    <3> TAKE r \in Reg
    <3>1. RAT!Lookup(r, Commit) \in Slot \cup {NoTag}
      BY <2>1 DEF RAT!Lookup
    <3>2. Read(r) \in Word
      BY ReadType
    <3> QED BY <3>1, <3>2, <2>1 DEF Source, RS!Operand, RS!Tag, Slot
  <2>3. Current \in Control
    BY CurrentType
  <2>4. FirstSource \in RS!Operand
    BY <2>1, <2>2, <2>3 DEF FirstSource, Control, RS!Operand, RS!Tag, Slot
  <2>5. Source(Current.rs2) \in RS!Operand
    BY <2>2, <2>3 DEF Control
  <2> QED BY <2>1, <2>3, <2>4, <2>5 DEF Issue, RS!Pending, IssueOps, Control, RS!Tag, Slot,
             ROB!dispatch_tag
<1> QED BY <1>1, <1>2, <1>3, <1>4, <1>5

LEMMA CaptureType ==
    ASSUME NEW src \in RS!Operand, NEW cdb \in RS!Broadcast \cup {NoInput}
    PROVE  RS!Capture(src, cdb) \in RS!Operand
BY DEF RS!Capture, RS!Operand, RS!Broadcast

\* What a broadcast changes in a waiting instruction: its operands.
LEMMA SnoopIs ==
    ASSUME NEW e \in RS!Pending, NEW cdb \in RS!Broadcast \cup {NoInput}
    PROVE  /\ RS!Snoop(e, cdb) \in RS!Pending
           /\ RS!Snoop(e, cdb).op = e.op
           /\ RS!Snoop(e, cdb).rob_tag = e.rob_tag
           /\ RS!Snoop(e, cdb).src1 = RS!Capture(e.src1, cdb)
           /\ RS!Snoop(e, cdb).src2 = RS!Capture(e.src2, cdb)
<1>1. e.src1 \in RS!Operand /\ e.src2 \in RS!Operand
  BY DEF RS!Pending
<1>2. RS!Capture(e.src1, cdb) \in RS!Operand /\ RS!Capture(e.src2, cdb) \in RS!Operand
  BY <1>1, CaptureType
<1> QED BY <1>2 DEF RS!Snoop, RS!Pending

\* How many instructions stay when the executed one has left, and the places of
\* those that stay.
Left    == Len(waiting) - (IF Sel = 0 THEN 0 ELSE 1)
From(j) == IF Sel # 0 /\ j >= Sel THEN j + 1 ELSE j
Enters  == Issue # NoInput /\ Left < RS_SIZE

LEMMA Places ==
    ASSUME TypeInv
    PROVE  /\ Left \in 0..RS_SIZE
           /\ \A j \in 1..Left : From(j) \in DOMAIN waiting /\ From(j) # Sel
           /\ \A i \in DOMAIN waiting : i # Sel => \E j \in 1..Left : From(j) = i
           /\ \A i, j \in 1..Left : i < j => From(i) < From(j)
           /\ Len(IF Sel = 0 THEN waiting ELSE RS!Without(Sel)) = Left
<1>1. /\ waiting \in Seq(RS!Pending) /\ Len(waiting) \in 0..RS_SIZE
      /\ DOMAIN waiting = 1..Len(waiting) /\ RS_SIZE \in Nat
  BY StationTypes, OutOfOrderAssumption
<1>2. CASE Sel = 0
  BY <1>1, <1>2 DEF Left, From
<1>3. CASE Sel # 0
  <2>1. Sel \in 1..Len(waiting)
    BY <1>1, <1>3, SelectedRuns
  <2>2. Left \in 0..RS_SIZE /\ Left = Len(waiting) - 1
    BY <1>1, <1>3, <2>1 DEF Left
  <2>3. \A j \in 1..Left : From(j) \in DOMAIN waiting /\ From(j) # Sel
    BY <1>1, <1>3, <2>1, <2>2 DEF From
  <2>4. ASSUME NEW i \in DOMAIN waiting, i # Sel PROVE \E j \in 1..Left : From(j) = i
    <3>1. CASE i < Sel
      <4>1. i \in 1..Left /\ From(i) = i
        BY <1>1, <2>1, <2>2, <3>1 DEF From
      <4> QED BY <4>1
    <3>2. CASE i > Sel
      <4>1. i - 1 \in 1..Left /\ From(i - 1) = i
        BY <1>1, <1>3, <2>1, <2>2, <3>2 DEF From
      <4> QED BY <4>1
    <3> QED BY <1>1, <2>1, <2>4, <3>1, <3>2
  <2>5. \A i, j \in 1..Left : i < j => From(i) < From(j)
    BY <1>1, <1>3, <2>1, <2>2 DEF From
  <2>6. Len(RS!Without(Sel)) = Left
    BY <1>1, <2>1, <2>2 DEF RS!Without
  <2> QED BY <1>3, <2>2, <2>3, <2>4, <2>5, <2>6
<1> QED BY <1>2, <1>3

\* One edge of the station: those that stay see the broadcast, in their order,
\* and so does the instruction that enters behind them.
LEMMA StationEdge ==
    ASSUME TypeInv, RS!Advance(Sel, Cdb, Issue)
    PROVE  /\ waiting' \in Seq(RS!Pending)
           /\ Len(waiting') = Left + (IF Enters THEN 1 ELSE 0)
           /\ \A j \in 1..Left : waiting'[j] = RS!Snoop(waiting[From(j)], Cdb)
           /\ Enters => Issue \in RS!Pending /\ waiting'[Left + 1] = RS!Snoop(Issue, Cdb)
<1> DEFINE kept == IF Sel = 0 THEN waiting ELSE RS!Without(Sel)
           seen == [j \in DOMAIN kept |-> RS!Snoop(kept[j], Cdb)]
           new  == RS!Snoop(Issue, Cdb)
<1>1. /\ waiting \in Seq(RS!Pending) /\ Len(waiting) \in 0..RS_SIZE /\ Left \in 0..RS_SIZE
      /\ \A j \in 1..Left : From(j) \in DOMAIN waiting
      /\ \A i \in DOMAIN waiting : waiting[i] \in RS!Pending
      /\ RS_SIZE \in Nat /\ DOMAIN waiting = 1..Len(waiting)
  BY StationTypes, Places, OutOfOrderAssumption
<1>2. DOMAIN kept = 1..Left /\ \A j \in 1..Left : kept[j] = waiting[From(j)]
  <2>1. CASE Sel = 0
    BY <1>1, <2>1 DEF Left, From
  <2>2. CASE Sel # 0
    <3>1. Sel \in 1..Len(waiting)
      BY <1>1, <2>2, SelectedRuns
    <3>2. kept = [j \in 1..Left |-> waiting[IF j < Sel THEN j ELSE j + 1]]
      BY <2>2 DEF RS!Without, Left
    <3>3. \A j \in 1..Left : From(j) = IF j < Sel THEN j ELSE j + 1
      BY <1>1, <2>2, <3>1 DEF From
    <3> HIDE DEF kept
    <3> QED BY <3>2, <3>3
  <2> QED BY <2>1, <2>2
<1>3. Cdb \in RS!Broadcast \cup {NoInput} /\ Issue \in RS!Pending \cup {NoInput}
  BY PortTypes
<1> HIDE DEF kept
<1>4. seen = [j \in 1..Left |-> RS!Snoop(waiting[From(j)], Cdb)]
  BY <1>2
<1>5. \A j \in 1..Left : RS!Snoop(waiting[From(j)], Cdb) \in RS!Pending
  BY <1>1, <1>3, SnoopIs
<1>6. seen \in Seq(RS!Pending) /\ Len(seen) = Left
  <2> HIDE DEF seen
  <2>1. seen \in [1..Left -> RS!Pending]
    BY <1>4, <1>5
  <2> QED BY <1>1, <2>1
<1>7. \A j \in 1..Left : seen[j] = RS!Snoop(waiting[From(j)], Cdb)
  BY <1>4
<1>8. waiting' = IF Enters THEN Append(seen, new) ELSE seen
  <2>1. waiting' = IF Issue # NoInput /\ Len(seen) < RS_SIZE THEN Append(seen, new) ELSE seen
    BY DEF RS!Advance, kept
  <2> HIDE DEF seen, new
  <2> QED BY <1>6, <2>1 DEF Enters
<1>9. CASE Enters
  <2>1. Issue \in RS!Pending /\ new \in RS!Pending
    BY <1>3, <1>9, SnoopIs DEF Enters
  <2> HIDE DEF seen, new
  <2>2. /\ Append(seen, new) \in Seq(RS!Pending)
        /\ Len(Append(seen, new)) = Left + 1
        /\ \A j \in 1..Left : Append(seen, new)[j] = seen[j]
        /\ Append(seen, new)[Left + 1] = new
    BY <1>6, <2>1, AppendProperties
  <2> QED BY <1>7, <1>8, <1>9, <2>1, <2>2 DEF new
<1>10. CASE ~Enters
  <2> HIDE DEF seen
  <2> QED BY <1>1, <1>6, <1>7, <1>8, <1>10
<1> QED BY <1>9, <1>10

LEMMA RobMoves ==
    ASSUME TypeInv, Tick
    PROVE  RP!Next /\ RP!TypeOK'
<1>1. RP!Flush \/ RP!Advance(DispatchOp, Complete)
  BY DEF Tick, ROB!RisingEdge, ROB!Flush, RP!Flush, ROB!Advance, RP!Advance, ROB!flush, RP!flush,
     ROB!commit_en, RP!commit_en, ROB!empty, RP!empty, ROB!EmptyEntry, RP!EmptyEntry,
     ROB!Slot, RP!Slot, ROB!CountAfterCommit, RP!CountAfterCommit, ROB!Succ, RP!Succ,
     ROB!Wrap, RP!Wrap, ROB!CompletedIn, RP!CompletedIn, ROB!AfterCommit, RP!AfterCommit,
     ROB!DispatchedIn, RP!DispatchedIn
<1>2. RP!Next
  BY <1>1, PortTypes DEF RP!Next
<1> QED BY <1>2, RobTypes, RobStep

LEMMA TypeStep == TypeInv /\ [Next]_vars => TypeInv'
<1> SUFFICES ASSUME TypeInv, [Next]_vars PROVE TypeInv'
  OBVIOUS
<1>1. CASE Tick
  <2>1. ROB!TypeOK'
    BY <1>1, RobMoves DEF ROB!TypeOK, RP!TypeOK, ROB!Slot, RP!Slot, ROB!Entry, RP!Entry
  <2>2. RAT!TypeOK'
    <3>1. alias \in [Reg -> Slot \cup {NoTag}]
      BY DEF TypeInv, TypeOK, RAT!TypeOK, Slot
    <3>2. RAT!Freed(Commit) \in [Reg -> Slot \cup {NoTag}]
      BY <3>1 DEF RAT!Freed
    <3>3. RAT!Advance(Commit, Alloc) => alias' \in [Reg -> Slot \cup {NoTag}]
      BY <3>2, PortTypes DEF RAT!Advance
    <3> QED BY <1>1, <3>3 DEF Tick, RAT!Flush, RAT!TypeOK, Slot
  <2>3. RS!TypeOK'
    <3>1. CASE RS!Advance(Sel, Cdb, Issue)
      <4>1. waiting' \in Seq(RS!Pending) /\ Len(waiting') = Left + (IF Enters THEN 1 ELSE 0)
        BY <3>1, StationEdge
      <4>2. Left \in 0..RS_SIZE /\ RS_SIZE \in Nat
        BY Places, OutOfOrderAssumption
      <4>3. Len(waiting') <= RS_SIZE
        BY <4>1, <4>2 DEF Enters
      <4> QED BY <4>1, <4>3 DEF RS!TypeOK, RS!Pending, RS!Operand, RS!Tag
    <3>2. CASE RS!Flush
      <4>1. waiting' = <<>> /\ RS_SIZE \in Nat
        BY <3>2, OutOfOrderAssumption DEF RS!Flush
      <4> QED BY <4>1 DEF RS!TypeOK, RS!Pending, RS!Operand, RS!Tag
    <3> QED BY <1>1, <3>1, <3>2 DEF Tick
  <2>4. regs' \in [Reg -> Word]
    <3>1. Retiring.op.rd \in Reg /\ Retiring.value \in Word
      BY RobTypes DEF Retiring, Descriptor, RP!Entry
    <3> QED BY <1>1, <3>1, RegWriteType DEF Tick, TypeInv, TypeOK
  <2>5. mem' \in Mem
    <3>1. Retiring.op.store_data_reg \in Reg /\ Retiring.value \in Word
      BY RobTypes DEF Retiring, Descriptor, RP!Entry
    <3> QED BY <1>1, <3>1, ReadType, MemWriteType DEF Tick, TypeInv, TypeOK, Mem
  <2>6. pc' \in Word
    <3>1. Current \in Control /\ Current.rs1 \in Reg /\ Current.rs2 \in Reg
          /\ Current.imm \in Word /\ Current.alu_op \in AluOp /\ pc \in Word
      BY CurrentType DEF Control, TypeInv, TypeOK
    <3>2. Read(Current.rs1) \in Word /\ Read(Current.rs2) \in Word
      BY <3>1, ReadType
    <3>3. BranchResult \in Word
      BY <3>1, <3>2, AluType DEF BranchResult
    <3>4. NextPC(Current, pc, Read(Current.rs1), BranchResult) \in Word
      BY <3>1, <3>2, <3>3, NextPCType
    <3> QED BY <1>1, <3>1, <3>4 DEF Tick
  <2>7. program' \in Programs
    BY <1>1 DEF Tick, TypeInv
  <2> QED BY <2>1, <2>2, <2>3, <2>4, <2>5, <2>6, <2>7 DEF TypeInv, TypeOK, Mem
<1>2. CASE UNCHANGED vars
  BY <1>2 DEF vars, TypeInv, TypeOK, ROB!TypeOK, RAT!TypeOK, RS!TypeOK
<1> QED BY <1>1, <1>2 DEF Next

LEMMA TypeInitial == Init => TypeInv
<1> SUFFICES ASSUME Init PROVE TypeInv
  OBVIOUS
<1>1. ROB!TypeOK
  BY OutOfOrderAssumption, DescriptorType, InitialType
     DEF Init, ROB!Init, ROB!TypeOK, ROB!EmptyEntry, ROB!Entry, ROB!Slot
<1>2. RAT!TypeOK
  BY DEF Init, RAT!Init, RAT!TypeOK
<1>3. RS!TypeOK
  BY OutOfOrderAssumption DEF Init, RS!Init, RS!TypeOK
<1> QED BY <1>1, <1>2, <1>3, InitialType DEF Init, TypeInv, TypeOK, Mem

LEMMA TypeInvariance == Spec => []TypeInv
BY TypeInitial, TypeStep, PTL DEF Spec

\* Every field of the machine keeps its type whatever program runs: no word
\* outgrows its width, no tag its buffer, no list its station.
THEOREM TypeCorrect == Spec => []TypeOK
<1>1. TypeInv => TypeOK
  BY DEF TypeInv
<1> QED BY <1>1, TypeInvariance, PTL

-----------------------------------------------------------------------------
(* One edge of the reorder buffer, told by the positions of the instructions *)
(* in flight instead of by pointers and slots.                              *)

\* Branches never enter the buffer, so it never flushes.
NoBranches == \A s \in Slot : entries[s].valid => ~entries[s].op.is_branch

BaseInv == TypeInv /\ RP!WindowInv /\ NoBranches

Retires     == ROB!commit_en
Stays(s)    == entries[s].valid /\ ~(Retires /\ s = head)
Accepted    == DispatchOp # NoInput /\ ROB!CountAfterCommit < ROB_SIZE
Finishes(s) == Complete # NoInput /\ s = Complete.tag

LEMMA NeverFlushes == BaseInv => ~ROB!flush
BY RobTypes DEF BaseInv, NoBranches, ROB!flush, ROB!commit_en

LEMMA PositionIs ==
    ASSUME TypeInv, NEW s \in Slot
    PROVE  /\ Position(s) = IF s < head THEN s - head + ROB_SIZE ELSE s - head
           /\ Position(s) \in Slot
<1>1. Position(s) = RP!Wrap(s - head)
  BY DEF Position, ROB!Position, ROB!Wrap, RP!Wrap
<1>2. s \in RP!Slot /\ head \in RP!Slot
  BY RobTypes DEF Slot, RP!Slot
<1>3. RP!Wrap(s - head) = IF s < head THEN s - head + ROB_SIZE ELSE s - head
  BY <1>2, RobAssumed, RP!DistanceIs
<1> QED BY <1>1, <1>3, RobTypes, OutOfOrderAssumption DEF Slot

LEMMA PositionsDiffer ==
    ASSUME TypeInv, NEW s \in Slot, NEW t \in Slot, Position(s) = Position(t)
    PROVE  s = t
<1>1. /\ Position(s) = IF s < head THEN s - head + ROB_SIZE ELSE s - head
      /\ Position(t) = IF t < head THEN t - head + ROB_SIZE ELSE t - head
  BY PositionIs
<1>2. s \in Int /\ t \in Int /\ head \in Int /\ ROB_SIZE \in Int
      /\ s >= 0 /\ t >= 0 /\ s < ROB_SIZE /\ t < ROB_SIZE /\ head >= 0 /\ head < ROB_SIZE
  BY RobTypes, OutOfOrderAssumption DEF Slot
<1>3. (IF s < head THEN s - head + ROB_SIZE ELSE s - head)
        = (IF t < head THEN t - head + ROB_SIZE ELSE t - head)
  BY <1>1
<1> QED BY <1>2, <1>3

\* The oldest instruction in flight is the one at the head.
LEMMA Window ==
    ASSUME BaseInv
    PROVE  /\ \A s \in Slot : entries[s].valid <=> Position(s) < count
           /\ Position(head) = 0
           /\ count > 0 => entries[head].valid
           /\ Retires => count > 0 /\ entries[head].valid /\ entries[head].ready
<1>1. \A s \in Slot : entries[s].valid <=> Position(s) < count
  BY DEF BaseInv, RP!WindowInv, RP!Position, RP!Wrap, Position, ROB!Position, ROB!Wrap, Slot, RP!Slot
<1>2. Position(head) = 0
  BY PositionIs, RobTypes, OutOfOrderAssumption DEF BaseInv, Slot
<1>3. Retires => count > 0
  BY RobTypes DEF BaseInv, Retires, ROB!commit_en, ROB!empty
<1> QED BY <1>1, <1>2, <1>3, RobTypes DEF BaseInv, Retires, ROB!commit_en

\* What a result changes in an entry that is in use.
LEMMA CompletedFields ==
    ASSUME NEW es \in [RP!Slot -> RP!Entry], NEW c \in RP!Completion \cup {NoInput},
           NEW s \in RP!Slot, es[s].valid
    PROVE  LET e == RP!CompletedIn(es, c)[s]
               hit == c # NoInput /\ c.tag = s
           IN /\ e.valid = es[s].valid
              /\ e.op = es[s].op
              /\ e.ready = (hit \/ es[s].ready)
              /\ e.value = IF hit THEN (IF es[s].op.is_load THEN c.mem_value ELSE c.value)
                           ELSE es[s].value
<1>1. CASE c # NoInput /\ es[c.tag].valid
  <2> DEFINE old == es[c.tag]
             f == [old EXCEPT !.ready = TRUE,
                              !.value = IF old.op.is_load THEN c.mem_value ELSE c.value,
                              !.branch_taken = c.branch_taken]
  <2>1. c.tag \in RP!Slot
    BY <1>1 DEF RP!Completion
  <2>2. old \in RP!Entry
    BY <2>1
  <2>3. /\ f.op = old.op /\ f.ready = TRUE /\ f.valid = old.valid
        /\ f.value = IF old.op.is_load THEN c.mem_value ELSE c.value
    BY <2>2 DEF RP!Entry
  <2>4. RP!CompletedIn(es, c) = [es EXCEPT ![c.tag] = f]
    BY <1>1 DEF RP!CompletedIn
  <2> HIDE DEF f
  <2>5. RP!CompletedIn(es, c)[s] = IF s = c.tag THEN f ELSE es[s]
    BY <2>1, <2>4
  <2>6. CASE s = c.tag
    BY <1>1, <2>3, <2>5, <2>6
  <2>7. CASE s # c.tag
    <3>1. es[s].ready \in BOOLEAN
      BY DEF RP!Entry
    <3> QED BY <2>5, <2>7, <3>1
  <2> QED BY <2>6, <2>7
<1>2. CASE ~(c # NoInput /\ es[c.tag].valid)
  <2>1. RP!CompletedIn(es, c) = es /\ ~(c # NoInput /\ c.tag = s) /\ es[s].ready \in BOOLEAN
    BY <1>2 DEF RP!CompletedIn, RP!Entry
  <2> QED BY <2>1
<1> QED BY <1>1, <1>2

LEMMA RobAdvances ==
    ASSUME BaseInv, Tick
    PROVE  /\ RP!Advance(DispatchOp, Complete)
           /\ RAT!Advance(Commit, Alloc)
           /\ RS!Advance(Sel, Cdb, Issue)
<1>1. ~ROB!flush
  BY NeverFlushes
<1>2. ROB!Advance(DispatchOp, Complete)
  BY <1>1 DEF Tick, ROB!RisingEdge, ROB!Flush
<1>3. RP!Advance(DispatchOp, Complete)
  BY <1>2 DEF ROB!Advance, RP!Advance, ROB!flush, RP!flush,
     ROB!commit_en, RP!commit_en, ROB!empty, RP!empty, ROB!EmptyEntry, RP!EmptyEntry,
     ROB!Slot, RP!Slot, ROB!CountAfterCommit, RP!CountAfterCommit, ROB!Succ, RP!Succ,
     ROB!Wrap, RP!Wrap, ROB!CompletedIn, RP!CompletedIn, ROB!AfterCommit, RP!AfterCommit,
     ROB!DispatchedIn, RP!DispatchedIn
<1> QED BY <1>1, <1>3 DEF Tick

LEMMA RobEdge ==
    ASSUME BaseInv, Tick
    PROVE  /\ \A s \in Slot : entries'[s].valid <=> Stays(s) \/ (Accepted /\ s = tail)
           /\ \A s \in Slot : Stays(s) =>
                 /\ Position(s) < count
                 /\ Position(s)' = Position(s) - (IF Retires THEN 1 ELSE 0)
                 /\ Position(s)' < ROB!CountAfterCommit
                 /\ entries'[s].op = entries[s].op
                 /\ entries'[s].ready = (Finishes(s) \/ entries[s].ready)
                 /\ entries'[s].value =
                       IF Finishes(s) THEN (IF entries[s].op.is_load THEN Complete.mem_value
                                            ELSE Complete.value)
                       ELSE entries[s].value
           /\ \A s \in Slot : Accepted /\ s = tail =>
                 /\ ~Stays(s)
                 /\ Position(s)' = ROB!CountAfterCommit
                 /\ entries'[s].op = DispatchOp /\ ~entries'[s].ready
           /\ ROB!CountAfterCommit = count - (IF Retires THEN 1 ELSE 0)
           /\ count' = ROB!CountAfterCommit + (IF Accepted THEN 1 ELSE 0)
<1> USE OutOfOrderAssumption
<1> DEFINE h  == IF RP!commit_en THEN RP!Succ(head) ELSE head
           es == RP!CompletedIn(RP!AfterCommit, Complete)
           n  == RP!CountAfterCommit
           accepts == DispatchOp # NoInput /\ n < ROB_SIZE
<1>1. TypeInv /\ RP!TypeOK /\ RP!WindowInv /\ RP!ValidDispatched
  BY RobTypes DEF BaseInv, RP!ValidDispatched, RP!Slot, Slot
<1>2. DispatchOp \in Descriptor \cup {NoInput} /\ Complete \in RP!Completion \cup {NoInput}
  BY <1>1, PortTypes
<1>3. /\ head' = h
      /\ entries' = IF accepts THEN RP!DispatchedIn(es, DispatchOp) ELSE es
      /\ count' = IF accepts THEN n + 1 ELSE n
  BY RobAdvances DEF RP!Advance
<1>4. /\ h \in Slot /\ n \in 0..ROB_SIZE /\ tail = RP!Wrap(h + n)
      /\ \A s \in Slot : /\ es[s].valid <=> RP!Wrap(s - h) < n
                         /\ RP!AfterCommit[s].valid <=> RP!Wrap(s - h) < n
  BY <1>1, <1>2, RobAssumed, RP!CompletedWindow DEF Slot, RP!Slot
<1>5. Retires = RP!commit_en /\ ROB!CountAfterCommit = n /\ Accepted = accepts
  BY DEF Retires, ROB!commit_en, RP!commit_en, ROB!empty, RP!empty, ROB!CountAfterCommit,
         RP!CountAfterCommit, Accepted
<1>6. RP!AfterCommit \in [Slot -> RP!Entry] /\ es \in [Slot -> RP!Entry]
  BY <1>1, <1>2, RobAssumed, RP!AfterCommitType, RP!CompletedInType DEF Slot, RP!Slot
<1>7. \A s \in Slot : RP!AfterCommit[s].valid <=> Stays(s)
  BY <1>1, <1>5, RobTypes DEF RP!AfterCommit, Stays, RP!EmptyEntry
<1>8. \A s \in Slot : Stays(s) => RP!AfterCommit[s] = entries[s]
  BY <1>1, <1>5, RobTypes DEF RP!AfterCommit, Stays
<1>9. n = count - (IF Retires THEN 1 ELSE 0)
  BY <1>5 DEF RP!CountAfterCommit
<1>10. tail \in Slot /\ head \in Slot /\ count \in 0..ROB_SIZE
  BY <1>1, RobTypes
<1>11. \A s \in Slot : Position(s)' = RP!Wrap(s - h)
  BY <1>3 DEF Position, ROB!Position, ROB!Wrap, RP!Wrap
<1>12. ASSUME NEW s \in Slot, Stays(s)
       PROVE  /\ Position(s) < count
              /\ Position(s)' = Position(s) - (IF Retires THEN 1 ELSE 0)
              /\ Position(s)' < n
  <2>1. Position(s) < count
    BY <1>12, Window DEF Stays
  <2>2. RP!Wrap(s - h) < n
    BY <1>4, <1>7, <1>12
  <2>3. RP!Wrap(s - h) = IF s < h THEN s - h + ROB_SIZE ELSE s - h
    BY <1>4, RobAssumed, RP!DistanceIs DEF Slot, RP!Slot
  <2>4. Position(s) = IF s < head THEN s - head + ROB_SIZE ELSE s - head
    BY <1>1, PositionIs
  <2>5. RP!Wrap(s - h) = Position(s) - (IF Retires THEN 1 ELSE 0)
    <3>1. CASE RP!commit_en
      <4>1. h = IF head = ROB_SIZE - 1 THEN 0 ELSE head + 1
        BY <1>10, <3>1, RobAssumed, RP!SuccIs DEF Slot, RP!Slot
      <4>2. s # head
        BY <1>5, <1>12, <3>1 DEF Stays
      <4> HIDE DEF h
      <4> QED BY <1>4, <1>5, <1>10, <2>3, <2>4, <3>1, <4>1, <4>2 DEF Slot
    <3>2. CASE ~RP!commit_en
      <4>1. h = head
        BY <3>2
      <4> HIDE DEF h
      <4> QED BY <1>4, <1>5, <1>10, <2>3, <2>4, <3>2, <4>1 DEF Slot
    <3> QED BY <3>1, <3>2
  <2> QED BY <1>11, <2>1, <2>2, <2>5
<1>13. ASSUME NEW s \in Slot, Stays(s)
       PROVE  /\ es[s].op = entries[s].op
              /\ es[s].ready = (Finishes(s) \/ entries[s].ready)
              /\ es[s].value = IF Finishes(s) THEN (IF entries[s].op.is_load THEN Complete.mem_value
                                                    ELSE Complete.value)
                               ELSE entries[s].value
  <2>1. RP!AfterCommit[s] = entries[s] /\ RP!AfterCommit[s].valid
    BY <1>7, <1>8, <1>13
  <2>2. Slot = RP!Slot
    BY DEF Slot, RP!Slot
  <2>3. LET hit == Complete # NoInput /\ Complete.tag = s
        IN /\ es[s].op = entries[s].op
           /\ es[s].ready = (hit \/ entries[s].ready)
           /\ es[s].value = IF hit THEN (IF entries[s].op.is_load THEN Complete.mem_value
                                         ELSE Complete.value)
                            ELSE entries[s].value
    BY <1>2, <1>6, <2>1, <2>2, CompletedFields
  <2>4. Finishes(s) <=> Complete # NoInput /\ Complete.tag = s
    BY DEF Finishes
  <2> HIDE DEF es
  <2> QED BY <2>3, <2>4
<1>14. accepts => ~Stays(tail) /\ RP!Wrap(tail - h) = n
  <2> SUFFICES ASSUME accepts PROVE ~Stays(tail) /\ RP!Wrap(tail - h) = n
    OBVIOUS
  <2>1. n \in 0..(ROB_SIZE - 1)
    BY <1>4
  <2>2. RP!Wrap(h + n) = IF h + n < ROB_SIZE THEN h + n ELSE h + n - ROB_SIZE
    BY <1>4, RobAssumed, RP!EndIs DEF Slot, RP!Slot
  <2>3. RP!Wrap(tail - h) = IF tail < h THEN tail - h + ROB_SIZE ELSE tail - h
    BY <1>4, <1>10, RobAssumed, RP!DistanceIs DEF Slot, RP!Slot
  <2> HIDE DEF h, n
  <2>4. RP!Wrap(tail - h) = n
    BY <1>4, <2>1, <2>2, <2>3 DEF Slot
  <2>5. ~(RP!Wrap(tail - h) < n)
    BY <2>1, <2>4
  <2> QED BY <1>4, <1>7, <1>10, <2>4, <2>5
<1> HIDE DEF es, n, h
<1>15. CASE accepts
  <2>1. entries' = RP!DispatchedIn(es, DispatchOp) /\ count' = n + 1
    BY <1>3, <1>15
  <2>2. /\ entries'[tail].op = DispatchOp /\ ~entries'[tail].ready /\ entries'[tail].valid
        /\ \A s \in Slot : s # tail => entries'[s] = es[s]
    BY <1>6, <1>10, <2>1 DEF RP!DispatchedIn
  <2>3. \A s \in Slot : Stays(s) => s # tail
    BY <1>14, <1>15
  <2>4. \A s \in Slot : es[s].valid <=> Stays(s)
    BY <1>4, <1>7
  <2>5. \A s \in Slot : s = tail => Position(s)' = n
    BY <1>14, <1>15, <1>11
  <2> QED BY <1>5, <1>9, <1>10, <1>12, <1>13, <1>14, <1>15, <2>1, <2>2, <2>3, <2>4, <2>5
<1>16. CASE ~accepts
  <2>1. entries' = es /\ count' = n
    BY <1>3, <1>16
  <2>2. \A s \in Slot : es[s].valid <=> Stays(s)
    BY <1>4, <1>7
  <2>3. n + 0 = n
    BY <1>4
  <2> QED BY <1>5, <1>9, <1>12, <1>13, <1>16, <2>1, <2>2, <2>3
<1> QED BY <1>15, <1>16

LEMMA CurrentClasses ==
    TypeInv => /\ Dispatch => ~Current.branch
               /\ ~Dispatch => Current.branch
               /\ Current.reg_write => Dispatch
<1> SUFFICES ASSUME TypeInv
             PROVE  /\ Dispatch => ~Current.branch
                    /\ ~Dispatch => Current.branch
                    /\ Current.reg_write => Dispatch
  OBVIOUS
<1>1. PICK i \in Instruction : Current = Decode(i)
  BY OutOfOrderAssumption, FetchedType DEF TypeInv, Current
<1> QED BY <1>1 DEF Dispatch, Decode

\* The ports are driven in the cycles of a dispatch.
LEMMA Driven ==
    ASSUME TypeInv
    PROVE  /\ Dispatch <=> DispatchOp # NoInput
           /\ Dispatch <=> Issue # NoInput
           /\ Current.reg_write <=> Alloc # NoInput
           /\ CommitsReg <=> Commit # NoInput
           /\ Sel # 0 <=> Complete # NoInput
           /\ Sel # 0 <=> Cdb # NoInput
           /\ RoomAtDispatch => (Accepted <=> Dispatch) /\ (Enters <=> Dispatch)
<1> USE OutOfOrderAssumption
<1>1. Dispatch <=> DispatchOp # NoInput
  <2>1. Dispatch => DispatchOp \in Descriptor
    BY CurrentType DEF DispatchOp, Descriptor, Control, TypeInv, TypeOK
  <2> QED BY <2>1 DEF DispatchOp
<1>2. Dispatch <=> Issue # NoInput
  <2> DEFINE issued == [op |-> [alu_op |-> Current.alu_op, imm |-> Current.imm,
                                alu_src |-> Current.alu_src, is_load |-> Current.mem_read],
                        src1 |-> FirstSource, src2 |-> Source(Current.rs2),
                        rob_tag |-> ROB!dispatch_tag]
  <2>1. issued # NoInput
    <3>1. /\ Source(Current.rs2) = [ready |-> Source(Current.rs2).ready,
                                    tag |-> Source(Current.rs2).tag,
                                    val |-> Source(Current.rs2).val]
          /\ FirstSource = [ready |-> FirstSource.ready, tag |-> FirstSource.tag,
                            val |-> FirstSource.val]
      BY DEF Source, FirstSource
    <3>2. 0 \in Slot /\ pc \in Word /\ alias \in [Reg -> Slot \cup {NoTag}] /\ tail \in Slot
      BY RobTypes DEF TypeInv, TypeOK, RAT!TypeOK, Slot
    <3>3. \A r \in Reg : Source(r) \in RS!Operand
      <4> TAKE r \in Reg
      <4>1. RAT!Lookup(r, Commit) \in Slot \cup {NoTag}
        BY <3>2 DEF RAT!Lookup
      <4> QED BY <4>1, <3>2, ReadType DEF Source, RS!Operand, RS!Tag, Slot
    <3>4. FirstSource \in RS!Operand /\ Source(Current.rs2) \in RS!Operand
      BY <3>2, <3>3, CurrentType DEF FirstSource, Control, RS!Operand, RS!Tag, Slot
    <3>5. issued \in RS!Pending
      BY <3>2, <3>4, CurrentType DEF RS!Pending, IssueOps, Control, RS!Tag, Slot, ROB!dispatch_tag
    <3> QED BY <3>5
  <2> QED BY <2>1 DEF Issue
<1>3. Current.reg_write <=> Alloc # NoInput
  <2>1. Current.reg_write => Alloc \in [rd : Reg, tag : 0..(ROB_SIZE - 1)]
    BY CurrentType, RobTypes DEF Alloc, Control, ROB!dispatch_tag, Slot
  <2> QED BY <2>1 DEF Alloc
<1>4. CommitsReg <=> Commit # NoInput
  <2>1. CommitsReg => Commit \in [rd : Reg, tag : 0..(ROB_SIZE - 1)]
    BY RobTypes DEF Commit, Retiring, Descriptor, Slot
  <2> QED BY <2>1 DEF Commit
<1>5. Sel # 0 <=> Complete # NoInput
  <2>1. Sel # 0 => Complete \in ROB!Completion
    BY ExecType DEF Complete, ROB!Completion, ROB!Slot, Slot
  <2> QED BY <2>1 DEF Complete
<1>6. Sel # 0 <=> Cdb # NoInput
  <2>1. Sel # 0 => Cdb \in RS!Broadcast
    BY ExecType DEF Cdb, RS!Broadcast, RS!Tag, Slot
  <2> QED BY <2>1 DEF Cdb
<1>7. RoomAtDispatch => (Accepted <=> Dispatch) /\ (Enters <=> Dispatch)
  <2>1. Len(IF Sel = 0 THEN waiting ELSE RS!Without(Sel)) = Left
    BY Places
  <2> QED BY <1>1, <1>2, <2>1 DEF RoomAtDispatch, Accepted, Enters
<1> QED BY <1>1, <1>2, <1>3, <1>4, <1>5, <1>6, <1>7

LEMMA BaseStep == BaseInv /\ [Next]_vars => BaseInv'
<1> SUFFICES ASSUME BaseInv, [Next]_vars PROVE BaseInv'
  OBVIOUS
<1>1. TypeInv'
  BY TypeStep DEF BaseInv
<1>2. CASE Tick
  <2>1. RP!WindowInv'
    BY <1>2, RobTypes, RobMoves, RobStep DEF BaseInv
  <2>2. ASSUME NEW s \in Slot, entries'[s].valid PROVE ~entries'[s].op.is_branch
    <3>1. CASE Stays(s)
      BY <1>2, <3>1, RobEdge DEF BaseInv, NoBranches, Stays
    <3>2. CASE Accepted /\ s = tail
      <4>1. entries'[s].op = DispatchOp /\ DispatchOp # NoInput
        BY <1>2, <3>2, RobEdge DEF Accepted
      <4> QED BY <4>1, Driven, CurrentClasses DEF BaseInv, DispatchOp
    <3> QED BY <1>2, <2>2, <3>1, <3>2, RobEdge
  <2> QED BY <1>1, <2>1, <2>2 DEF BaseInv, NoBranches
<1>3. CASE UNCHANGED vars
  BY <1>1, <1>3 DEF vars, BaseInv, NoBranches, RP!WindowInv, RP!Position
<1> QED BY <1>2, <1>3 DEF Next

LEMMA BaseInitial == Init => BaseInv
<1> SUFFICES ASSUME Init PROVE BaseInv
  OBVIOUS
<1>1. TypeInv
  BY TypeInitial
<1>2. RP!WindowInv
  <2>1. head = 0 /\ tail = 0 /\ count = 0 /\ \A s \in Slot : ~entries[s].valid
    BY DEF Init, ROB!Init, ROB!EmptyEntry, ROB!Slot, Slot
  <2>2. RP!Wrap(head + count) = 0
    BY <2>1, OutOfOrderAssumption, RobAssumed, RP!EndIs DEF RP!Slot
  <2>3. \A s \in Slot : ~(RP!Wrap(s - head) < count)
    <3>1. \A s \in Slot : Position(s) \in Slot /\ Position(s) = RP!Wrap(s - head)
      BY <1>1, PositionIs DEF Position, ROB!Position, ROB!Wrap, RP!Wrap
    <3> QED BY <2>1, <3>1 DEF Slot
  <2> QED BY <2>1, <2>2, <2>3 DEF RP!WindowInv, RP!Position, Slot, RP!Slot
<1>3. NoBranches
  BY DEF Init, ROB!Init, ROB!EmptyEntry, ROB!Slot, Slot, NoBranches
<1> QED BY <1>1, <1>2, <1>3 DEF BaseInv

-----------------------------------------------------------------------------
(* Renaming.                                                                *)

\* Who writes a register after the edge.
LEMMA WritersNext ==
    ASSUME BaseInv, RoomAtDispatch, Tick, NEW s \in Slot, NEW r \in Reg
    PROVE  Writes(s, r)' <=> \/ Stays(s) /\ Writes(s, r)
                             \/ s = tail /\ Current.reg_write /\ Current.rd = r
<1>1. /\ entries'[s].valid <=> Stays(s) \/ (Accepted /\ s = tail)
      /\ Stays(s) => entries'[s].op = entries[s].op /\ entries[s].valid
      /\ Accepted /\ s = tail => ~Stays(s) /\ entries'[s].op = DispatchOp
  BY RobEdge DEF Stays
<1>2. /\ Accepted <=> Dispatch
      /\ Current.reg_write => Dispatch
      /\ Dispatch => DispatchOp.reg_write = Current.reg_write /\ DispatchOp.rd = Current.rd
  BY Driven, CurrentClasses DEF BaseInv, DispatchOp
<1> QED BY <1>1, <1>2 DEF Writes

\* Looking a register up sees the commit of the same edge: what is found is the
\* youngest of the writers that stay.
LEMMA LookupIs ==
    ASSUME BaseInv, AliasIsYoungestWriter, NEW r \in Reg, r # ZERO_REG
    PROVE  LET t == RAT!Lookup(r, Commit)
           IN /\ t \in Slot \cup {NoTag} /\ NoTag \notin Slot
              /\ RAT!Freed(Commit)[r] = t
              /\ IF t = NoTag THEN \A s \in Slot : ~(Stays(s) /\ Writes(s, r))
                 ELSE /\ Stays(t) /\ Writes(t, r)
                      /\ \A s \in Slot : Stays(s) /\ Writes(s, r) => Position(s) <= Position(t)
<1> DEFINE t == RAT!Lookup(r, Commit)
<1>1. alias \in [Reg -> Slot \cup {NoTag}] /\ head \in Slot /\ NoTag \notin Slot
  BY RobTypes, OutOfOrderAssumption DEF BaseInv, TypeInv, TypeOK, RAT!TypeOK, Slot
<1>2. /\ CommitsReg <=> Commit # NoInput
      /\ CommitsReg => Commit = [rd |-> Retiring.op.rd, tag |-> head] /\ Retiring.op.rd \in Reg
      /\ CommitsReg <=> Retires /\ Retiring.op.reg_write
  BY Driven, RobTypes DEF BaseInv, Commit, CommitsReg, Retires, Retiring, Descriptor
<1>3. t = IF CommitsReg /\ Retiring.op.rd = r /\ alias[r] = head THEN NoTag ELSE alias[r]
  BY <1>2 DEF RAT!Lookup, RAT!IsCommitting
<1>4. RAT!Freed(Commit)[r]
        = IF CommitsReg /\ Retiring.op.rd = r /\ alias[r] = head THEN NoTag ELSE alias[r]
  BY <1>1, <1>2 DEF RAT!Freed
<1>5. IF alias[r] = NoTag THEN \A s \in Slot : ~Writes(s, r)
      ELSE /\ alias[r] \in Slot /\ Writes(alias[r], r)
           /\ \A s \in Slot : Writes(s, r) => Position(s) <= Position(alias[r])
  BY DEF AliasIsYoungestWriter
<1> HIDE DEF t
<1>6. CASE CommitsReg /\ Retiring.op.rd = r /\ alias[r] = head
  <2>1. t = NoTag /\ Retires
    BY <1>2, <1>3, <1>6
  <2>2. ASSUME NEW s \in Slot, Stays(s), Writes(s, r) PROVE FALSE
    <3>1. Position(s) <= Position(head) /\ Position(head) = 0
      BY <1>1, <1>5, <1>6, <2>2, Window
    <3>2. Position(s) \in Slot
      BY PositionIs DEF BaseInv
    <3>3. Position(s) = Position(head)
      BY <3>1, <3>2, OutOfOrderAssumption DEF Slot
    <3>4. s = head
      BY <1>1, <3>3, PositionsDiffer DEF BaseInv
    <3> QED BY <2>1, <2>2, <3>4 DEF Stays
  <2> QED BY <1>1, <1>4, <1>6, <2>1, <2>2 DEF t
<1>7. CASE ~(CommitsReg /\ Retiring.op.rd = r /\ alias[r] = head)
  <2>1. t = alias[r]
    BY <1>3, <1>7
  <2>2. alias[r] # NoTag => Stays(alias[r])
    BY <1>2, <1>5, <1>7 DEF Stays, Writes, Retiring
  <2> QED BY <1>1, <1>4, <1>5, <1>7, <2>1, <2>2 DEF t
<1> QED BY <1>6, <1>7

LEMMA AliasStep ==
    ASSUME BaseInv, AliasIsYoungestWriter, RoomAtDispatch, Tick
    PROVE  AliasIsYoungestWriter'
<1> DEFINE f == RAT!Freed(Commit)
<1>1. alias \in [Reg -> Slot \cup {NoTag}] /\ tail \in Slot /\ NoTag \notin Slot
  BY RobTypes, OutOfOrderAssumption DEF BaseInv, TypeInv, TypeOK, RAT!TypeOK, Slot
<1>2. Current.rd \in Reg
  BY CurrentType DEF BaseInv, Control
<1>3. alias' = IF Current.reg_write /\ Current.rd # ZERO_REG
               THEN [f EXCEPT ![Current.rd] = tail] ELSE f
  BY RobAdvances, Driven DEF BaseInv, RAT!Advance, Alloc, ROB!dispatch_tag
<1>4. f \in [Reg -> Slot \cup {NoTag}]
  BY <1>1 DEF RAT!Freed
<1>5. ASSUME NEW r \in Reg, r # ZERO_REG
      PROVE  IF f[r] = NoTag THEN \A s \in Slot : ~(Stays(s) /\ Writes(s, r))
             ELSE /\ f[r] \in Slot /\ Stays(f[r]) /\ Writes(f[r], r)
                  /\ \A s \in Slot : Stays(s) /\ Writes(s, r) => Position(s) <= Position(f[r])
  BY <1>5, LookupIs
<1> HIDE DEF f
<1>6. ASSUME NEW r \in Reg, r # ZERO_REG
      PROVE  IF alias'[r] = NoTag THEN \A s \in Slot : ~Writes(s, r)'
             ELSE /\ alias'[r] \in Slot
                  /\ \A a \in Slot : a = alias'[r] =>
                        /\ Writes(a, r)'
                        /\ \A s \in Slot : Writes(s, r)' => Position(s)' <= Position(a)'
  <2>1. \A s \in Slot : Writes(s, r)' <=> \/ Stays(s) /\ Writes(s, r)
                                          \/ s = tail /\ Current.reg_write /\ Current.rd = r
    BY WritersNext
  <2>2. \A s \in Slot : Stays(s) => /\ Position(s)' = Position(s) - (IF Retires THEN 1 ELSE 0)
                                    /\ Position(s)' < ROB!CountAfterCommit
                                    /\ Position(s)' \in Int /\ Position(s) \in Int
    <3>1. \A s \in Slot : Position(s) \in Int
      BY PositionIs, OutOfOrderAssumption DEF BaseInv, Slot
    <3> HIDE DEF Position
    <3> QED BY <3>1, RobEdge
  <2>3. ROB!CountAfterCommit \in Int
    BY RobTypes DEF BaseInv, ROB!CountAfterCommit
  <2>4. CASE Current.reg_write /\ Current.rd = r
    <3>1. alias'[r] = tail
      BY <1>2, <1>3, <1>4, <1>6, <2>4
    <3>2. Accepted
      BY <2>4, Driven, CurrentClasses DEF BaseInv
    <3>3. \A s \in Slot : s = tail => Position(s)' = ROB!CountAfterCommit
      BY <3>2, RobEdge
    <3> HIDE DEF Position
    <3>4. \A a, s \in Slot : a = tail /\ Writes(s, r)' => Position(s)' <= Position(a)'
      BY <2>1, <2>2, <2>3, <3>3
    <3>5. \A a \in Slot : a = tail => Writes(a, r)'
      BY <2>1, <2>4
    <3> QED BY <1>1, <3>1, <3>4, <3>5
  <2>5. CASE ~(Current.reg_write /\ Current.rd = r)
    <3>1. alias'[r] = f[r]
      BY <1>2, <1>3, <1>4, <2>5
    <3>2. \A s \in Slot : Writes(s, r)' <=> Stays(s) /\ Writes(s, r)
      BY <2>1, <2>5
    <3>3. IF f[r] = NoTag THEN \A s \in Slot : ~(Stays(s) /\ Writes(s, r))
          ELSE /\ f[r] \in Slot /\ Stays(f[r]) /\ Writes(f[r], r)
               /\ \A s \in Slot : Stays(s) /\ Writes(s, r) => Position(s) <= Position(f[r])
      BY <1>5, <1>6
    <3>4. \A a, s \in Slot : Stays(a) /\ Stays(s) /\ Position(s) <= Position(a)
                             => Position(s)' <= Position(a)'
      <4> HIDE DEF Position
      <4> QED BY <2>2
    <3> QED BY <3>1, <3>2, <3>3, <3>4
  <2> QED BY <2>4, <2>5
<1> QED BY <1>6 DEF AliasIsYoungestWriter

-----------------------------------------------------------------------------
(* The station.                                                             *)

\* An instruction in flight that is not completed outlives the edge.
LEMMA UnexecutedStay ==
    ASSUME BaseInv, NEW s \in Unexecuted
    PROVE  s \in Slot /\ Stays(s) /\ ~entries[s].ready
BY Window DEF Unexecuted, InFlight, Stays

LEMMA Executing ==
    ASSUME BaseInv, StationHoldsUnexecuted
    PROVE  /\ Sel # 0 => Exec.rob_tag \in Unexecuted /\ Complete.tag = Exec.rob_tag
           /\ \A s : Finishes(s) <=> Sel # 0 /\ s = Exec.rob_tag
<1>1. Sel # 0 => Exec.rob_tag \in Unexecuted
  BY SelectedRuns DEF BaseInv, StationHoldsUnexecuted, Exec
<1>2. Sel # 0 => Complete.tag = Exec.rob_tag
  BY DEF Complete
<1>3. Sel # 0 <=> Complete # NoInput
  BY Driven DEF BaseInv
<1> QED BY <1>1, <1>2, <1>3 DEF Finishes

\* The places of the station after the edge: those that stay, then the new one.
LEMMA StationNext ==
    ASSUME BaseInv, RoomAtDispatch, Tick
    PROVE  /\ DOMAIN waiting' = 1..(Left + (IF Dispatch THEN 1 ELSE 0))
           /\ Left \in Nat
           /\ \A j \in 1..Left :
                 LET e == waiting[From(j)]
                 IN /\ From(j) \in DOMAIN waiting /\ From(j) # Sel
                    /\ waiting'[j].rob_tag = e.rob_tag
                    /\ waiting'[j].op = e.op
                    /\ waiting'[j].src1 = RS!Capture(e.src1, Cdb)
                    /\ waiting'[j].src2 = RS!Capture(e.src2, Cdb)
           /\ Dispatch => LET e == waiting'[Left + 1]
                          IN /\ e.rob_tag = tail
                             /\ e.op = Issue.op
                             /\ e.src1 = RS!Capture(FirstSource, Cdb)
                             /\ e.src2 = RS!Capture(Source(Current.rs2), Cdb)
<1>1. /\ waiting' \in Seq(RS!Pending)
      /\ Len(waiting') = Left + (IF Enters THEN 1 ELSE 0)
      /\ \A j \in 1..Left : waiting'[j] = RS!Snoop(waiting[From(j)], Cdb)
      /\ Enters => Issue \in RS!Pending /\ waiting'[Left + 1] = RS!Snoop(Issue, Cdb)
  BY RobAdvances, StationEdge DEF BaseInv
<1>2. Enters <=> Dispatch
  BY Driven DEF BaseInv
<1>3. Left \in Nat /\ \A j \in 1..Left : From(j) \in DOMAIN waiting /\ From(j) # Sel
  BY Places, OutOfOrderAssumption DEF BaseInv
<1>4. DOMAIN waiting' = 1..Len(waiting')
  BY <1>1
<1>5. Cdb \in RS!Broadcast \cup {NoInput} /\ \A i \in DOMAIN waiting : waiting[i] \in RS!Pending
  BY PortTypes, StationTypes DEF BaseInv
<1>6. \A j \in 1..Left :
         LET e == waiting[From(j)]
         IN /\ waiting'[j].rob_tag = e.rob_tag
            /\ waiting'[j].op = e.op
            /\ waiting'[j].src1 = RS!Capture(e.src1, Cdb)
            /\ waiting'[j].src2 = RS!Capture(e.src2, Cdb)
  BY <1>1, <1>3, <1>5, SnoopIs
<1>7. Dispatch => LET e == waiting'[Left + 1]
                  IN /\ e.rob_tag = Issue.rob_tag
                     /\ e.op = Issue.op
                     /\ e.src1 = RS!Capture(Issue.src1, Cdb)
                     /\ e.src2 = RS!Capture(Issue.src2, Cdb)
  BY <1>1, <1>2, <1>5, SnoopIs
<1>8. Dispatch => /\ Issue.rob_tag = tail /\ Issue.src1 = FirstSource
                  /\ Issue.src2 = Source(Current.rs2)
  BY DEF Issue, ROB!dispatch_tag
<1> QED BY <1>1, <1>2, <1>3, <1>4, <1>6, <1>7, <1>8

LEMMA StationStep ==
    ASSUME BaseInv, StationHoldsUnexecuted, RoomAtDispatch, Tick
    PROVE  StationHoldsUnexecuted'
<1> DEFINE tagOf(i) == waiting[i].rob_tag
<1>1. /\ tail \in Slot /\ ROB!CountAfterCommit \in Int /\ (Accepted <=> Dispatch)
      /\ \A i \in DOMAIN waiting : i \in Nat \ {0} /\ tagOf(i) \in Slot
  BY RobTypes, StationTypes, Driven DEF BaseInv, ROB!CountAfterCommit
<1>2. /\ Unexecuted = {tagOf(i) : i \in DOMAIN waiting}
      /\ \A i, j \in DOMAIN waiting : i < j => Position(tagOf(i)) < Position(tagOf(j))
  BY DEF StationHoldsUnexecuted
<1>3. \A s \in Slot : Position(s) \in Int
  BY PositionIs, OutOfOrderAssumption DEF BaseInv, Slot
<1>4. \A s \in Slot : Stays(s) => /\ Position(s)' = Position(s) - (IF Retires THEN 1 ELSE 0)
                                  /\ Position(s)' < ROB!CountAfterCommit
  <2> HIDE DEF Position
  <2> QED BY RobEdge
<1>5. \A i \in DOMAIN waiting : Stays(tagOf(i))
  BY <1>2, UnexecutedStay
<1>6. \A i, j \in DOMAIN waiting : i # j => tagOf(i) # tagOf(j)
  <2> HIDE DEF Position
  <2> QED BY <1>1, <1>2, <1>3
<1>7. \A s \in Slot : s \in Unexecuted' <=> \/ s \in Unexecuted /\ ~(Sel # 0 /\ s = Exec.rob_tag)
                                            \/ Dispatch /\ s = tail
  <2> SUFFICES ASSUME NEW s \in Slot
               PROVE  s \in Unexecuted' <=> \/ s \in Unexecuted /\ ~(Sel # 0 /\ s = Exec.rob_tag)
                                            \/ Dispatch /\ s = tail
    OBVIOUS
  <2>1. /\ entries'[s].valid <=> Stays(s) \/ (Accepted /\ s = tail)
        /\ Stays(s) => entries'[s].ready = (Finishes(s) \/ entries[s].ready)
        /\ Accepted /\ s = tail => ~Stays(s) /\ ~entries'[s].ready
    BY RobEdge
  <2>2. s \in Unexecuted <=> Stays(s) /\ ~entries[s].ready
    BY UnexecutedStay DEF Unexecuted, InFlight, Stays
  <2>3. Finishes(s) <=> Sel # 0 /\ s = Exec.rob_tag
    BY Executing
  <2>4. s \in Unexecuted' <=> entries'[s].valid /\ ~entries'[s].ready
    BY DEF Unexecuted, InFlight
  <2> QED BY <1>1, <2>1, <2>2, <2>3, <2>4
<1>8. /\ DOMAIN waiting' = 1..(Left + (IF Dispatch THEN 1 ELSE 0)) /\ Left \in Nat
      /\ \A j \in 1..Left : /\ From(j) \in DOMAIN waiting /\ From(j) # Sel
                            /\ waiting'[j].rob_tag = tagOf(From(j))
      /\ Dispatch => waiting'[Left + 1].rob_tag = tail
  BY StationNext
<1>9. /\ \A i \in DOMAIN waiting : i # Sel => \E j \in 1..Left : From(j) = i
      /\ \A i, j \in 1..Left : i < j => From(i) < From(j)
  BY Places DEF BaseInv
<1>10. Sel # 0 => Sel \in DOMAIN waiting /\ Exec.rob_tag = tagOf(Sel)
  BY SelectedRuns DEF BaseInv, Exec
<1>11. ASSUME NEW s \in Unexecuted' PROVE \E i \in DOMAIN waiting' : s = waiting'[i].rob_tag
  <2>1. s \in Slot
    BY <1>11 DEF Unexecuted, InFlight
  <2>2. CASE s \in Unexecuted /\ ~(Sel # 0 /\ s = Exec.rob_tag)
    <3>1. PICK i \in DOMAIN waiting : s = tagOf(i)
      BY <1>2, <2>2
    <3>2. i # Sel
      BY <1>1, <1>10, <2>2, <3>1
    <3>3. PICK j \in 1..Left : From(j) = i
      BY <1>9, <3>2
    <3>4. j \in DOMAIN waiting' /\ waiting'[j].rob_tag = s
      BY <1>8, <3>1, <3>3
    <3> QED BY <3>4
  <2>3. CASE Dispatch /\ s = tail
    BY <1>8, <2>3
  <2> QED BY <1>7, <2>1, <2>2, <2>3
<1>12. ASSUME NEW i \in DOMAIN waiting' PROVE waiting'[i].rob_tag \in Unexecuted'
  <2>1. CASE i \in 1..Left
    <3>1. tagOf(From(i)) \in Unexecuted /\ tagOf(From(i)) \in Slot
      BY <1>1, <1>2, <1>8, <2>1
    <3>2. ~(Sel # 0 /\ tagOf(From(i)) = Exec.rob_tag)
      BY <1>6, <1>8, <1>10, <2>1
    <3> QED BY <1>7, <1>8, <2>1, <3>1, <3>2
  <2>2. CASE Dispatch /\ i = Left + 1
    BY <1>1, <1>7, <1>8, <2>2
  <2> QED BY <1>8, <2>1, <2>2
<1>13. ASSUME NEW i \in DOMAIN waiting', NEW j \in DOMAIN waiting', i < j
       PROVE  \A s, t \in Slot : s = waiting'[i].rob_tag /\ t = waiting'[j].rob_tag
                                 => Position(s)' < Position(t)'
  <2> SUFFICES ASSUME NEW s \in Slot, NEW t \in Slot,
                      s = waiting'[i].rob_tag, t = waiting'[j].rob_tag
               PROVE  Position(s)' < Position(t)'
    OBVIOUS
  <2>1. i \in 1..Left /\ s = tagOf(From(i)) /\ From(i) \in DOMAIN waiting
    BY <1>8, <1>13
  <2>2. CASE j \in 1..Left
    <3>1. t = tagOf(From(j)) /\ From(j) \in DOMAIN waiting /\ From(i) < From(j)
      BY <1>8, <1>9, <1>13, <2>1, <2>2
    <3>2. Position(s) < Position(t)
      BY <1>2, <2>1, <3>1
    <3> HIDE DEF Position
    <3> QED BY <1>3, <1>4, <1>5, <2>1, <3>1, <3>2
  <2>3. CASE Dispatch /\ j = Left + 1
    <3>1. t = tail
      BY <1>8, <2>3
    <3>2. Position(t)' = ROB!CountAfterCommit
      BY <1>1, <2>3, <3>1, RobEdge
    <3> HIDE DEF Position
    <3> QED BY <1>4, <1>5, <2>1, <3>2
  <2> QED BY <1>8, <2>2, <2>3
<1>14. \A i \in DOMAIN waiting' : waiting'[i].rob_tag \in Slot
  BY <1>12 DEF Unexecuted, InFlight
<1>15. \A i, j \in DOMAIN waiting' : i < j => Position(waiting[i].rob_tag)' < Position(waiting[j].rob_tag)'
  BY <1>13, <1>14 DEF Position, ROB!Position, ROB!Wrap
<1>16. Unexecuted' = {waiting'[i].rob_tag : i \in DOMAIN waiting'}
  BY <1>11, <1>12
<1> QED BY <1>15, <1>16 DEF StationHoldsUnexecuted

-----------------------------------------------------------------------------
(* Values.  What an instruction in flight reads is said by the producers     *)
(* ahead of it: program order is the order of the positions.                *)

ControlOf(s) == Decode(Fetched(program, entries[s].op.pc))

NoProducer(s, r) == \A v \in Slot : ~(Writes(v, r) /\ Position(v) < Position(s))
Producer(s, r, w) ==
    /\ Writes(w, r) /\ Position(w) < Position(s)
    /\ \A v \in Slot : Writes(v, r) /\ Position(v) < Position(s) => Position(v) <= Position(w)

\* Program order gives register r the value v at s: the result of its producer, or
\* what is committed.
Known(s, r, v) ==
    \/ /\ r # ZERO_REG
       /\ \E w \in Slot : Producer(s, r, w) /\ entries[w].ready /\ v = entries[w].value
    \/ /\ r = ZERO_REG \/ NoProducer(s, r)
       /\ v = RegRead(regs, r)
Awaits(s, r, t) == r # ZERO_REG /\ t \in Slot /\ Producer(s, r, t) /\ ~entries[t].ready
OperandRight(s, r, src) ==
    IF src.ready THEN Known(s, r, src.val) ELSE Awaits(s, r, src.tag)

\* An entry describes the instruction at its address.
Described ==
    \A s \in InFlight :
        LET c == ControlOf(s)
        IN /\ entries[s].op = [rd |-> c.rd, pc |-> entries[s].op.pc, is_branch |-> c.branch,
                               is_load |-> c.mem_read, is_store |-> c.mem_write,
                               store_data_reg |-> c.rs2, reg_write |-> c.reg_write]
           /\ c.reg_write \/ c.mem_write

\* What waits in the station is to compute what its instruction says, of the
\* operands program order gives it.
StationRight ==
    \A i \in DOMAIN waiting :
        LET e == waiting[i]
            c == ControlOf(e.rob_tag)
        IN /\ e.op = [alu_op |-> c.alu_op, imm |-> c.imm, alu_src |-> c.alu_src,
                      is_load |-> c.mem_read]
           /\ IF c.use_pc THEN e.src1.ready /\ e.src1.val = entries[e.rob_tag].op.pc
              ELSE OperandRight(e.rob_tag, c.rs1, e.src1)
           /\ OperandRight(e.rob_tag, c.rs2, e.src2)

\* A result is what its instruction computes; a load has read a memory no store
\* ahead of it will change.
ResultRight(s) ==
    LET c == ControlOf(s)
    IN /\ \E a, b \in Word :
             /\ c.use_pc \/ Known(s, c.rs1, a)
             /\ Known(s, c.rs2, b)
             /\ LET x == ResultOf(c, entries[s].op.pc, a, b)
                IN entries[s].value = IF c.mem_read THEN mem[MemIndex(x)] ELSE x
       /\ c.mem_read => \A v \in InFlight : entries[v].op.is_store => Position(s) < Position(v)
ResultsRight == \A s \in InFlight : entries[s].ready => ResultRight(s)

\* The instructions in flight are those of the path to pc, as far as their
\* addresses do not come from a register.
Follow(s) == Mask(entries[s].op.pc + (IF ControlOf(s).jal THEN ControlOf(s).imm ELSE 4))
PathRight ==
    \A s \in InFlight : ~ControlOf(s).jalr =>
        /\ Position(s) + 1 = count => pc = Follow(s)
        /\ \A v \in InFlight : Position(v) = Position(s) + 1 => entries[v].op.pc = Follow(s)

\* The machine when it is not disturbed.
Healthy == BaseInv /\ AliasIsYoungestWriter /\ StationHoldsUnexecuted
DataInv == Healthy /\ Described /\ StationRight /\ ResultsRight

LEMMA ControlOfType ==
    ASSUME TypeInv, NEW s \in Slot
    PROVE  ControlOf(s) \in Control
BY OutOfOrderAssumption, FetchedType, DecodeType DEF TypeInv, ControlOf

\* An instruction that stays keeps its description.
LEMMA ControlStays ==
    ASSUME BaseInv, Tick, NEW s \in Slot, Stays(s)
    PROVE  entries'[s].op = entries[s].op /\ ControlOf(s)' = ControlOf(s)
BY RobEdge DEF ControlOf, Tick

\* The registers after the edge are what the read ports show before it.
LEMMA RegsNext ==
    ASSUME BaseInv, Tick, NEW r \in Reg
    PROVE  /\ RegRead(regs', r) = Read(r)
           /\ CommitsReg => Retires
           /\ ~(CommitsReg /\ r = Retiring.op.rd /\ r # ZERO_REG) => RegRead(regs', r) = RegRead(regs, r)
<1>1. regs \in [Reg -> Word] /\ (Retires => Retiring.op.rd \in Reg)
  BY RobTypes DEF BaseInv, TypeInv, TypeOK, Retiring, Descriptor
<1>2. regs' = RegWrite(regs, CommitsReg, Retiring.op.rd, Retiring.value)
  BY DEF Tick
<1>3. CommitsReg => Retires
  BY DEF CommitsReg, Retires
<1> QED BY <1>1, <1>2, <1>3 DEF RegWrite, RegRead, Read

\* Who is ahead of an instruction that stays, after the edge.
LEMMA AheadNext ==
    ASSUME BaseInv, RoomAtDispatch, Tick, NEW s \in Slot, Stays(s), NEW v \in Slot, NEW r \in Reg
    PROVE  /\ Writes(v, r)' /\ Position(v)' < Position(s)'
                <=> Stays(v) /\ Writes(v, r) /\ Position(v) < Position(s)
           /\ Stays(v) => (Position(v)' < Position(s)' <=> Position(v) < Position(s))
<1>1. /\ Position(s)' = Position(s) - (IF Retires THEN 1 ELSE 0)
      /\ Position(s)' < ROB!CountAfterCommit
      /\ Stays(v) => Position(v)' = Position(v) - (IF Retires THEN 1 ELSE 0)
      /\ Accepted /\ v = tail => ~Stays(v) /\ Position(v)' = ROB!CountAfterCommit
  <2> HIDE DEF Position
  <2> QED BY RobEdge
<1>2. Position(s) \in Int /\ Position(v) \in Int /\ ROB!CountAfterCommit \in Int
  BY PositionIs, RobTypes, OutOfOrderAssumption DEF BaseInv, Slot, ROB!CountAfterCommit
<1>3. Writes(v, r)' <=> \/ Stays(v) /\ Writes(v, r)
                        \/ v = tail /\ Current.reg_write /\ Current.rd = r
  BY WritersNext
<1>4. Current.reg_write => Accepted
  BY Driven, CurrentClasses DEF BaseInv
<1> HIDE DEF Position
<1> QED BY <1>1, <1>2, <1>3, <1>4

LEMMA ProducerNext ==
    ASSUME BaseInv, RoomAtDispatch, Tick, NEW s \in Slot, Stays(s), NEW r \in Reg
    PROVE  /\ NoProducer(s, r) => NoProducer(s, r)'
           /\ \A w \in Slot : Producer(s, r, w) /\ Stays(w) => Producer(s, r, w)'
           /\ \A w \in Slot : Producer(s, r, w) /\ ~Stays(w) =>
                 Retires /\ w = head /\ NoProducer(s, r)'
<1>1. \A v \in Slot : /\ Writes(v, r)' /\ Position(v)' < Position(s)'
                            <=> Stays(v) /\ Writes(v, r) /\ Position(v) < Position(s)
                      /\ Stays(v) => Position(v)' = Position(v) - (IF Retires THEN 1 ELSE 0)
                      /\ Position(v) \in Int
  <2>1. \A v \in Slot : Stays(v) => Position(v)' = Position(v) - (IF Retires THEN 1 ELSE 0)
    <3> HIDE DEF Position
    <3> QED BY RobEdge
  <2>2. \A v \in Slot : Position(v) \in Int
    BY PositionIs, OutOfOrderAssumption DEF BaseInv, Slot
  <2> QED BY <2>1, <2>2, AheadNext
<1>2. NoProducer(s, r) => NoProducer(s, r)'
  BY <1>1 DEF NoProducer
<1>3. ASSUME NEW w \in Slot, Producer(s, r, w), Stays(w) PROVE Producer(s, r, w)'
  <2> HIDE DEF Position
  <2> QED BY <1>1, <1>3 DEF Producer
<1>4. ASSUME NEW w \in Slot, Producer(s, r, w), ~Stays(w)
      PROVE  Retires /\ w = head /\ NoProducer(s, r)'
  <2>1. Retires /\ w = head
    BY <1>4 DEF Producer, Stays, Writes
  <2>2. ASSUME NEW v \in Slot, Stays(v), Writes(v, r), Position(v) < Position(s) PROVE FALSE
    <3>1. Position(v) <= Position(head) /\ Position(head) = 0
      BY <1>4, <2>1, <2>2, Window DEF Producer
    <3>2. Position(v) \in Slot
      BY PositionIs DEF BaseInv
    <3>3. Position(v) = Position(head)
      BY <3>1, <3>2, OutOfOrderAssumption DEF Slot
    <3>4. v = head
      BY <3>3, RobTypes, PositionsDiffer DEF BaseInv
    <3> QED BY <2>1, <2>2, <3>4 DEF Stays
  <2> QED BY <1>1, <2>1, <2>2 DEF NoProducer
<1> QED BY <1>2, <1>3, <1>4

\* What is known of an operand stays known: a producer that commits leaves its
\* result in the register file.
LEMMA KnownStays ==
    ASSUME Healthy, RoomAtDispatch, Tick, NEW s \in Slot, Stays(s), NEW r \in Reg,
           NEW v, Known(s, r, v)
    PROVE  Known(s, r, v)'
<1>1. CASE r # ZERO_REG /\ \E w \in Slot : Producer(s, r, w) /\ entries[w].ready /\ v = entries[w].value
  <2>1. PICK w \in Slot : Producer(s, r, w) /\ entries[w].ready /\ v = entries[w].value
    BY <1>1
  <2>2. CASE Stays(w)
    <3>1. ~Finishes(w)
      BY <2>1, Executing DEF Healthy, Unexecuted
    <3>2. entries'[w].ready /\ entries'[w].value = v
      BY <2>1, <2>2, <3>1, RobEdge DEF Healthy
    <3>3. Producer(s, r, w)'
      BY <2>1, <2>2, ProducerNext DEF Healthy
    <3> QED BY <1>1, <3>2, <3>3 DEF Known
  <2>3. CASE ~Stays(w)
    <3>1. Retires /\ w = head /\ NoProducer(s, r)'
      BY <2>1, <2>3, ProducerNext DEF Healthy
    <3>2. CommitsReg /\ Retiring.op.rd = r /\ Retiring.value = v
      BY <2>1, <3>1 DEF Producer, Writes, CommitsReg, Retires, Retiring
    <3>3. RegRead(regs', r) = v
      BY <1>1, <3>2, RegsNext DEF Healthy, Read
    <3> QED BY <3>1, <3>3 DEF Known
  <2> QED BY <2>2, <2>3
<1>2. CASE (r = ZERO_REG \/ NoProducer(s, r)) /\ v = RegRead(regs, r)
  <2>1. r = ZERO_REG \/ NoProducer(s, r)'
    BY <1>2, ProducerNext DEF Healthy
  <2>2. ~(CommitsReg /\ r = Retiring.op.rd /\ r # ZERO_REG)
    <3> SUFFICES ASSUME CommitsReg, r = Retiring.op.rd, NoProducer(s, r) PROVE FALSE
      BY <1>2
    <3>1. Retires /\ Writes(head, r) /\ head \in Slot /\ Position(head) = 0
      BY Window, RobTypes DEF Healthy, BaseInv, Writes, CommitsReg, Retires, Retiring
    <3>2. s # head
      BY <3>1 DEF Stays
    <3>3. Position(s) # Position(head) /\ Position(s) \in Slot
      BY <3>1, <3>2, PositionsDiffer, PositionIs DEF Healthy, BaseInv
    <3>4. Position(head) < Position(s)
      BY <3>1, <3>3, OutOfOrderAssumption DEF Slot
    <3> QED BY <3>1, <3>4 DEF NoProducer
  <2>3. RegRead(regs', r) = v
    BY <1>2, <2>2, RegsNext DEF Healthy
  <2> QED BY <2>1, <2>3 DEF Known
<1> QED BY <1>1, <1>2 DEF Known

-----------------------------------------------------------------------------
(* Operands across an edge.                                                 *)

\* The operation that executes is the one its entry describes.
ExecMatches == Sel # 0 => Exec.op.is_load = entries[Exec.rob_tag].op.is_load

LEMMA ExecDescribed ==
    ASSUME DataInv
    PROVE  ExecMatches
<1> SUFFICES ASSUME Sel # 0 PROVE Exec.op.is_load = entries[Exec.rob_tag].op.is_load
  BY DEF ExecMatches
<1>1. Sel \in DOMAIN waiting /\ Exec = waiting[Sel] /\ Exec.rob_tag \in Unexecuted
  BY SelectedRuns, Executing DEF DataInv, Healthy, BaseInv, Exec
<1> HIDE DEF Exec
<1>2. Exec.op.is_load = ControlOf(Exec.rob_tag).mem_read
  <2>1. LET c == ControlOf(Exec.rob_tag)
        IN Exec.op = [alu_op |-> c.alu_op, imm |-> c.imm, alu_src |-> c.alu_src,
                      is_load |-> c.mem_read]
    BY <1>1, Zenon DEF DataInv, StationRight
  <2> QED BY <2>1
<1>3. entries[Exec.rob_tag].op.is_load = ControlOf(Exec.rob_tag).mem_read
  <2>1. LET c == ControlOf(Exec.rob_tag)
            o == entries[Exec.rob_tag].op
        IN o = [rd |-> c.rd, pc |-> o.pc, is_branch |-> c.branch,
                is_load |-> c.mem_read, is_store |-> c.mem_write,
                store_data_reg |-> c.rs2, reg_write |-> c.reg_write]
    BY <1>1, Zenon DEF DataInv, Described, Unexecuted
  <2> QED BY <2>1
<1> QED BY <1>2, <1>3

\* An operand that waits for an unexecuted producer takes its result when it is
\* broadcast, and waits on otherwise.
LEMMA CaptureRight ==
    ASSUME Healthy, ExecMatches, Tick, NEW s \in Slot, NEW r \in Reg, r # ZERO_REG,
           NEW src \in RS!Operand, ~src.ready, src.tag \in Unexecuted, Producer(s, r, src.tag)',
           NEW x, x = RS!Capture(src, Cdb)
    PROVE  OperandRight(s, r, x)'
<1> DEFINE t == src.tag
<1>1. t \in Slot /\ Stays(t) /\ ~entries[t].ready
  BY UnexecutedStay DEF Healthy
<1>2. /\ entries'[t].ready = (Finishes(t) \/ entries[t].ready)
      /\ entries'[t].value = IF Finishes(t) THEN (IF entries[t].op.is_load THEN Complete.mem_value
                                                  ELSE Complete.value)
                             ELSE entries[t].value
  BY <1>1, RobEdge DEF Healthy
<1>3. Finishes(t) <=> Sel # 0 /\ t = Exec.rob_tag
  BY Executing DEF Healthy
<1>4. /\ Sel # 0 <=> Cdb # NoInput
      /\ Sel # 0 => Cdb = [tag   |-> Exec.rob_tag,
                           value |-> IF Exec.op.is_load THEN Loaded ELSE Result]
      /\ Sel # 0 => Complete.mem_value = Loaded /\ Complete.value = Result
  BY Driven DEF Healthy, BaseInv, Cdb, Complete
<1>5. CASE Finishes(t)
  <2>1. x.ready /\ x.val = Cdb.value
    BY <1>3, <1>4, <1>5 DEF RS!Capture, RS!Operand
  <2>2. /\ Cdb.value = IF Exec.op.is_load THEN Loaded ELSE Result
        /\ Exec.op.is_load = entries[t].op.is_load
    BY <1>3, <1>4, <1>5 DEF ExecMatches
  <2>3. entries'[t].ready /\ entries'[t].value = x.val
    BY <1>2, <1>3, <1>4, <1>5, <2>1, <2>2
  <2> QED BY <1>1, <2>1, <2>3 DEF OperandRight, Known
<1>6. CASE ~Finishes(t)
  <2>1. x = src
    BY <1>3, <1>4, <1>6 DEF RS!Capture
  <2>2. ~entries'[t].ready
    BY <1>1, <1>2, <1>6
  <2> QED BY <1>1, <2>1, <2>2 DEF OperandRight, Awaits
<1> QED BY <1>5, <1>6

LEMMA OperandNext ==
    ASSUME Healthy, ExecMatches, RoomAtDispatch, Tick, NEW s \in Slot, Stays(s), NEW r \in Reg,
           NEW src \in RS!Operand, OperandRight(s, r, src), NEW x, x = RS!Capture(src, Cdb)
    PROVE  OperandRight(s, r, x)'
<1>1. CASE src.ready
  <2>1. x = src
    BY <1>1 DEF RS!Capture
  <2>2. Known(s, r, src.val)'
    BY <1>1, KnownStays DEF OperandRight
  <2> QED BY <1>1, <2>1, <2>2 DEF OperandRight
<1>2. CASE ~src.ready
  <2>1. r # ZERO_REG /\ src.tag \in Slot /\ Producer(s, r, src.tag) /\ ~entries[src.tag].ready
    BY <1>2 DEF OperandRight, Awaits
  <2>2. src.tag \in Unexecuted
    BY <2>1 DEF Producer, Writes, Unexecuted, InFlight
  <2>3. Producer(s, r, src.tag)'
    BY <2>1, <2>2, UnexecutedStay, ProducerNext DEF Healthy
  <2> QED BY <1>2, <2>1, <2>2, <2>3, CaptureRight
<1> QED BY <1>1, <1>2

\* The operands of the instruction that is dispatched.
LEMMA SourceRight ==
    ASSUME Healthy, ExecMatches, RoomAtDispatch, Tick, Dispatch, NEW r \in Reg,
           NEW src, src = Source(r), ~src.ready => src.tag \in Unexecuted,
           NEW s \in Slot, s = tail, NEW x, x = RS!Capture(src, Cdb)
    PROVE  OperandRight(s, r, x)'
<1>1. PICK t : t = RAT!Lookup(r, Commit)
  OBVIOUS
<1> DEFINE found == [ready |-> t = NoTag, tag |-> IF t = NoTag THEN 0 ELSE t, val |-> Read(r)]
<1>8. src = found
  BY <1>1 DEF Source
<1>9. src.ready = (t = NoTag) /\ src.val = Read(r) /\ (t # NoTag => src.tag = t)
  BY <1>8
<1> HIDE DEF found
<1>2. Accepted
  BY Driven DEF Healthy, BaseInv
<1>3. Position(s)' = ROB!CountAfterCommit
  <2> HIDE DEF Position
  <2> QED BY <1>2, RobEdge DEF Healthy
<1>4. \A v \in Slot : Writes(v, r)' /\ Position(v)' < Position(s)' => Stays(v) /\ Writes(v, r)
  <2>1. \A v \in Slot : Writes(v, r)' => (Stays(v) /\ Writes(v, r)) \/ v = s
    BY WritersNext DEF Healthy
  <2>2. \A v \in Slot : v = s => ~(Position(v)' < Position(s)')
    BY <1>3, RobTypes DEF Healthy, BaseInv, ROB!CountAfterCommit
  <2> QED BY <2>1, <2>2
<1>5. RegRead(regs', r) = Read(r)
  BY RegsNext DEF Healthy
<1>6. CASE t = NoTag
  <2>1. src.ready /\ src.val = Read(r)
    BY <1>6, <1>9
  <2>2. x = src
    BY <2>1 DEF RS!Capture
  <2>3. r = ZERO_REG \/ NoProducer(s, r)'
    <3> SUFFICES ASSUME r # ZERO_REG PROVE NoProducer(s, r)'
      OBVIOUS
    <3>1. \A v \in Slot : ~(Stays(v) /\ Writes(v, r))
      BY <1>1, <1>6, LookupIs DEF Healthy
    <3> QED BY <1>4, <3>1 DEF NoProducer
  <2> QED BY <1>5, <2>1, <2>2, <2>3 DEF OperandRight, Known
<1>7. CASE t # NoTag
  <2>1. ~src.ready /\ src.tag = t /\ t \in Unexecuted
    BY <1>7, <1>9
  <2>2. r # ZERO_REG
    BY <1>1, <1>7 DEF RAT!Lookup
  <2>3. /\ t \in Slot /\ Stays(t) /\ Writes(t, r)
        /\ \A v \in Slot : Stays(v) /\ Writes(v, r) => Position(v) <= Position(t)
    BY <1>1, <1>7, <2>1, <2>2, LookupIs, UnexecutedStay DEF Healthy
  <2>4. \A v \in Slot : Stays(v) => /\ Position(v)' = Position(v) - (IF Retires THEN 1 ELSE 0)
                                    /\ Position(v)' < ROB!CountAfterCommit
                                    /\ Position(v) \in Int
    <3>1. \A v \in Slot : Position(v) \in Int
      BY PositionIs, OutOfOrderAssumption DEF Healthy, BaseInv, Slot
    <3> HIDE DEF Position
    <3> QED BY <3>1, RobEdge DEF Healthy
  <2>5. Writes(t, r)'
    BY <2>3, WritersNext DEF Healthy
  <2>6. Producer(s, r, t)'
    <3> HIDE DEF Position
    <3> QED BY <1>3, <1>4, <2>3, <2>4, <2>5 DEF Producer
  <2>7. src \in RS!Operand
    <3>1. Read(r) \in Word
      BY ReadType DEF Healthy, BaseInv
    <3> QED BY <1>7, <1>8, <2>3, <3>1 DEF found, RS!Operand, RS!Tag, Slot
  <2>8. Producer(s, r, src.tag)'
    BY <2>1, <2>6
  <2> QED BY <2>1, <2>2, <2>7, <2>8, CaptureRight
<1> QED BY <1>6, <1>7

-----------------------------------------------------------------------------
(* What is known of every instruction in flight, across an edge.            *)

\* The instruction that is dispatched, seen from the slot it enters.
LEMMA Dispatched ==
    ASSUME BaseInv, RoomAtDispatch, Tick, NEW s \in Slot, entries'[s].valid, ~Stays(s)
    PROVE  /\ Dispatch /\ Accepted /\ s = tail
           /\ entries'[s].op = DispatchOp
           /\ entries'[s].op.pc = pc
           /\ ControlOf(s)' = Current
           /\ ~entries'[s].ready
<1>1. Accepted /\ s = tail /\ Dispatch
  BY RobEdge, Driven DEF BaseInv
<1>2. entries'[s].op = DispatchOp /\ ~entries'[s].ready
  BY <1>1, RobEdge
<1>3. DispatchOp.pc = pc
  BY <1>1 DEF DispatchOp
<1>4. ControlOf(s)' = Current
  BY <1>2, <1>3 DEF ControlOf, Current, Tick
<1> QED BY <1>1, <1>2, <1>3, <1>4

LEMMA DescribedStep ==
    ASSUME BaseInv, Described, RoomAtDispatch, Tick
    PROVE  Described'
<1> DEFINE Describes(o, c) ==
             /\ o = [rd |-> c.rd, pc |-> o.pc, is_branch |-> c.branch,
                     is_load |-> c.mem_read, is_store |-> c.mem_write,
                     store_data_reg |-> c.rs2, reg_write |-> c.reg_write]
             /\ c.reg_write \/ c.mem_write
<1>1. \A s \in InFlight : Describes(entries[s].op, ControlOf(s))
  BY Zenon DEF Described
<1>2. ASSUME NEW s \in Slot, entries'[s].valid
      PROVE  Describes(entries'[s].op, ControlOf(s)')
  <2>1. CASE Stays(s)
    <3>1. s \in InFlight /\ entries'[s].op = entries[s].op /\ ControlOf(s)' = ControlOf(s)
      BY <2>1, ControlStays DEF InFlight, Stays
    <3> HIDE DEF Describes
    <3> QED BY <1>1, <3>1
  <2>2. CASE ~Stays(s)
    <3>1. Dispatch /\ entries'[s].op = DispatchOp /\ entries'[s].op.pc = pc /\ ControlOf(s)' = Current
      BY <1>2, <2>2, Dispatched
    <3>2. DispatchOp = [rd |-> Current.rd, pc |-> pc, is_branch |-> Current.branch,
                        is_load |-> Current.mem_read, is_store |-> Current.mem_write,
                        store_data_reg |-> Current.rs2, reg_write |-> Current.reg_write]
      BY <3>1 DEF DispatchOp
    <3> QED BY <3>1, <3>2 DEF Dispatch
  <2> QED BY <2>1, <2>2
<1> QED BY <1>2, Zenon DEF Described, InFlight

\* An instruction that waits is in flight.
LEMMA WaitingStays ==
    ASSUME Healthy, NEW i \in DOMAIN waiting
    PROVE  /\ waiting[i].rob_tag \in Slot /\ waiting[i].rob_tag \in Unexecuted
           /\ Stays(waiting[i].rob_tag)
BY UnexecutedStay DEF Healthy, StationHoldsUnexecuted

\* What an instruction that waits in the station is to be, in the slot s, with the
\* control c and the address a.
Prepared(s, c, a, op, src1, src2) ==
    /\ op = [alu_op |-> c.alu_op, imm |-> c.imm, alu_src |-> c.alu_src, is_load |-> c.mem_read]
    /\ IF c.use_pc THEN src1.ready /\ src1.val = a ELSE OperandRight(s, c.rs1, src1)
    /\ OperandRight(s, c.rs2, src2)

LEMMA PreparedIs ==
    StationRight <=> \A i \in DOMAIN waiting :
        LET e == waiting[i]
        IN Prepared(e.rob_tag, ControlOf(e.rob_tag), entries[e.rob_tag].op.pc, e.op, e.src1, e.src2)
BY Zenon DEF StationRight, Prepared

LEMMA StationRightStep ==
    ASSUME DataInv, RoomAtDispatch, RenamesToUnexecuted, Tick
    PROVE  StationRight'
<1>1. Healthy /\ BaseInv /\ TypeInv /\ ExecMatches
  BY ExecDescribed DEF DataInv, Healthy, BaseInv
<1>2. ASSUME NEW i \in DOMAIN waiting',
             NEW s, s = waiting'[i].rob_tag, NEW op, op = waiting'[i].op,
             NEW x, x = waiting'[i].src1, NEW y, y = waiting'[i].src2
      PROVE  Prepared(s, ControlOf(s), entries[s].op.pc, op, x, y)'
  <2>1. CASE i \in 1..Left
    <3>1. PICK e : e = waiting[From(i)]
      OBVIOUS
    <3>2. /\ From(i) \in DOMAIN waiting
          /\ s = e.rob_tag /\ op = e.op
          /\ x = RS!Capture(e.src1, Cdb) /\ y = RS!Capture(e.src2, Cdb)
      BY <1>1, <1>2, <2>1, <3>1, StationNext
    <3>3. s \in Slot /\ Stays(s) /\ e.src1 \in RS!Operand /\ e.src2 \in RS!Operand
      BY <1>1, <3>1, <3>2, WaitingStays, StationTypes
    <3>4. Prepared(s, ControlOf(s), entries[s].op.pc, op, e.src1, e.src2)
      BY <3>1, <3>2, PreparedIs DEF DataInv
    <3>5. PICK c \in Control : c = ControlOf(s)
      BY <1>1, <3>3, ControlOfType
    <3>6. ControlOf(s)' = c /\ entries'[s].op.pc = entries[s].op.pc /\ c.rs1 \in Reg /\ c.rs2 \in Reg
      BY <1>1, <3>3, <3>5, ControlStays DEF Control
    <3>7. OperandRight(s, c.rs2, y)'
      <4>1. OperandRight(s, c.rs2, e.src2)
        BY <3>4, <3>5 DEF Prepared
      <4> QED BY <1>1, <3>2, <3>3, <3>6, <4>1, OperandNext
    <3>8. CASE c.use_pc
      <4>1. e.src1.ready /\ e.src1.val = entries[s].op.pc
        BY <3>4, <3>5, <3>8 DEF Prepared
      <4>2. x = e.src1
        BY <3>2, <4>1 DEF RS!Capture
      <4> QED BY <3>4, <3>5, <3>6, <3>7, <3>8, <4>1, <4>2 DEF Prepared
    <3>9. CASE ~c.use_pc
      <4>1. OperandRight(s, c.rs1, e.src1)
        BY <3>4, <3>5, <3>9 DEF Prepared
      <4>2. OperandRight(s, c.rs1, x)'
        BY <1>1, <3>2, <3>3, <3>6, <4>1, OperandNext
      <4> QED BY <3>4, <3>5, <3>6, <3>7, <3>9, <4>2 DEF Prepared
    <3> QED BY <3>8, <3>9
  <2>2. CASE Dispatch /\ i = Left + 1
    <3>1. /\ s = tail /\ op = Issue.op
          /\ x = RS!Capture(FirstSource, Cdb) /\ y = RS!Capture(Source(Current.rs2), Cdb)
      BY <1>1, <1>2, <2>2, StationNext
    <3>2. s \in Slot /\ entries'[s].valid /\ ~Stays(s)
      <4>1. s \in Slot /\ Accepted
        BY <1>1, <2>2, <3>1, RobTypes, Driven
      <4> QED BY <1>1, <3>1, <4>1, RobEdge
    <3>3. PICK c \in Control : c = Current
      BY <1>1, CurrentType
    <3>4. ControlOf(s)' = c /\ entries'[s].op.pc = pc /\ c.rs1 \in Reg /\ c.rs2 \in Reg
      BY <1>1, <3>2, <3>3, Dispatched DEF Control
    <3>5. op = [alu_op |-> c.alu_op, imm |-> c.imm, alu_src |-> c.alu_src, is_load |-> c.mem_read]
      BY <2>2, <3>1, <3>3 DEF Issue
    <3>6. OperandRight(s, c.rs2, y)'
      <4>1. PICK src : src = Source(c.rs2)
        OBVIOUS
      <4>2. ~src.ready => src.tag \in Unexecuted
        BY <2>2, <3>3, <4>1 DEF RenamesToUnexecuted
      <4>3. y = RS!Capture(src, Cdb)
        BY <3>1, <3>3, <4>1
      <4> QED BY <1>1, <2>2, <3>1, <3>2, <3>4, <4>1, <4>2, <4>3, SourceRight
    <3>7. CASE c.use_pc
      <4>1. x.ready /\ x.val = pc
        BY <3>1, <3>3, <3>7 DEF FirstSource, RS!Capture
      <4> QED BY <3>4, <3>5, <3>6, <3>7, <4>1 DEF Prepared
    <3>8. CASE ~c.use_pc
      <4>1. PICK src : src = Source(c.rs1)
        OBVIOUS
      <4>2. ~src.ready => src.tag \in Unexecuted
        BY <2>2, <3>3, <3>8, <4>1 DEF RenamesToUnexecuted, FirstSource
      <4>3. x = RS!Capture(src, Cdb)
        BY <3>1, <3>3, <3>8, <4>1 DEF FirstSource
      <4>4. OperandRight(s, c.rs1, x)'
        BY <1>1, <2>2, <3>1, <3>2, <3>4, <4>1, <4>2, <4>3, SourceRight
      <4> QED BY <3>4, <3>5, <3>6, <3>8, <4>4 DEF Prepared
    <3> QED BY <3>7, <3>8
  <2>3. DOMAIN waiting' = 1..(Left + (IF Dispatch THEN 1 ELSE 0)) /\ Left \in Nat
    BY <1>1, StationNext
  <2> QED BY <1>2, <2>1, <2>2, <2>3
<1>3. \A i \in DOMAIN waiting' : \A s, op, x, y :
         s = waiting'[i].rob_tag /\ op = waiting'[i].op /\ x = waiting'[i].src1 /\ y = waiting'[i].src2
         => Prepared(s, ControlOf(s), entries[s].op.pc, op, x, y)'
  BY <1>2
<1> QED BY <1>3 DEF StationRight, Prepared, ControlOf, OperandRight, Known, Awaits, Producer,
                NoProducer, Writes, Position, ROB!Position, ROB!Wrap

\* Nothing ahead of the head: what its instruction reads is committed.
LEMMA HeadReads ==
    ASSUME BaseInv, NEW r \in Reg, NEW v, Known(head, r, v)
    PROVE  v = RegRead(regs, r)
<1>1. Position(head) = 0
  BY Window
<1>2. \A w \in Slot : ~(Position(w) < Position(head))
  BY <1>1, PositionIs DEF BaseInv, Slot
<1> QED BY <1>2 DEF Known, Producer

\* A store that commits is behind no load that read the memory before it.
LEMMA LoadsPrecede ==
    ASSUME BaseInv, NEW s \in Slot,
           \A v \in InFlight : entries[v].op.is_store => Position(s) < Position(v), Tick
    PROVE  mem' = mem
<1>1. ~CommitsMem
  <2> SUFFICES ASSUME CommitsMem PROVE FALSE
    OBVIOUS
  <2>1. head \in InFlight /\ entries[head].op.is_store /\ Position(head) = 0
    BY Window, RobTypes DEF BaseInv, CommitsMem, Retires, Retiring, InFlight
  <2>2. ~(Position(s) < 0)
    BY PositionIs DEF BaseInv, Slot
  <2> QED BY <2>1, <2>2
<1> QED BY <1>1 DEF MemWrite, Tick

\* The stores behind an instruction stay behind it.
LEMMA StoresBehind ==
    ASSUME BaseInv, Tick, NEW s \in Slot, Stays(s),
           \A v \in InFlight : entries[v].op.is_store => Position(s) < Position(v)
    PROVE  \A v \in Slot : entries'[v].valid /\ entries'[v].op.is_store => Position(s)' < Position(v)'
<1> SUFFICES ASSUME NEW v \in Slot, entries'[v].valid, entries'[v].op.is_store
             PROVE  Position(s)' < Position(v)'
  OBVIOUS
<1>1. Position(s) \in Int /\ Position(v) \in Int
  BY PositionIs, OutOfOrderAssumption DEF BaseInv, Slot
<1>2. CASE Stays(v)
  <2>1. v \in InFlight /\ entries[v].op.is_store
    BY <1>2, RobEdge DEF Stays, InFlight
  <2>2. Position(s) < Position(v)
    BY <2>1
  <2>3. /\ Position(s)' = Position(s) - (IF Retires THEN 1 ELSE 0)
        /\ Position(v)' = Position(v) - (IF Retires THEN 1 ELSE 0)
    BY <1>2, RobEdge
  <2> HIDE DEF Position
  <2> QED BY <1>1, <2>2, <2>3
<1>3. CASE ~Stays(v)
  <2>1. Accepted /\ v = tail
    BY <1>3, RobEdge
  <2>2. Position(v)' = ROB!CountAfterCommit /\ Position(s)' < ROB!CountAfterCommit
    BY <2>1, RobEdge
  <2> QED BY <2>2
<1> QED BY <1>2, <1>3

\* What executes computes its instruction's result.
LEMMA ExecResult ==
    ASSUME DataInv, Sel # 0, NEW s, s = Exec.rob_tag
    PROVE  /\ s \in Unexecuted
           /\ \E a, b \in Word :
                 /\ ControlOf(s).use_pc \/ Known(s, ControlOf(s).rs1, a)
                 /\ Known(s, ControlOf(s).rs2, b)
                 /\ Result = ResultOf(ControlOf(s), entries[s].op.pc, a, b)
<1>1. /\ Healthy /\ BaseInv /\ TypeInv
      /\ Sel \in DOMAIN waiting /\ Exec = waiting[Sel] /\ Exec.src1.ready /\ Exec.src2.ready
  BY SelectedRuns DEF DataInv, Healthy, BaseInv, Exec
<1> HIDE DEF Exec
<1>2. s \in Unexecuted /\ s \in Slot
  BY <1>1, WaitingStays
<1>3. PICK c \in Control : c = ControlOf(s)
  BY <1>1, <1>2, ControlOfType
<1>4. Prepared(s, c, entries[s].op.pc, Exec.op, Exec.src1, Exec.src2)
  BY <1>1, <1>3, PreparedIs DEF DataInv
<1>5. Exec.src1.val \in Word /\ Exec.src2.val \in Word
  BY <1>1, StationTypes DEF RS!Operand
<1>6. c.use_pc \/ Known(s, c.rs1, Exec.src1.val)
  BY <1>1, <1>4 DEF Prepared, OperandRight
<1>7. Known(s, c.rs2, Exec.src2.val)
  BY <1>1, <1>4 DEF Prepared, OperandRight
<1>8. /\ Exec.op = [alu_op |-> c.alu_op, imm |-> c.imm, alu_src |-> c.alu_src, is_load |-> c.mem_read]
      /\ c.use_pc => Exec.src1.val = entries[s].op.pc
  BY <1>4 DEF Prepared
<1>9. Result = ResultOf(c, entries[s].op.pc, Exec.src1.val, Exec.src2.val)
  BY <1>8 DEF Result, ResultOf
<1> QED BY <1>2, <1>3, <1>5, <1>6, <1>7, <1>9

\* A load that executes has the stores in flight behind it.
LEMMA ExecOrder ==
    ASSUME DataInv, Sel # 0, NEW s, s = Exec.rob_tag, ControlOf(s).mem_read
    PROVE  \A v \in InFlight : entries[v].op.is_store => Position(s) < Position(v)
<1>1. Healthy /\ BaseInv /\ TypeInv /\ s \in Unexecuted /\ s \in Slot
  BY Executing, UnexecutedStay DEF DataInv, Healthy, BaseInv
<1>2. entries[s].op.is_load /\ Exec.op.is_load /\ ~entries[s].op.is_store
  <2>1. PICK c : c = ControlOf(s)
    OBVIOUS
  <2>2. PICK i \in Instruction : c = Decode(i)
    BY <1>1, <2>1, OutOfOrderAssumption, FetchedType DEF TypeInv, ControlOf
  <2>3. c.mem_read /\ ~c.mem_write
    BY <2>1, <2>2, DecodeClasses
  <2>4. entries[s].op
          = [rd |-> c.rd, pc |-> entries[s].op.pc, is_branch |-> c.branch,
             is_load |-> c.mem_read, is_store |-> c.mem_write,
             store_data_reg |-> c.rs2, reg_write |-> c.reg_write]
    BY <1>1, <2>1, Zenon DEF DataInv, Described, Unexecuted
  <2>5. entries[s].op.is_load = c.mem_read /\ entries[s].op.is_store = c.mem_write
    BY <2>4
  <2>6. entries[s].op.is_load /\ ~entries[s].op.is_store
    BY <2>3, <2>5
  <2>7. Exec.op.is_load = entries[s].op.is_load
    BY ExecDescribed DEF ExecMatches
  <2> QED BY <2>6, <2>7
<1>3. ASSUME NEW v \in InFlight, entries[v].op.is_store PROVE Position(s) < Position(v)
  <2>1. v \in Slot /\ v \in ROB!store_pending_mask
    BY <1>3 DEF InFlight, ROB!store_pending_mask, ROB!Slot, Slot
  <2>2. ~((v - head) % ROB_SIZE < (Exec.rob_tag - head) % ROB_SIZE)
    BY <1>1, <1>2, <2>1, SelectedRuns
  <2>3. ~(Position(v) < Position(s))
    BY <2>2 DEF Position, ROB!Position, ROB!Wrap
  <2>4. Position(v) # Position(s)
    BY <1>1, <1>2, <1>3, <2>1, PositionsDiffer
  <2>5. Position(v) \in Int /\ Position(s) \in Int
    BY <1>1, <2>1, PositionIs, OutOfOrderAssumption DEF Slot
  <2> HIDE DEF Position
  <2> QED BY <2>3, <2>4, <2>5
<1> QED BY <1>3

LEMMA DescribedFields ==
    ASSUME Described, NEW s \in InFlight, NEW c, c = ControlOf(s)
    PROVE  LET o == entries[s].op
           IN /\ o.rd = c.rd /\ o.is_load = c.mem_read /\ o.is_store = c.mem_write
              /\ o.store_data_reg = c.rs2 /\ o.reg_write = c.reg_write
              /\ c.reg_write \/ c.mem_write
<1>1. /\ entries[s].op
            = [rd |-> c.rd, pc |-> entries[s].op.pc, is_branch |-> c.branch,
               is_load |-> c.mem_read, is_store |-> c.mem_write,
               store_data_reg |-> c.rs2, reg_write |-> c.reg_write]
      /\ c.reg_write \/ c.mem_write
  BY Zenon DEF Described
<1> QED BY <1>1

LEMMA ResultsStep ==
    ASSUME DataInv, RoomAtDispatch, Tick
    PROVE  ResultsRight'
<1>1. Healthy /\ BaseInv /\ TypeInv /\ ExecMatches /\ StationHoldsUnexecuted
  BY ExecDescribed DEF DataInv, Healthy, BaseInv
<1> DEFINE Computed(c, p, a, b, m) == LET x == ResultOf(c, p, a, b)
                                      IN IF c.mem_read THEN m[MemIndex(x)] ELSE x
<1>2. ASSUME NEW s \in Slot, entries'[s].valid, entries'[s].ready
      PROVE  ResultRight(s)'
  <2>1. Stays(s) /\ s \in InFlight
    BY <1>1, <1>2, Dispatched DEF Stays, InFlight
  <2>2. PICK c \in Control : c = ControlOf(s)
    BY <1>1, ControlOfType
  <2>3. PICK p : p = entries[s].op.pc
    OBVIOUS
  <2>4. ControlOf(s)' = c /\ entries'[s].op.pc = p /\ c.rs1 \in Reg /\ c.rs2 \in Reg
    BY <1>1, <2>1, <2>2, <2>3, ControlStays DEF Control
  <2>5. PICK a \in Word, b \in Word :
           /\ c.use_pc \/ Known(s, c.rs1, a)
           /\ Known(s, c.rs2, b)
           /\ entries'[s].value = Computed(c, p, a, b, mem)
    <3>1. CASE entries[s].ready
      <4>1. ~Finishes(s)
        BY <1>1, <3>1, Executing DEF Unexecuted
      <4>2. entries'[s].value = entries[s].value
        BY <1>1, <2>1, <4>1, RobEdge
      <4>3. ResultRight(s)
        BY <2>1, <3>1 DEF DataInv, ResultsRight
      <4> QED BY <2>2, <2>3, <4>2, <4>3, Zenon DEF ResultRight, Computed
    <3>2. CASE ~entries[s].ready
      <4>1. Finishes(s) /\ entries'[s].value = IF entries[s].op.is_load THEN Complete.mem_value
                                               ELSE Complete.value
        BY <1>1, <1>2, <2>1, <3>2, RobEdge
      <4>2. Sel # 0 /\ s = Exec.rob_tag
        BY <1>1, <4>1, Executing
      <4>3. PICK a \in Word, b \in Word :
               /\ c.use_pc \/ Known(s, c.rs1, a)
               /\ Known(s, c.rs2, b)
               /\ Result = ResultOf(c, p, a, b)
        BY <2>2, <2>3, <4>2, ExecResult
      <4>4. Complete.value = Result /\ Complete.mem_value = mem[MemIndex(Result)]
        BY <4>2 DEF Complete, Loaded
      <4>5. entries[s].op.is_load = c.mem_read
        BY <2>1, <2>2, DescribedFields DEF DataInv
      <4>6. entries'[s].value = Computed(c, p, a, b, mem)
        BY <4>1, <4>3, <4>4, <4>5
      <4> HIDE DEF Computed
      <4> QED BY <4>3, <4>6
    <3> QED BY <3>1, <3>2
  <2>6. c.mem_read => \A v \in InFlight : entries[v].op.is_store => Position(s) < Position(v)
    <3>1. CASE entries[s].ready
      BY <2>1, <2>2, <3>1, Zenon DEF DataInv, ResultsRight, ResultRight
    <3>2. CASE ~entries[s].ready
      <4>1. Finishes(s)
        BY <1>1, <1>2, <2>1, <3>2, RobEdge
      <4> QED BY <1>1, <2>2, <4>1, Executing, ExecOrder
    <3> QED BY <3>1, <3>2
  <2>7. entries'[s].value = Computed(c, p, a, b, mem')
    <3>1. c.mem_read => mem' = mem
      BY <1>1, <2>6, LoadsPrecede
    <3> QED BY <2>5, <3>1
  <2>8. c.use_pc \/ Known(s, c.rs1, a)'
    BY <1>1, <2>1, <2>4, <2>5, KnownStays
  <2>9. Known(s, c.rs2, b)'
    BY <1>1, <2>1, <2>4, <2>5, KnownStays
  <2>10. c.mem_read => \A v \in Slot : entries'[v].valid /\ entries'[v].op.is_store
                                       => Position(s)' < Position(v)'
    BY <1>1, <2>1, <2>6, StoresBehind
  <2>11. c.mem_read => (\A v \in InFlight : entries[v].op.is_store => Position(s) < Position(v))'
    BY <2>10 DEF InFlight, Position, ROB!Position, ROB!Wrap
  <2> QED BY <2>4, <2>7, <2>8, <2>9, <2>11, Zenon DEF ResultRight, Computed
<1> QED BY <1>2 DEF ResultsRight, InFlight, ResultRight, ControlOf, Known, Producer,
                NoProducer, Writes, Position, ROB!Position, ROB!Wrap

LEMMA HealthyStep == Healthy /\ RoomAtDispatch /\ [Next]_vars => Healthy'
<1>1. ASSUME Healthy, RoomAtDispatch, Tick PROVE Healthy'
  BY <1>1, BaseStep, AliasStep, StationStep DEF Healthy, Next
<1>2. ASSUME Healthy, UNCHANGED vars PROVE Healthy'
  <2>1. BaseInv'
    BY <1>2, BaseStep DEF Healthy
  <2>2. UNCHANGED <<entries, head, tail, count, alias, waiting>>
    BY <1>2 DEF vars
  <2> QED BY <1>2, <2>1, <2>2 DEF Healthy, AliasIsYoungestWriter, StationHoldsUnexecuted, Unexecuted,
             InFlight, Writes, Position, ROB!Position, ROB!Wrap
<1> QED BY <1>1, <1>2 DEF Next

LEMMA DataStep == DataInv /\ RoomAtDispatch /\ RenamesToUnexecuted /\ [Next]_vars => DataInv'
<1>1. ASSUME DataInv, RoomAtDispatch, RenamesToUnexecuted, Tick PROVE DataInv'
  BY <1>1, HealthyStep, DescribedStep, StationRightStep, ResultsStep DEF DataInv, Healthy, Next
<1>2. ASSUME DataInv, RoomAtDispatch, UNCHANGED vars PROVE DataInv'
  <2>1. Healthy'
    BY <1>2, HealthyStep DEF DataInv
  <2>2. UNCHANGED <<program, entries, head, waiting, regs, mem>>
    BY <1>2 DEF vars
  <2>3. Described'
    BY <1>2, <2>2 DEF DataInv, Described, InFlight, ControlOf
  <2>4. StationRight'
    <3>1. \A s, r, src : OperandRight(s, r, src)' <=> OperandRight(s, r, src)
      BY <2>2 DEF OperandRight, Known, Awaits, Producer, NoProducer, Writes, Position,
         ROB!Position, ROB!Wrap
    <3>2. \A s : ControlOf(s)' = ControlOf(s)
      BY <2>2 DEF ControlOf
    <3>3. ASSUME NEW i \in DOMAIN waiting, NEW e, e = waiting[i]
          PROVE  Prepared(e.rob_tag, ControlOf(e.rob_tag), entries[e.rob_tag].op.pc, e.op, e.src1, e.src2)'
      <4>1. Prepared(e.rob_tag, ControlOf(e.rob_tag), entries[e.rob_tag].op.pc, e.op, e.src1, e.src2)
        BY <1>2, <3>3, PreparedIs DEF DataInv
      <4> QED BY <2>2, <3>1, <3>2, <4>1 DEF Prepared
    <3>4. \A i \in DOMAIN waiting' : \A e : e = waiting'[i] =>
             Prepared(e.rob_tag, ControlOf(e.rob_tag), entries[e.rob_tag].op.pc, e.op, e.src1, e.src2)'
      BY <2>2, <3>3
    <3> QED BY <3>4 DEF StationRight, Prepared, ControlOf, OperandRight, Known, Awaits, Producer,
                NoProducer, Writes, Position, ROB!Position, ROB!Wrap
  <2>5. ResultsRight'
    BY <1>2, <2>2 DEF DataInv, ResultsRight, ResultRight, InFlight, ControlOf, Known, Producer,
       NoProducer, Writes, Position, ROB!Position, ROB!Wrap
  <2> QED BY <2>1, <2>3, <2>4, <2>5 DEF DataInv
<1> QED BY <1>1, <1>2 DEF Next

LEMMA DataInitial == Init => DataInv
<1> SUFFICES ASSUME Init PROVE DataInv
  OBVIOUS
<1>1. BaseInv
  BY BaseInitial
<1>2. /\ \A s \in Slot : ~entries[s].valid
      /\ waiting = <<>> /\ DOMAIN waiting = {}
      /\ \A r \in Reg : alias[r] = NoTag
  <2>1. waiting = <<>>
    BY DEF Init, RS!Init
  <2>2. DOMAIN waiting = {}
    BY <2>1
  <2> QED BY <2>1, <2>2 DEF Init, ROB!Init, ROB!EmptyEntry, ROB!Slot, Slot, RAT!Init
<1>3. InFlight = {} /\ Unexecuted = {}
  BY <1>2 DEF InFlight, Unexecuted
<1>4. AliasIsYoungestWriter
  BY <1>2 DEF AliasIsYoungestWriter, Writes
<1>5. StationHoldsUnexecuted
  BY <1>2, <1>3 DEF StationHoldsUnexecuted
<1> QED BY <1>1, <1>2, <1>3, <1>4, <1>5 DEF DataInv, Healthy, Described, StationRight, ResultsRight

\* While an instruction is only dispatched when both structures have room, renaming
\* follows program order: a register's alias names its youngest writer in flight.
\* rat.py keeps it so through a commit and a rename of one register in one cycle.
THEOREM AliasCorrect == Spec /\ []RoomAtDispatch => []AliasIsYoungestWriter
<1>1. Init => Healthy
  BY DataInitial DEF DataInv
<1>2. Healthy => AliasIsYoungestWriter
  BY DEF Healthy
<1> QED BY <1>1, <1>2, HealthyStep, PTL DEF Spec

\* While both structures have room, the station and the reorder buffer, two lists
\* no code compares, agree on what is left to execute and in which order.
THEOREM StationCorrect == Spec /\ []RoomAtDispatch => []StationHoldsUnexecuted
<1>1. Init => Healthy
  BY DataInitial DEF DataInv
<1>2. Healthy => StationHoldsUnexecuted
  BY DEF Healthy
<1> QED BY <1>1, <1>2, HealthyStep, PTL DEF Spec

\* When besides no source is renamed to a result already broadcast, no operand ever
\* waits for a broadcast that is over: a producer never executes unseen.
THEOREM OperandsCorrect ==
    Spec /\ []RoomAtDispatch /\ []RenamesToUnexecuted => []OperandsHaveProducers
<1>1. DataInv => OperandsHaveProducers
  <2> SUFFICES ASSUME DataInv, NEW i \in DOMAIN waiting,
                      NEW src \in {waiting[i].src1, waiting[i].src2}, ~src.ready
               PROVE  src.tag \in Unexecuted /\ Position(src.tag) < Position(waiting[i].rob_tag)
    BY DEF OperandsHaveProducers
  <2>1. PICK r : Awaits(waiting[i].rob_tag, r, src.tag)
    <3>1. Prepared(waiting[i].rob_tag, ControlOf(waiting[i].rob_tag),
                   entries[waiting[i].rob_tag].op.pc, waiting[i].op, waiting[i].src1, waiting[i].src2)
      BY PreparedIs DEF DataInv
    <3> QED BY <3>1 DEF Prepared, OperandRight
  <2> QED BY <2>1 DEF Awaits, Producer, Writes, Unexecuted, InFlight
<1> QED BY <1>1, DataInitial, DataStep, PTL DEF Spec

-----------------------------------------------------------------------------
(* The path.                                                                *)

\* No instruction leaves a link: what commits is always the ALU's result or the
\* memory's, never the return address.
LinksNothing ==
    \A p \in Programs : \A w \in DOMAIN p :
        p[w].opcode # "JALR" /\ (p[w].opcode = "JAL" => p[w].rd = ZERO_REG)

\* The address after that of a dispatched instruction.
After(c, a) == Mask(a + (IF c.jal THEN c.imm ELSE 4))

LEMMA Unlinked ==
    ASSUME LinksNothing, TypeInv, NEW a, NEW c, c = Decode(Fetched(program, a))
    PROVE  /\ ~c.jalr
           /\ c.jal => c.rd = ZERO_REG
           /\ c.wb_sel = IF c.mem_read THEN "MEMORY" ELSE IF c.jal THEN "PC4" ELSE "ALU"
<1>1. PICK i : i = Fetched(program, a)
  OBVIOUS
<1>2. i \in Instruction /\ i.opcode # "JALR" /\ (i.opcode = "JAL" => i.rd = ZERO_REG)
  <2>1. i \in Instruction
    BY <1>1, OutOfOrderAssumption, FetchedType DEF TypeInv
  <2>2. CASE a \div 4 \in DOMAIN program
    BY <1>1, <2>1, <2>2 DEF Fetched, LinksNothing, TypeInv
  <2>3. CASE ~(a \div 4 \in DOMAIN program)
    BY <1>1, <2>1, <2>3 DEF Fetched, Nop, IAlu
  <2> QED BY <2>2, <2>3
<1> QED BY <1>1, <1>2 DEF Decode

\* Only a branch leaves the address after it open.
LEMMA NextIs ==
    ASSUME NEW c, ~c.branch, ~c.jalr, NEW b, NEW x, NEW y
    PROVE  NextPC(c, b, x, y) = After(c, b)
BY DEF NextPC, Redirects, After

LEMMA PathStep ==
    ASSUME BaseInv, PathRight, RoomAtDispatch, Tick
    PROVE  PathRight'
<1>1. ASSUME NEW s \in Slot, entries'[s].valid, ~(ControlOf(s)').jalr
      PROVE  /\ Position(s)' + 1 = count' => pc' = Follow(s)'
             /\ \A v \in Slot : entries'[v].valid /\ Position(v)' = Position(s)' + 1
                                => entries'[v].op.pc = Follow(s)'
  <2>1. /\ Accepted <=> Dispatch
        /\ Position(s) \in Int /\ ROB!CountAfterCommit \in Int /\ count \in Int /\ TypeInv
        /\ count' = ROB!CountAfterCommit + (IF Accepted THEN 1 ELSE 0)
        /\ ROB!CountAfterCommit = count - (IF Retires THEN 1 ELSE 0)
    BY Driven, RobEdge, PositionIs, RobTypes, OutOfOrderAssumption
       DEF BaseInv, Slot, ROB!CountAfterCommit
  <2>2. CASE Stays(s)
    <3>1. /\ Position(s)' = Position(s) - (IF Retires THEN 1 ELSE 0)
          /\ Position(s)' < ROB!CountAfterCommit /\ Position(s) < count
      BY <2>2, RobEdge
    <3>2. s \in InFlight /\ Follow(s)' = Follow(s) /\ ~ControlOf(s).jalr
      BY <1>1, <2>2, ControlStays DEF Follow, Stays, InFlight
    <3>3. Position(s) + 1 = count => pc = Follow(s)
      BY <3>2 DEF PathRight
    <3>4. Position(s)' + 1 = count' => pc' = Follow(s)'
      <4> SUFFICES ASSUME Position(s)' + 1 = count' PROVE pc' = Follow(s)'
        OBVIOUS
      <4>1. ~Dispatch /\ Position(s) + 1 = count
        <5> HIDE DEF Position
        <5> QED BY <2>1, <3>1
      <4>2. Stalled
        <5>1. count # 0
          BY <3>1, PositionIs, RobTypes DEF BaseInv, Slot
        <5> QED BY <2>1, <4>1, <5>1, CurrentClasses DEF Stalled, ROB!empty
      <4> QED BY <3>2, <3>3, <4>1, <4>2 DEF Tick
    <3>5. ASSUME NEW v \in Slot, entries'[v].valid, Position(v)' = Position(s)' + 1
          PROVE  entries'[v].op.pc = Follow(s)'
      <4>1. CASE Stays(v)
        <5>1. Position(v)' = Position(v) - (IF Retires THEN 1 ELSE 0)
          BY <4>1, RobEdge
        <5>2. Position(v) = Position(s) + 1
          <6>1. Position(v) \in Int
            BY PositionIs, OutOfOrderAssumption DEF BaseInv, Slot
          <6> HIDE DEF Position
          <6> QED BY <2>1, <3>1, <3>5, <5>1, <6>1
        <5>3. v \in InFlight /\ entries'[v].op = entries[v].op
          BY <4>1, RobEdge DEF Stays, InFlight
        <5> QED BY <3>2, <5>2, <5>3 DEF PathRight
      <4>2. CASE ~Stays(v)
        <5>1. Accepted /\ v = tail /\ entries'[v].op.pc = pc
          BY <3>5, <4>2, Dispatched
        <5>2. Position(v)' = ROB!CountAfterCommit
          BY <5>1, RobEdge
        <5>3. Position(s) + 1 = count
          <6> HIDE DEF Position
          <6> QED BY <2>1, <3>1, <3>5, <5>2
        <5> QED BY <3>2, <3>3, <5>1, <5>3
      <4> QED BY <4>1, <4>2
    <3> QED BY <3>4, <3>5
  <2>3. CASE ~Stays(s)
    <3>1. Dispatch /\ Accepted /\ s = tail /\ entries'[s].op.pc = pc /\ ControlOf(s)' = Current
      BY <1>1, <2>3, Dispatched
    <3>2. Position(s)' = ROB!CountAfterCommit
      BY <3>1, RobEdge
    <3>3. ~Current.branch /\ ~Stalled
      BY <2>1, <3>1, CurrentClasses DEF Stalled
    <3>4. Follow(s)' = After(Current, pc)
      BY <3>1 DEF Follow, After
    <3>5. pc' = After(Current, pc)
      <4>1. pc' = NextPC(Current, pc, Read(Current.rs1), BranchResult)
        BY <3>3 DEF Tick
      <4>2. ~Current.jalr
        BY <1>1, <3>1
      <4> QED BY <3>3, <4>1, <4>2, NextIs
    <3>6. ASSUME NEW v \in Slot, entries'[v].valid, Position(v)' = Position(s)' + 1 PROVE FALSE
      <4>1. Stays(v) => Position(v)' < ROB!CountAfterCommit
        BY RobEdge
      <4>2. ~Stays(v) => Accepted /\ v = tail
        BY <3>6, RobEdge
      <4>3. ~Stays(v) => Position(v)' = ROB!CountAfterCommit
        BY <4>2, RobEdge
      <4> HIDE DEF Position
      <4> QED BY <2>1, <3>2, <3>6, <4>1, <4>3
    <3> QED BY <3>4, <3>5, <3>6
  <2> QED BY <2>2, <2>3
<1> QED BY <1>1 DEF PathRight, InFlight, Follow, ControlOf, Position, ROB!Position, ROB!Wrap

\* The head after the edge: the next instruction in order.
LEMMA HeadNext ==
    ASSUME BaseInv, BaseInv', Tick, NEW h, h = head'
    PROVE  /\ h \in Slot
           /\ count' > 0 => /\ entries'[h].valid
                            /\ Stays(h) => Position(h) = IF Retires THEN 1 ELSE 0
           /\ count' > 0 /\ ~Stays(h) => ROB!CountAfterCommit = 0
<1>1. h \in Slot /\ head' \in RP!Slot /\ h \in RP!Slot /\ count' \in Nat
  BY RobMoves DEF BaseInv, RP!TypeOK, RP!Slot, Slot
<1>2. RP!Wrap(h - head') = 0
  <2>1. RP!Wrap(h - head') = IF h < head' THEN h - head' + ROB_SIZE ELSE h - head'
    BY <1>1, RobAssumed, RP!DistanceIs
  <2> QED BY <1>1, <2>1, OutOfOrderAssumption DEF Slot
<1>3. Position(h)' = 0
  BY <1>2 DEF Position, ROB!Position, ROB!Wrap, RP!Wrap
<1>4. count' > 0 => entries'[h].valid
  BY <1>1, <1>2 DEF BaseInv, RP!WindowInv, RP!Position
<1>5. Stays(h) => Position(h)' = Position(h) - (IF Retires THEN 1 ELSE 0)
  BY <1>1, RobEdge
<1>6. Position(h) \in Int
  BY <1>1, PositionIs, OutOfOrderAssumption DEF BaseInv, Slot
<1>7. Stays(h) => Position(h) = IF Retires THEN 1 ELSE 0
  <2> HIDE DEF Position
  <2> QED BY <1>3, <1>5, <1>6
<1>8. entries'[h].valid /\ ~Stays(h) => ROB!CountAfterCommit = 0
  <2> SUFFICES ASSUME entries'[h].valid, ~Stays(h) PROVE ROB!CountAfterCommit = 0
    OBVIOUS
  <2>1. Accepted /\ h = tail
    BY <1>1, RobEdge
  <2>2. Position(h)' = ROB!CountAfterCommit
    BY <1>1, <2>1, RobEdge
  <2> HIDE DEF Position
  <2> QED BY <1>3, <2>2
<1> QED BY <1>1, <1>4, <1>7, <1>8

-----------------------------------------------------------------------------
(* Refinement.                                                              *)

\* The single-cycle machine's step on the committed state.
LEMMA OracleStep == \A s : Oracle!After(s) = Step(program, s)
<1>1. \A v : Oracle!Mask(v) = Mask(v)
  BY DEF Oracle!Mask, Mask, Oracle!WORDS, WORDS
<1>2. \A i : Oracle!Decode(i) = Decode(i)
  BY DEF Oracle!Decode, Decode, Oracle!BranchAluOp, BranchAluOp, Oracle!BranchCond, BranchCond
<1>3. \A p, a : Oracle!Fetched(p, a) = Fetched(p, a)
  BY <1>1 DEF Oracle!Fetched, Fetched, Oracle!Nop, Nop, Oracle!IAlu, IAlu
<1>4. /\ \A r, x : Oracle!RegRead(r, x) = RegRead(r, x)
      /\ \A r, e, x, v : Oracle!RegWrite(r, e, x, v) = RegWrite(r, e, x, v)
      /\ \A a : Oracle!MemIndex(a) = MemIndex(a)
  BY DEF Oracle!RegRead, RegRead, Oracle!RegWrite, RegWrite, Oracle!MemIndex, MemIndex
<1>5. \A m, e, a, v : Oracle!MemWrite(m, e, a, v) = MemWrite(m, e, a, v)
  BY <1>4 DEF Oracle!MemWrite, MemWrite
<1>6. \A c, x, y, a : Oracle!WriteBack(c, x, y, a) = WriteBack(c, x, y, a)
  BY <1>1 DEF Oracle!WriteBack, WriteBack
<1>7. \A c, a, r, x : Oracle!NextPC(c, a, r, x) = NextPC(c, a, r, x)
  BY <1>1 DEF Oracle!NextPC, NextPC, Oracle!Redirects, Redirects, Oracle!BranchTaken, BranchTaken
<1>8. Oracle!BitAnd = BitAnd
  BY DEF Oracle!BitAnd, BitAnd, Oracle!Word, Word, Oracle!WORDS, WORDS
<1>9. \A op, a, b : Oracle!Alu(op, a, b) = Alu(op, a, b)
  BY <1>8 DEF Oracle!Alu, Alu, Oracle!Mask, Mask, Oracle!ToSigned, ToSigned, Oracle!WORDS, WORDS
<1> QED BY <1>1, <1>2, <1>3, <1>4, <1>5, <1>6, <1>7, <1>9 DEF Oracle!After, Oracle!Step, Step, Oracle!ResultOf, ResultOf

CommittedState == [pc |-> CommittedPC, regs |-> regs, mem |-> mem]

\* What commits is what the single-cycle machine does.
LEMMA HeadCommits ==
    ASSUME LinksNothing, DataInv, Tick, Retires
    PROVE  Step(program, CommittedState) = [regs |-> regs', mem |-> mem', pc |-> Follow(head)]
<1>1. /\ BaseInv /\ TypeInv /\ head \in Slot /\ head \in InFlight /\ entries[head].ready
      /\ ~ROB!empty
  BY Window, RobTypes DEF DataInv, Healthy, BaseInv, InFlight, Retires, ROB!commit_en
<1>2. PICK c \in Control : c = ControlOf(head)
  BY <1>1, ControlOfType
<1>3. PICK p : p = entries[head].op.pc /\ p = CommittedPC
  BY <1>1 DEF CommittedPC, Retiring
<1>4. c = Decode(Fetched(program, p)) /\ c.rs1 \in Reg /\ c.rs2 \in Reg
  BY <1>2, <1>3 DEF ControlOf, Control
<1> DEFINE a == RegRead(regs, c.rs1)
           b == RegRead(regs, c.rs2)
           x == ResultOf(c, p, a, b)
           v == entries[head].value
<1>5. v = IF c.mem_read THEN mem[MemIndex(x)] ELSE x
  <2>1. ResultRight(head)
    BY <1>1 DEF DataInv, ResultsRight
  <2>2. PICK a1 \in Word, b1 \in Word :
           /\ c.use_pc \/ Known(head, c.rs1, a1)
           /\ Known(head, c.rs2, b1)
           /\ LET y == ResultOf(c, p, a1, b1) IN v = IF c.mem_read THEN mem[MemIndex(y)] ELSE y
    BY <1>2, <1>3, <2>1, Zenon DEF ResultRight
  <2>3. b1 = b /\ (c.use_pc \/ a1 = a)
    BY <1>1, <1>4, <2>2, HeadReads
  <2>4. ResultOf(c, p, a1, b1) = x
    BY <2>3 DEF ResultOf
  <2> QED BY <2>2, <2>4
<1>6. /\ entries[head].op.rd = c.rd /\ entries[head].op.is_store = c.mem_write
      /\ entries[head].op.store_data_reg = c.rs2 /\ entries[head].op.reg_write = c.reg_write
      /\ c.reg_write \/ c.mem_write
  BY <1>1, <1>2, DescribedFields DEF DataInv
<1>7. /\ c.mem_read => ~c.mem_write
      /\ c.mem_write => ~c.reg_write
      /\ ~c.branch
  <2>1. PICK i \in Instruction : c = Decode(i)
    BY <1>1, <1>4, OutOfOrderAssumption, FetchedType DEF TypeInv
  <2> QED BY <1>6, <2>1, DecodeClasses
<1>8. /\ ~c.jalr
      /\ c.jal => c.rd = ZERO_REG
      /\ c.wb_sel = IF c.mem_read THEN "MEMORY" ELSE IF c.jal THEN "PC4" ELSE "ALU"
  BY <1>1, <1>4, Unlinked
<1> HIDE DEF a, b, x, v
<1>9. regs' = RegWrite(regs, c.reg_write, c.rd, WriteBack(c, x, mem[MemIndex(x)], p))
  <2>1. regs' = RegWrite(regs, c.reg_write, c.rd, v)
    <3>1. CommitsReg <=> c.reg_write
      BY <1>6 DEF CommitsReg, Retires, Retiring
    <3>2. regs' = RegWrite(regs, CommitsReg, c.rd, v)
      BY <1>6 DEF Tick, Retiring, v
    <3> QED BY <3>1, <3>2 DEF RegWrite
  <2>2. CASE c.rd = ZERO_REG
    BY <2>1, <2>2 DEF RegWrite
  <2>3. CASE c.rd # ZERO_REG
    <3>1. WriteBack(c, x, mem[MemIndex(x)], p) = v
      BY <1>5, <1>8, <2>3 DEF WriteBack
    <3> QED BY <2>1, <3>1
  <2> QED BY <2>2, <2>3
<1>10. mem' = MemWrite(mem, c.mem_write, x, b)
  <2>1. mem' = MemWrite(mem, c.mem_write, v, Read(c.rs2))
    <3>1. CommitsMem <=> c.mem_write
      BY <1>6 DEF CommitsMem, Retires, Retiring
    <3>2. mem' = MemWrite(mem, CommitsMem, v, Read(c.rs2))
      BY <1>6 DEF Tick, Retiring, v
    <3> QED BY <3>1, <3>2 DEF MemWrite
  <2>2. c.mem_write => v = x /\ Read(c.rs2) = b
    BY <1>5, <1>6, <1>7 DEF Read, CommitsReg, Retiring, b
  <2> QED BY <2>1, <2>2 DEF MemWrite
<1>11. NextPC(c, p, a, x) = Follow(head)
  <2>1. NextPC(c, p, a, x) = After(c, p)
    BY <1>1, <1>4, <1>7, Unlinked, NextIs
  <2> QED BY <1>2, <1>3, <2>1 DEF After, Follow
<1> QED BY <1>3, <1>4, <1>9, <1>10, <1>11 DEF Step, CommittedState, a, b, x

Resolves == Current.branch /\ ROB!empty

LEMMA Commits ==
    ASSUME LinksNothing, DataInv, BaseInv', PathRight, RoomAtDispatch, Tick
    PROVE  CommittedState' = IF Retires \/ Resolves THEN Step(program, CommittedState)
                             ELSE CommittedState
<1>1. /\ BaseInv /\ TypeInv /\ head \in Slot /\ Position(head) = 0
      /\ count \in Nat /\ count' \in Nat
      /\ Dispatch <=> ~Current.branch
      /\ Accepted <=> Dispatch
      /\ ROB!CountAfterCommit = count - (IF Retires THEN 1 ELSE 0)
      /\ count' = ROB!CountAfterCommit + (IF Accepted THEN 1 ELSE 0)
      /\ Retires => count > 0 /\ head \in InFlight
      /\ ROB!empty <=> count = 0
  <2>1. BaseInv /\ TypeInv
    BY DEF DataInv, Healthy, BaseInv
  <2>2. count' \in Nat
    BY <2>1, RobMoves DEF RP!TypeOK
  <2> QED BY <2>1, <2>2, Window, RobTypes, RobEdge, Driven, CurrentClasses
          DEF ROB!empty, InFlight
<1>2. PICK h \in Slot : h = head'
  BY <1>1, HeadNext
<1>7. ~ControlOf(head).jalr
  BY <1>1, Unlinked DEF ControlOf
<1>3. CommittedPC' = IF count' = 0 THEN pc' ELSE entries'[h].op.pc
  BY <1>2 DEF CommittedPC, Retiring, ROB!empty
<1>4. /\ count' > 0 => /\ entries'[h].valid
                       /\ Stays(h) => Position(h) = IF Retires THEN 1 ELSE 0
                       /\ ~Stays(h) => ROB!CountAfterCommit = 0
      /\ Stays(h) => /\ Position(h) < count /\ h \in InFlight
                     /\ entries'[h].op = entries[h].op
      /\ entries'[h].valid /\ ~Stays(h) => Accepted /\ entries'[h].op.pc = pc
  <2>1. Stays(h) => h \in InFlight
    BY DEF Stays, InFlight
  <2> QED BY <1>1, <1>2, <2>1, HeadNext, RobEdge, Dispatched
<1>5. CASE Retires
  <2>1. count = 1 => pc = Follow(head)
    BY <1>1, <1>5, <1>7 DEF PathRight
  <2>2. CommittedPC' = Follow(head)
    <3>1. CASE count' = 0
      <4>1. count = 1 /\ ~Accepted
        BY <1>1, <1>5, <3>1
      <4>2. pc' = pc
        BY <1>1, <4>1 DEF Tick, Stalled
      <4> QED BY <1>3, <2>1, <3>1, <4>1, <4>2
    <3>2. CASE count' > 0 /\ Stays(h)
      <4>1. h \in InFlight /\ Position(h) = Position(head) + 1
        BY <1>1, <1>4, <1>5, <3>2
      <4>2. entries[h].op.pc = Follow(head)
        BY <1>1, <1>5, <1>7, <4>1 DEF PathRight
      <4> QED BY <1>3, <1>4, <3>2, <4>2
    <3>3. CASE count' > 0 /\ ~Stays(h)
      <4>1. count = 1 /\ entries'[h].op.pc = pc
        BY <1>1, <1>4, <1>5, <3>3
      <4> QED BY <1>3, <2>1, <3>3, <4>1
    <3> QED BY <1>1, <3>1, <3>2, <3>3
  <2> QED BY <1>5, <2>2, HeadCommits DEF CommittedState
<1>6. CASE ~Retires
  <2>1. ~CommitsReg /\ ~CommitsMem
    BY <1>6 DEF CommitsReg, CommitsMem, Retires
  <2>2. regs' = regs /\ mem' = mem /\ \A r : Read(r) = RegRead(regs, r)
    BY <2>1 DEF Tick, RegWrite, MemWrite, Read
  <2>3. CASE Resolves
    <3>1. count' = 0 /\ CommittedPC' = pc' /\ CommittedPC = pc
      BY <1>1, <1>3, <1>6, <2>3 DEF Resolves, CommittedPC
    <3>2. pc' = NextPC(Current, pc, RegRead(regs, Current.rs1), BranchResult)
      BY <2>2, <2>3 DEF Tick, Stalled, Resolves
    <3>3. BranchResult = ResultOf(Current, pc, RegRead(regs, Current.rs1), RegRead(regs, Current.rs2))
      BY <2>2 DEF BranchResult, ResultOf
    <3>4. ~Current.reg_write /\ ~Current.mem_write
      BY <1>1, <2>3 DEF Resolves, Dispatch
    <3> QED BY <2>2, <2>3, <3>1, <3>2, <3>3, <3>4
            DEF CommittedState, Step, Current, RegWrite, MemWrite
  <2>4. CASE ~Resolves
    <3>1. CommittedPC' = CommittedPC
      <4>1. CASE count = 0
        <5>1. Accepted /\ count' = 1 /\ CommittedPC = pc
          BY <1>1, <1>6, <2>4, <4>1 DEF Resolves, CommittedPC
        <5>2. ~Stays(h)
          BY <1>1, <1>4, <4>1, PositionIs DEF Slot
        <5> QED BY <1>3, <1>4, <5>1, <5>2
      <4>2. CASE count # 0
        <5>1. count' > 0 /\ Stays(h)
          BY <1>1, <1>4, <1>6, <4>2
        <5>2. h = head
          <6>1. Position(h) = Position(head)
            BY <1>1, <1>4, <1>6, <5>1
          <6> QED BY <1>1, <6>1, PositionsDiffer
        <5> QED BY <1>1, <1>3, <1>4, <4>2, <5>1, <5>2 DEF CommittedPC, Retiring
      <4> QED BY <4>1, <4>2
    <3> QED BY <1>6, <2>2, <2>4, <3>1 DEF CommittedState
  <2> QED BY <2>3, <2>4
<1> QED BY <1>5, <1>6

\* Renaming, execution out of order and the write-through of a commit change
\* timing, never results: while an instruction is only dispatched when there is room
\* for it and to sources whose results are still to come, every program that links
\* nothing commits what the single-cycle machine computes, in its order.
THEOREM Refines ==
    LinksNothing => (Spec /\ []RoomAtDispatch /\ []RenamesToUnexecuted => ImplementsOracle)
<1> SUFFICES ASSUME LinksNothing
             PROVE  Spec /\ []RoomAtDispatch /\ []RenamesToUnexecuted => ImplementsOracle
  OBVIOUS
<1> DEFINE Inv == DataInv /\ PathRight
<1>1. Init => Oracle!Init /\ Inv
  <2> SUFFICES ASSUME Init PROVE Oracle!Init /\ Inv
    OBVIOUS
  <2>1. Oracle!InitialRegs = InitialRegs /\ Oracle!InitialMem = InitialMem
    BY DEF Oracle!InitialRegs, InitialRegs, Oracle!InitialMem, InitialMem, Oracle!Reg, Reg
  <2>2. CommittedPC = 0
    BY DEF Init, ROB!Init, CommittedPC, ROB!empty
  <2>3. PathRight
    BY DEF Init, ROB!Init, ROB!EmptyEntry, ROB!Slot, Slot, PathRight, InFlight
  <2> QED BY <2>1, <2>2, <2>3, DataInitial DEF Oracle!Init, Init
<1>2. Inv /\ RoomAtDispatch /\ RenamesToUnexecuted /\ [Next]_vars => Inv'
  <2>1. ASSUME Inv, RoomAtDispatch, RenamesToUnexecuted, Tick PROVE Inv'
    BY <2>1, DataStep, PathStep DEF DataInv, Healthy, Next
  <2>2. ASSUME Inv, RoomAtDispatch, RenamesToUnexecuted, UNCHANGED vars PROVE Inv'
    <3>1. UNCHANGED <<program, pc, entries, head, count>>
      BY <2>2 DEF vars
    <3>2. PathRight'
      BY <2>2, <3>1 DEF PathRight, InFlight, Follow, ControlOf, Position, ROB!Position, ROB!Wrap
    <3> QED BY <2>2, <3>2, DataStep
  <2> QED BY <2>1, <2>2 DEF Next
<1>3. Inv /\ Inv' /\ RoomAtDispatch /\ [Next]_vars => [Oracle!Next]_(Oracle!vars)
  <2> SUFFICES ASSUME Inv, Inv', RoomAtDispatch, [Next]_vars PROVE [Oracle!Next]_(Oracle!vars)
    OBVIOUS
  <2>1. CASE Tick
    <3>1. program' = program
      BY <2>1 DEF Tick
    <3>2. CommittedState' = IF Retires \/ Resolves THEN Step(program, CommittedState)
                            ELSE CommittedState
      BY <2>1, Commits DEF DataInv, Healthy
    <3>3. CASE Retires \/ Resolves
      <4>1. CommittedState' = Oracle!After(CommittedState)
        BY <3>2, <3>3, OracleStep
      <4> QED BY <3>1, <4>1 DEF CommittedState, Oracle!Next, Oracle!Tick
    <3>4. CASE ~(Retires \/ Resolves)
      BY <3>1, <3>2, <3>4 DEF CommittedState, Oracle!vars
    <3> QED BY <3>3, <3>4
  <2>2. CASE UNCHANGED vars
    <3>1. UNCHANGED <<program, pc, regs, mem, entries, head, count>>
      BY <2>2 DEF vars
    <3> QED BY <3>1 DEF CommittedPC, Retiring, ROB!empty, Oracle!vars
  <2> QED BY <2>1, <2>2 DEF Next
<1> QED BY <1>1, <1>2, <1>3, PTL DEF Spec, ImplementsOracle

-----------------------------------------------------------------------------
(* When the hypotheses hold by themselves.  Only a load that waits for an    *)
(* older store is ever overtaken, and a store is gone when the second        *)
(* instruction behind it could execute: a program without a load directly    *)
(* behind a store runs in order, one instruction in the station and one      *)
(* about to commit.                                                          *)

NoLoadBehindStore ==
    \A p \in Programs : \A a \in Word :
        Decode(Fetched(p, a)).mem_write => ~Decode(Fetched(p, Mask(a + 4))).mem_read

Flows ==
    /\ Len(waiting) <= 1
    /\ \A s \in InFlight : entries[s].ready => s = head
    /\ count <= Len(waiting) + (IF Retires THEN 1 ELSE 0)

\* A load in the station has no store ahead of it.
LEMMA NoStoreAhead ==
    ASSUME NoLoadBehindStore, DataInv, PathRight, Flows,
           NEW t \in Unexecuted, NEW v \in InFlight, Position(v) < Position(t),
           ControlOf(t).mem_read
    PROVE  ~ControlOf(v).mem_write
<1> SUFFICES ASSUME ControlOf(v).mem_write PROVE FALSE
  OBVIOUS
<1>1. BaseInv /\ TypeInv
  BY DEF DataInv, Healthy, BaseInv
<1>2. /\ t \in Slot /\ v \in Slot /\ t \in InFlight
      /\ Position(t) < count /\ Position(t) \in Slot /\ Position(v) \in Slot
  BY <1>1, Window, PositionIs DEF Unexecuted, InFlight
<1>3. Position(v) = 0 /\ Position(t) = 1
  <2>1. count \in Nat /\ Len(waiting) \in Nat
    BY <1>1, RobTypes, StationTypes, OutOfOrderAssumption
  <2>2. count <= 2
    BY <2>1 DEF Flows
  <2>3. Position(t) \in Int /\ Position(v) \in Int /\ Position(v) >= 0
    BY <1>2, OutOfOrderAssumption DEF Slot
  <2> HIDE DEF Position
  <2> QED BY <1>2, <2>1, <2>2, <2>3
<1>4. entries[t].op.pc = Follow(v)
  <2>1. ~ControlOf(v).jalr
    BY DEF ControlOf, Decode
  <2> QED BY <1>2, <1>3, <2>1 DEF PathRight
<1>5. Follow(v) = Mask(entries[v].op.pc + 4)
  BY DEF Follow, ControlOf, Decode
<1>6. entries[v].op.pc \in Word
  BY <1>1, <1>2, RobTypes DEF Descriptor
<1> QED BY <1>1, <1>4, <1>5, <1>6 DEF NoLoadBehindStore, ControlOf, TypeInv

\* The only instruction in the station waits for nothing.
LEMMA AloneRuns ==
    ASSUME NoLoadBehindStore, DataInv, PathRight, Flows
    PROVE  Left = 0 /\ Len(waiting) \in {0, 1} /\ (Sel # 0 <=> Len(waiting) = 1)
<1>1. /\ Healthy /\ BaseInv /\ TypeInv
      /\ Len(waiting) \in {0, 1} /\ DOMAIN waiting = 1..Len(waiting)
  <2>1. Healthy /\ BaseInv /\ TypeInv
    BY DEF DataInv, Healthy, BaseInv
  <2>2. waiting \in Seq(RS!Pending)
    BY <2>1, StationTypes
  <2>3. Len(waiting) \in Nat /\ DOMAIN waiting = 1..Len(waiting)
    BY <2>2
  <2>4. Len(waiting) <= 1
    BY DEF Flows
  <2>5. Len(waiting) \in {0, 1}
    BY <2>3, <2>4
  <2> QED BY <2>1, <2>3, <2>5
<1>2. Sel # 0 => Len(waiting) = 1
  BY <1>1, SelectedRuns
<1>3. ASSUME Len(waiting) = 1 PROVE Sel # 0
  <2>1. PICK e : e = waiting[1]
    OBVIOUS
  <2>2. 1 \in DOMAIN waiting /\ \A i \in DOMAIN waiting : i = 1
    BY <1>1, <1>3
  <2>3. e.rob_tag \in Slot /\ \A t \in Unexecuted : t = e.rob_tag
    BY <1>1, <2>1, <2>2, WaitingStays DEF Healthy, StationHoldsUnexecuted
  <2>4. Prepared(e.rob_tag, ControlOf(e.rob_tag), entries[e.rob_tag].op.pc, e.op, e.src1, e.src2)
    BY <2>1, <2>2, PreparedIs DEF DataInv
  <2>5. \A r, src : OperandRight(e.rob_tag, r, src) => src.ready
    <3> SUFFICES ASSUME NEW r, NEW src, Awaits(e.rob_tag, r, src.tag) PROVE FALSE
      BY DEF OperandRight
    <3>1. src.tag \in Unexecuted /\ Position(src.tag) < Position(e.rob_tag)
      BY DEF Awaits, Producer, Writes, Unexecuted, InFlight
    <3>2. Position(e.rob_tag) \in Slot /\ src.tag = e.rob_tag
      BY <1>1, <2>3, <3>1, PositionIs
    <3>3. Position(e.rob_tag) \in Int
      BY <3>2, OutOfOrderAssumption DEF Slot
    <3> HIDE DEF Position
    <3> QED BY <3>1, <3>2, <3>3
  <2>6. e.src1.ready /\ e.src2.ready
    BY <2>4, <2>5 DEF Prepared
  <2>7. ~RS!OlderStorePending(e, ROB!store_pending_mask, head) \/ ~e.op.is_load
    <3> SUFFICES ASSUME e.op.is_load, NEW v \in ROB!store_pending_mask,
                        (v - head) % ROB_SIZE < (e.rob_tag - head) % ROB_SIZE
                 PROVE  FALSE
      BY DEF RS!OlderStorePending
    <3>1. ControlOf(e.rob_tag).mem_read
      BY <2>4 DEF Prepared
    <3>2. v \in InFlight /\ entries[v].op.is_store
      BY DEF ROB!store_pending_mask, ROB!Slot, InFlight, Slot
    <3>3. ControlOf(v).mem_write
      BY <3>2, DescribedFields DEF DataInv
    <3>4. Position(v) < Position(e.rob_tag)
      BY DEF Position, ROB!Position, ROB!Wrap
    <3>5. e.rob_tag \in Unexecuted
      BY <1>1, <2>1, <2>2, WaitingStays
    <3> QED BY <3>1, <3>2, <3>3, <3>4, <3>5, NoStoreAhead
  <2>8. RS!RunnableAt(ROB!store_pending_mask, head) = {1}
    BY <2>1, <2>2, <2>6, <2>7 DEF RS!RunnableAt, RS!Runnable
  <2>9. (CHOOSE i \in {1} : \A j \in {1} : i <= j) = 1
    OBVIOUS
  <2> QED BY <2>8, <2>9 DEF Sel, RS!Selected
<1> QED BY <1>1, <1>2, <1>3 DEF Left

LEMMA FlowsHaveRoom ==
    ASSUME NoLoadBehindStore, ROB_SIZE > 1, DataInv, PathRight, Flows
    PROVE  RoomAtDispatch /\ RenamesToUnexecuted
<1>1. Healthy /\ BaseInv /\ TypeInv
  BY DEF DataInv, Healthy, BaseInv
<1>2. RoomAtDispatch
  <2>1. Left = 0 /\ Len(IF Sel = 0 THEN waiting ELSE RS!Without(Sel)) = Left
    BY <1>1, AloneRuns, Places
  <2>2. ROB!CountAfterCommit <= 1
    <3>1. count \in Nat /\ Len(waiting) \in Nat
      BY <1>1, RobTypes, StationTypes, OutOfOrderAssumption
    <3> QED BY <3>1 DEF Flows, ROB!CountAfterCommit, Retires
  <2>3. ROB!CountAfterCommit \in Int
    BY <1>1, RobTypes DEF ROB!CountAfterCommit
  <2> QED BY <2>1, <2>2, <2>3, OutOfOrderAssumption DEF RoomAtDispatch
<1>3. RenamesToUnexecuted
  <2>1. ASSUME NEW r \in Reg, ~Source(r).ready PROVE Source(r).tag \in Unexecuted
    <3>1. PICK t : t = RAT!Lookup(r, Commit)
      OBVIOUS
    <3>2. t # NoTag /\ Source(r).tag = t
      BY <2>1, <3>1 DEF Source
    <3>3. r # ZERO_REG
      BY <3>1, <3>2 DEF RAT!Lookup
    <3>4. t \in Slot /\ Stays(t)
      BY <1>1, <3>1, <3>2, <3>3, LookupIs DEF Healthy
    <3>5. t \in InFlight
      BY <3>4 DEF Stays, InFlight
    <3>6. ~entries[t].ready
      <4> SUFFICES ASSUME entries[t].ready PROVE FALSE
        OBVIOUS
      <4>1. t = head
        BY <3>5 DEF Flows
      <4>2. Position(head) < count /\ Position(head) = 0
        BY <1>1, <3>5, <4>1, Window DEF InFlight
      <4>3. Retires
        BY <3>5, <4>1, <4>2 DEF Retires, ROB!commit_en, ROB!empty, InFlight
      <4> QED BY <3>4, <4>1, <4>3 DEF Stays
    <3> QED BY <3>2, <3>5, <3>6 DEF Unexecuted
  <2>2. Current.rs1 \in Reg /\ Current.rs2 \in Reg
    BY <1>1, CurrentType DEF Control
  <2>3. ~FirstSource.ready => FirstSource.tag \in Unexecuted
    BY <2>1, <2>2 DEF FirstSource
  <2> QED BY <2>1, <2>2, <2>3 DEF RenamesToUnexecuted
<1> QED BY <1>2, <1>3

LEMMA FlowsStep ==
    ASSUME NoLoadBehindStore, ROB_SIZE > 1, DataInv, DataInv', PathRight, Flows, Tick
    PROVE  Flows'
<1>1. /\ Healthy /\ BaseInv /\ BaseInv' /\ TypeInv /\ RoomAtDispatch /\ StationHoldsUnexecuted
      /\ Left = 0 /\ (Sel # 0 <=> Len(waiting) = 1)
  BY FlowsHaveRoom, AloneRuns DEF DataInv, Healthy, BaseInv
<1>2. /\ count \in Nat /\ Len(waiting) \in Nat
      /\ ROB!CountAfterCommit = count - (IF Retires THEN 1 ELSE 0)
      /\ count' = ROB!CountAfterCommit + (IF Dispatch THEN 1 ELSE 0)
      /\ (Accepted <=> Dispatch)
  BY <1>1, RobTypes, StationTypes, OutOfOrderAssumption, RobEdge, Driven
<1>3. ROB!CountAfterCommit <= Len(waiting) /\ Len(waiting) <= 1
  BY <1>2 DEF Flows
<1>4. Len(waiting') = IF Dispatch THEN 1 ELSE 0
  <2>1. Len(waiting') = Left + (IF Enters THEN 1 ELSE 0) /\ (Enters <=> Dispatch)
    BY <1>1, RobAdvances, StationEdge, Driven
  <2> QED BY <1>1, <2>1
\* Who stays has nobody before it.
<1>5. ASSUME NEW s \in Slot, Stays(s) PROVE s = head'
  <2>1. Position(s)' < ROB!CountAfterCommit /\ Position(s)' = RP!Wrap(s - head')
    BY <1>1, <1>5, RobEdge DEF Position, ROB!Position, ROB!Wrap, RP!Wrap
  <2>2. s \in RP!Slot /\ head' \in RP!Slot
    BY <1>1, RobMoves DEF RP!TypeOK, RP!Slot, Slot
  <2>3. RP!Wrap(s - head') = IF s < head' THEN s - head' + ROB_SIZE ELSE s - head'
    BY <2>2, RobAssumed, RP!DistanceIs
  <2>4. s \in Int /\ head' \in Int /\ 0 <= s /\ head' < ROB_SIZE /\ ROB_SIZE \in Int
    BY <2>2, OutOfOrderAssumption DEF RP!Slot
  <2>5. RP!Wrap(s - head') < 1
    <3> HIDE DEF Position
    <3>1. RP!Wrap(s - head') \in Int
      BY <2>3, <2>4
    <3> QED BY <1>2, <1>3, <2>1, <3>1
  <2> QED BY <2>3, <2>4, <2>5
<1>6. ASSUME NEW s \in Slot, entries'[s].valid, entries'[s].ready PROVE s = head'
  BY <1>1, <1>5, <1>6, Dispatched
<1>7. Len(waiting) = 1 => Retires'
  <2> SUFFICES ASSUME Len(waiting) = 1 PROVE Retires'
    OBVIOUS
  <2>1. PICK s \in Slot : s = Exec.rob_tag /\ Stays(s) /\ Finishes(s)
    BY <1>1, Executing, UnexecutedStay
  <2>2. s = head' /\ entries'[s].valid /\ entries'[s].ready
    BY <1>1, <1>5, <2>1, RobEdge
  <2>3. count' > 0
    <3>1. RP!Position(s)' < count'
      BY <1>1, <2>2 DEF BaseInv, RP!WindowInv, RP!Slot, Slot
    <3>2. RP!Wrap(s - head') \in Nat
      <4>1. s \in RP!Slot
        BY DEF RP!Slot, Slot
      <4>2. RP!Wrap(s - head') = IF s < head' THEN s - head' + ROB_SIZE ELSE s - head'
        BY <2>2, <4>1, RobAssumed, RP!DistanceIs
      <4> QED BY <2>2, <4>1, <4>2 DEF RP!Slot
    <3>3. count' \in Int
      BY <1>2
    <3> QED BY <3>1, <3>2, <3>3 DEF RP!Position
  <2> QED BY <2>2, <2>3 DEF Retires, ROB!commit_en, ROB!empty
<1>8. count' <= Len(waiting') + (IF Retires' THEN 1 ELSE 0)
  <2>1. Len(waiting) \in {0, 1}
    BY AloneRuns
  <2>2. ROB!CountAfterCommit \in Int
    BY <1>1, RobTypes DEF ROB!CountAfterCommit
  <2> HIDE DEF Retires, ROB!CountAfterCommit
  <2>3. CASE Len(waiting) = 1
    BY <1>2, <1>3, <1>4, <1>7, <2>2, <2>3
  <2>4. CASE Len(waiting) = 0
    <3>1. ROB!CountAfterCommit <= 0
      BY <1>3, <2>4
    <3>2. CASE Dispatch
      BY <1>2, <1>4, <2>2, <3>1, <3>2
    <3>3. CASE ~Dispatch
      BY <1>2, <1>4, <2>2, <3>1, <3>3
    <3> QED BY <3>2, <3>3
  <2> QED BY <2>1, <2>3, <2>4
<1>9. \A s \in InFlight' : entries'[s].ready => s = head'
  BY <1>6 DEF InFlight
<1> QED BY <1>4, <1>8, <1>9 DEF Flows

LEMMA FlowsInvariance ==
    ASSUME NoLoadBehindStore, ROB_SIZE > 1
    PROVE  Spec => [](RoomAtDispatch /\ RenamesToUnexecuted)
<1> DEFINE Inv == DataInv /\ PathRight /\ Flows
<1>1. Init => Inv
  <2> SUFFICES ASSUME Init PROVE DataInv /\ PathRight /\ Flows
    OBVIOUS
  <2>1. waiting = <<>> /\ count = 0 /\ \A s \in Slot : ~entries[s].valid
    BY DEF Init, RS!Init, ROB!Init, ROB!EmptyEntry, ROB!Slot, Slot
  <2>2. Len(waiting) = 0
    BY <2>1
  <2> QED BY <2>1, <2>2, DataInitial DEF Flows, PathRight, InFlight
<1>2. Inv /\ [Next]_vars => Inv'
  <2>1. ASSUME Inv, Tick PROVE Inv'
    <3>1. DataInv' /\ PathRight'
      BY <2>1, FlowsHaveRoom, DataStep, PathStep DEF Next, DataInv, Healthy
    <3> QED BY <2>1, <3>1, FlowsStep
  <2>2. ASSUME Inv, UNCHANGED vars PROVE Inv'
    <3>1. UNCHANGED <<program, pc, entries, head, count, waiting>>
      BY <2>2 DEF vars
    <3>2. Flows'
      BY <2>2, <3>1 DEF Flows, InFlight, Retires, ROB!commit_en, ROB!empty
    <3>3. PathRight'
      BY <2>2, <3>1 DEF PathRight, InFlight, Follow, ControlOf, Position, ROB!Position, ROB!Wrap
    <3> QED BY <2>2, <3>2, <3>3, FlowsHaveRoom, DataStep
  <2> QED BY <2>1, <2>2 DEF Next
<1>3. Inv => RoomAtDispatch /\ RenamesToUnexecuted
  BY FlowsHaveRoom
<1> QED BY <1>1, <1>2, <1>3, PTL DEF Spec

\* A program without a load directly behind a store runs the machine in order: it
\* never dispatches without room (RoomAtDispatch), in a buffer of two slots and a
\* station of one.
THEOREM NeverOverruns ==
    NoLoadBehindStore /\ ROB_SIZE > 1 => (Spec => []RoomAtDispatch)
<1> SUFFICES ASSUME NoLoadBehindStore, ROB_SIZE > 1
             PROVE  Spec => []RoomAtDispatch
  OBVIOUS
<1>1. Spec => [](RoomAtDispatch /\ RenamesToUnexecuted)
  BY FlowsInvariance
<1> QED BY <1>1, PTL

\* ... nor does it rename a source to a result that is already broadcast, whose
\* operand nothing would wake.
THEOREM NeverOrphans ==
    NoLoadBehindStore /\ ROB_SIZE > 1 => (Spec => []RenamesToUnexecuted)
<1> SUFFICES ASSUME NoLoadBehindStore, ROB_SIZE > 1
             PROVE  Spec => []RenamesToUnexecuted
  OBVIOUS
<1>1. Spec => [](RoomAtDispatch /\ RenamesToUnexecuted)
  BY FlowsInvariance
<1> QED BY <1>1, PTL

\* So such a program, if it links nothing, always commits what the single-cycle
\* machine computes, with no condition on the behaviour.
COROLLARY RefinesInOrder ==
    LinksNothing /\ NoLoadBehindStore /\ ROB_SIZE > 1 => (Spec => ImplementsOracle)
BY NeverOverruns, NeverOrphans, Refines, PTL

-----------------------------------------------------------------------------
(* Programs that do mix loads and stores.  A branch waits until the reorder  *)
(* buffer is empty, so what is in flight was dispatched since the last one.  *)

\* `behind` bounds, at every address the program can reach, how many instructions
\* are behind it since the last branch: no run of instructions between two branches
\* is longer than either structure.  (An address out of a register may be any.)
Ranks(p, reached, behind) ==
    /\ 0 \in reached
    /\ \A a \in reached :
          LET c == Decode(Fetched(p, a))
          IN /\ behind[a] <= ROB_SIZE /\ behind[a] <= RS_SIZE
             /\ ~c.jalr
             /\ c.branch => {Mask(a + 4), Mask(a + c.imm)} \subseteq reached
             /\ ~c.branch => After(c, a) \in reached /\ behind[a] < behind[After(c, a)]
BlocksFit ==
    \A p \in Programs : \E reached \in SUBSET Word : \E behind \in [Word -> Nat] :
        Ranks(p, reached, behind)

Within(reached, behind) ==
    pc \in reached /\ count <= behind[pc] /\ Len(waiting) <= behind[pc]
Bounded ==
    \E reached \in SUBSET Word : \E behind \in [Word -> Nat] :
        Ranks(program, reached, behind) /\ Within(reached, behind)

LEMMA WithinHasRoom ==
    ASSUME Healthy, NEW reached \in SUBSET Word, NEW behind \in [Word -> Nat],
           Ranks(program, reached, behind), Within(reached, behind)
    PROVE  RoomAtDispatch
<1>1. TypeInv
  BY DEF Healthy, BaseInv
<1>2. SUFFICES ASSUME Dispatch
               PROVE  ROB!CountAfterCommit < ROB_SIZE /\ Left < RS_SIZE
  BY <1>1, Places DEF RoomAtDispatch
<1>3. PICK next \in Word : /\ next = After(Current, pc) /\ next \in reached
                           /\ behind[pc] < behind[next]
  BY <1>1, <1>2, CurrentClasses DEF Ranks, Within, Current
<1>4. behind[next] <= ROB_SIZE /\ behind[next] <= RS_SIZE /\ pc \in Word
  BY <1>3 DEF Ranks, Within
<1>5. /\ count \in Nat /\ Len(waiting) \in Nat
      /\ ROB!CountAfterCommit = count - (IF Retires THEN 1 ELSE 0)
  BY <1>1, RobTypes, StationTypes, OutOfOrderAssumption DEF ROB!CountAfterCommit, Retires
<1>6. ROB!CountAfterCommit <= count /\ Left <= Len(waiting) /\ count <= behind[pc] /\ Len(waiting) <= behind[pc]
  BY <1>5 DEF Within, Left
<1>7. behind[pc] \in Int /\ behind[next] \in Int /\ ROB!CountAfterCommit \in Int /\ Left \in Int
  BY <1>4, <1>5 DEF Left
<1> HIDE DEF Left, ROB!CountAfterCommit
<1> QED BY <1>3, <1>4, <1>5, <1>6, <1>7, OutOfOrderAssumption

LEMMA WithinStep ==
    ASSUME Healthy, NEW reached \in SUBSET Word, NEW behind \in [Word -> Nat],
           Ranks(program, reached, behind), Within(reached, behind), Tick
    PROVE  Within(reached, behind)'
<1>1. BaseInv /\ TypeInv /\ RoomAtDispatch
  BY WithinHasRoom DEF Healthy, BaseInv
<1>2. /\ count \in Nat /\ Len(waiting) \in Nat /\ pc \in Word
      /\ ROB!CountAfterCommit = count - (IF Retires THEN 1 ELSE 0)
      /\ count' = ROB!CountAfterCommit + (IF Dispatch THEN 1 ELSE 0)
      /\ Len(waiting') = Left + (IF Dispatch THEN 1 ELSE 0)
      /\ Left <= Len(waiting)
  <2>1. count' = ROB!CountAfterCommit + (IF Accepted THEN 1 ELSE 0) /\ (Accepted <=> Dispatch)
    BY <1>1, RobEdge, Driven
  <2>2. Len(waiting') = Left + (IF Enters THEN 1 ELSE 0) /\ (Enters <=> Dispatch)
    BY <1>1, RobAdvances, StationEdge, Driven
  <2>3. count \in Nat /\ Len(waiting) \in Nat /\ Left <= Len(waiting)
    BY <1>1, RobTypes, StationTypes, OutOfOrderAssumption DEF Left
  <2> QED BY <2>1, <2>2, <2>3 DEF Within, ROB!CountAfterCommit, Retires
<1>3. count <= behind[pc] /\ Len(waiting) <= behind[pc] /\ pc \in reached /\ behind[pc] \in Nat
  BY <1>2 DEF Within
<1>4. Left \in Int
  BY <1>2 DEF Left
<1>5. ~Current.jalr
  BY <1>3 DEF Ranks, Current
<1>6. CASE Dispatch
  <2>1. ~Current.branch /\ ~Stalled
    BY <1>1, <1>6, CurrentClasses DEF Stalled
  <2>2. pc' = After(Current, pc)
    BY <1>5, <2>1, NextIs DEF Tick
  <2>3. pc' \in reached /\ behind[pc] < behind[pc']
    BY <1>3, <2>1, <2>2 DEF Ranks, Current
  <2>4. PICK next \in Word : next = pc'
    BY <2>3
  <2>5. behind[next] \in Nat
    OBVIOUS
  <2> HIDE DEF Left, ROB!CountAfterCommit
  <2>6. count' <= behind[next] /\ Len(waiting') <= behind[next]
    BY <1>2, <1>3, <1>4, <1>6, <2>3, <2>4, <2>5
  <2> QED BY <2>3, <2>4, <2>6 DEF Within
<1>7. CASE ~Dispatch
  <2>1. Current.branch
    BY <1>1, <1>7, CurrentClasses
  <2>2. CASE Stalled
    <3>1. pc' = pc
      BY <2>2 DEF Tick
    <3>2. count' <= behind[pc] /\ Len(waiting') <= behind[pc]
      <4> HIDE DEF Left, ROB!CountAfterCommit
      <4> QED BY <1>2, <1>3, <1>4, <1>7
    <3> QED BY <1>3, <3>1, <3>2 DEF Within
  <2>3. CASE ~Stalled
    <3>1. count = 0 /\ ~Retires
      BY <2>1, <2>3 DEF Stalled, ROB!empty, Retires, ROB!commit_en
    <3>2. Unexecuted = {}
      <4> SUFFICES ASSUME NEW s \in Unexecuted PROVE FALSE
        OBVIOUS
      <4>1. s \in Slot /\ Position(s) < 0
        BY <1>1, <3>1, Window DEF Unexecuted, InFlight
      <4>2. Position(s) \in Nat
        BY <1>1, <4>1, PositionIs DEF Slot
      <4> HIDE DEF Position
      <4> QED BY <4>1, <4>2
    <3>3. Len(waiting) = 0
      <4>1. waiting \in Seq(RS!Pending)
        BY <1>1, StationTypes
      <4>2. DOMAIN waiting = 1..Len(waiting)
        BY <4>1
      <4>3. \A i \in DOMAIN waiting : waiting[i].rob_tag \in Unexecuted
        BY DEF Healthy, StationHoldsUnexecuted
      <4>4. 1 \notin 1..Len(waiting)
        BY <3>2, <4>2, <4>3
      <4>5. Len(waiting) \in Nat
        BY <1>2
      <4> HIDE DEF Left, ROB!CountAfterCommit
      <4> QED BY <4>4, <4>5
    <3>4. count' <= 0 /\ Len(waiting') <= 0
      <4> HIDE DEF Left, ROB!CountAfterCommit
      <4> QED BY <1>2, <1>4, <1>7, <3>1, <3>3
    <3>5. ~Current.jal
      BY <2>1 DEF Current, Decode
    <3>6. pc' \in {Mask(pc + 4), Mask(pc + Current.imm)}
      BY <1>5, <2>1, <2>3, <3>5 DEF Tick, NextPC
    <3>7. pc' \in reached
      BY <1>3, <2>1, <3>6 DEF Ranks, Current
    <3>8. PICK next \in Word : next = pc'
      BY <3>7
    <3>9. behind[next] \in Nat /\ count' \in Int /\ Len(waiting') \in Int
      <4> HIDE DEF Left, ROB!CountAfterCommit
      <4> QED BY <1>2, <1>4, <1>7
    <3>10. count' <= behind[next] /\ Len(waiting') <= behind[next]
      BY <3>4, <3>9
    <3> QED BY <3>7, <3>8, <3>10 DEF Within
  <2> QED BY <2>2, <2>3
<1> QED BY <1>6, <1>7

\* A program no run of which, from one branch to the next, is longer than the
\* station and the buffer never dispatches without room (RoomAtDispatch), however
\* its loads wait for its stores: renaming and the station's order, proved under
\* that condition, hold for it in every behaviour.
THEOREM BlocksNeverOverrun == BlocksFit => (Spec => []RoomAtDispatch)
<1> SUFFICES ASSUME BlocksFit PROVE Spec => []RoomAtDispatch
  OBVIOUS
<1> DEFINE Inv == Healthy /\ Bounded
<1>1. Init => Inv
  <2> SUFFICES ASSUME Init PROVE Inv
    OBVIOUS
  <2>1. Healthy
    BY DataInitial DEF DataInv
  <2>2. program \in Programs /\ pc = 0 /\ count = 0 /\ Len(waiting) = 0
    BY DEF Init, ROB!Init, RS!Init
  <2>3. PICK reached \in SUBSET Word, behind \in [Word -> Nat] : Ranks(program, reached, behind)
    BY <2>2 DEF BlocksFit
  <2>4. 0 \in reached /\ behind[0] >= 0
    BY <2>3 DEF Ranks
  <2>5. Within(reached, behind)
    BY <2>2, <2>4 DEF Within
  <2> QED BY <2>1, <2>3, <2>5 DEF Bounded
<1>2. Inv => RoomAtDispatch
  BY WithinHasRoom DEF Bounded
<1>3. Inv /\ [Next]_vars => Inv'
  <2> SUFFICES ASSUME Inv, [Next]_vars PROVE Inv'
    OBVIOUS
  <2>1. Healthy'
    BY <1>2, HealthyStep
  <2>2. PICK reached \in SUBSET Word, behind \in [Word -> Nat] :
           Ranks(program, reached, behind) /\ Within(reached, behind)
    BY DEF Bounded
  <2>3. program' = program
    BY DEF Next, Tick, vars
  <2>4. Within(reached, behind)'
    <3>1. CASE Tick
      BY <2>2, <3>1, WithinStep
    <3>2. CASE UNCHANGED vars
      BY <2>2, <3>2 DEF vars, Within
    <3> QED BY <3>1, <3>2 DEF Next
  <2>5. Ranks(program, reached, behind)'
    BY <2>2, <2>3 DEF Ranks
  <2> QED BY <2>1, <2>4, <2>5 DEF Bounded
<1> QED BY <1>1, <1>2, <1>3, PTL DEF Spec

\* In such a program an alias always names the youngest writer in flight
\* (AliasIsYoungestWriter), and the station always holds what is unexecuted
\* (StationHoldsUnexecuted), with no condition on the behaviour.
COROLLARY BlocksKeepOrder ==
    BlocksFit => (Spec => []AliasIsYoungestWriter /\ []StationHoldsUnexecuted)
<1> SUFFICES ASSUME BlocksFit PROVE Spec => []AliasIsYoungestWriter /\ []StationHoldsUnexecuted
  OBVIOUS
<1>1. Spec => []RoomAtDispatch
  BY BlocksNeverOverrun
<1> QED BY <1>1, AliasCorrect, StationCorrect, PTL
=============================================================================
