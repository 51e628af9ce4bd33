------------------------- MODULE Superscalar_proofs --------------------------
(***************************************************************************)
(* The superscalar pipeline keeps its types, its bubbles are inert, and its*)
(* groups commit in order what the single-cycle machine computes, for every*)
(* number of lanes, program, predictor and width of a word.  One thing is  *)
(* asked of the programs: that the single-cycle machine never executes the *)
(* last word of the address space with them, because a group across the end*)
(* is fetched with an index that does not wrap as the program counter does.*)
(***************************************************************************)
EXTENDS Superscalar, Datapath_proofs, FiniteSetTheorems

\* Types, and that what is not a valid instruction has no effect.
TypeInv ==
    /\ num_lanes \in DOMAIN Programs
    /\ program \in Programs[num_lanes]
    /\ pc \in Word
    /\ if_id \in [Lane -> FetchEntry]
    /\ id_ex \in [Lane -> DecodeEntry]
    /\ ex_mem \in [Lane -> ExecuteEntry]
    /\ mem_wb \in [Lane -> MemoryEntry]
    /\ regs \in [Reg -> Word]
    /\ mem \in Mem
    /\ \A i \in Lane : /\ ~id_ex[i].valid => Quiet(id_ex[i].c)
                       /\ ~ex_mem[i].valid => Quiet(ex_mem[i].c)
                       /\ ~mem_wb[i].valid => Quiet(mem_wb[i].c)

Jumps(c)  == c.branch \/ c.jal \/ c.jalr
Steers(c) == c.branch \/ c.jal

\* Where an instruction's prediction leads.
Follower(e) == Mask(e.pc + (IF e.predicted THEN e.c.imm ELSE 4))

\* The address of the oldest instruction that has not left ID, or EX.
FrontPC == IF if_id[0].valid THEN if_id[0].pc ELSE pc
IssuePC == IF id_ex[0].valid THEN id_ex[0].pc ELSE FrontPC

\* A group in ID is whole: the words from its first address on.
FetchedGroup ==
    \A i \in Lane :
        /\ if_id[i].valid = if_id[0].valid
        /\ ~if_id[i].valid => if_id[i].instr = Nop
        /\ if_id[i].valid => /\ if_id[i].instr = Fetched(program, if_id[0].pc + 4 * i)
                             /\ if_id[i].pc = Mask(if_id[0].pc + 4 * i)
                             /\ pc = Mask(if_id[0].pc + 4 * num_lanes)

\* A group that was issued has no gap, needs nothing of itself and has a jump only
\* alone in its first lane.
Issues(s, i) ==
    /\ s[i].c = Decode(Fetched(program, s[0].pc + 4 * i))
    /\ s[i].pc = Mask(s[0].pc + 4 * i)
    /\ i > 0 => ~Jumps(s[i].c)
    /\ \A j \in 0..(i - 1) :
          /\ s[j].valid
          /\ ~Jumps(s[j].c)
          /\ s[j].c.reg_write /\ s[j].c.rd # ZERO_REG => s[j].c.rd \notin Sources(s[i].c)

\* The last lane of a group that holds an instruction.
Last(s, i) == s[i].valid /\ (i + 1 \in Lane => ~s[i + 1].valid)

\* Each group goes on where its predecessor's prediction leads.
PathInv ==
    /\ FetchedGroup
    /\ \A i \in Lane : /\ id_ex[i].valid => Issues(id_ex, i)
                       /\ ex_mem[i].valid => Issues(ex_mem, i)
                       /\ Last(id_ex, i) => FrontPC = Follower(id_ex[i])
                       /\ Last(ex_mem, i) => IssuePC = Follower(ex_mem[i])

\* Only branches and direct jumps are predicted, with nothing behind them.
PredictionInv ==
    \A i \in Lane :
        /\ id_ex[i].predicted => i = 0 /\ Steers(id_ex[i].c) /\ ~if_id[0].valid
        /\ ex_mem[i].predicted => i = 0 /\ Steers(ex_mem[i].c) /\ ~id_ex[0].valid

\* The operands read in ID are those of the register file one cycle later; what
\* leaves EX was computed from the registers the groups before it leave.
DataInv ==
    \A i \in Lane :
        /\ id_ex[i].valid =>
              /\ id_ex[i].rs1_data = RegRead(regs, id_ex[i].c.rs1)
              /\ id_ex[i].rs2_data = RegRead(regs, id_ex[i].c.rs2)
              /\ \A j \in Lane : ex_mem[j].c.mem_read /\ ex_mem[j].c.rd # ZERO_REG =>
                                    ex_mem[j].c.rd \notin Sources(id_ex[i].c)
        /\ ex_mem[i].valid =>
              /\ ex_mem[i].rs1_data = RegRead(WrittenRegs, ex_mem[i].c.rs1)
              /\ ex_mem[i].c.rs2 \in Sources(ex_mem[i].c) =>
                    ex_mem[i].rs2_data = RegRead(WrittenRegs, ex_mem[i].c.rs2)
              /\ ex_mem[i].alu_result =
                    ResultOf(ex_mem[i].c, ex_mem[i].pc, ex_mem[i].rs1_data, ex_mem[i].rs2_data)

Inv == TypeInv /\ PathInv /\ PredictionInv /\ DataInv

-----------------------------------------------------------------------------
(* Sets of lanes.                                                           *)

LEMMA Lanes == TypeInv => num_lanes \in Nat \ {0} /\ 0 \in Lane /\ Lane \subseteq Nat
BY SuperscalarAssumption DEF TypeInv, Lane

\* Of the lanes that qualify, Max is one and none is younger.
LEMMA YoungestIs ==
    ASSUME NEW n \in Nat, NEW S \in SUBSET (0..(n - 1)), S # {}
    PROVE  Max(S) \in S /\ \A j \in S : j <= Max(S)
<1> DEFINE T == {n - j : j \in S}
<1>1. T \in SUBSET Nat /\ T # {}
  <2>1. \A j \in S : n - j \in Nat
    OBVIOUS
  <2>2. PICK j : j \in S
    OBVIOUS
  <2>3. n - j \in T
    BY <2>2
  <2> QED BY <2>1, <2>3
<1>2. PICK m \in T : \A k \in T : m <= k
  <2> HIDE DEF T
  <2> QED BY <1>1, LeastElement
<1>3. PICK x \in S : m = n - x
  BY <1>2
<1>4. \A j \in S : x >= j
  BY <1>2, <1>3
<1>5. \E y \in S : \A j \in S : y >= j
  BY <1>4
<1>6. Max(S) \in S /\ \A j \in S : Max(S) >= j
  BY <1>5 DEF Max
<1> QED BY <1>6

LEMMA OldestIs ==
    ASSUME NEW S \in SUBSET Nat, S # {}
    PROVE  Min(S) \in S /\ \A j \in S : Min(S) <= j
<1>1. \E m \in S : \A k \in S : m <= k
  BY LeastElement
<1> QED BY <1>1 DEF Min

-----------------------------------------------------------------------------
(* The combinational values have their types.                               *)

LEMMA ControlFields ==
    ASSUME NEW c \in Control
    PROVE  c.rd \in Reg /\ c.rs1 \in Reg /\ c.rs2 \in Reg /\ c.imm \in Word
BY DEF Control

LEMMA StageFields ==
    ASSUME TypeInv, NEW i \in Lane
    PROVE  /\ if_id[i] \in FetchEntry /\ if_id[i].pc \in Word /\ if_id[i].instr \in Instruction
           /\ id_ex[i] \in DecodeEntry /\ id_ex[i].valid \in BOOLEAN /\ id_ex[i].pc \in Word
           /\ id_ex[i].c \in Control /\ id_ex[i].rs1_data \in Word /\ id_ex[i].rs2_data \in Word
           /\ id_ex[i].predicted \in BOOLEAN
           /\ ex_mem[i] \in ExecuteEntry /\ ex_mem[i].valid \in BOOLEAN /\ ex_mem[i].pc \in Word
           /\ ex_mem[i].c \in Control /\ ex_mem[i].alu_result \in Word
           /\ ex_mem[i].rs1_data \in Word /\ ex_mem[i].rs2_data \in Word
           /\ mem_wb[i].pc \in Word /\ mem_wb[i].c \in Control
           /\ mem_wb[i].alu_result \in Word /\ mem_wb[i].mem_data \in Word
BY DEF TypeInv, FetchEntry, DecodeEntry, ExecuteEntry, MemoryEntry

LEMMA WritersAreLanes ==
    ASSUME TypeInv, NEW entries, NEW r, Writers(entries, r) # {}
    PROVE  Max(Writers(entries, r)) \in Lane
<1>1. Writers(entries, r) \in SUBSET (0..(num_lanes - 1)) /\ num_lanes \in Nat
  BY Lanes DEF Writers, Lane
<1>2. Max(Writers(entries, r)) \in Writers(entries, r)
  BY <1>1, YoungestIs
<1> QED BY <1>2 DEF Writers

LEMMA WbDataType == ASSUME TypeInv, NEW i \in Lane PROVE WbData(i) \in Word
BY StageFields, WriteBackType DEF WbData

LEMMA WrittenType == TypeInv => WrittenRegs \in [Reg -> Word]
<1> SUFFICES ASSUME TypeInv, NEW r \in Reg
             PROVE  (IF Writers(mem_wb, r) = {} THEN regs[r] ELSE WbData(Max(Writers(mem_wb, r)))) \in Word
  BY DEF WrittenRegs
<1>1. regs[r] \in Word
  BY DEF TypeInv
<1>2. Writers(mem_wb, r) # {} => WbData(Max(Writers(mem_wb, r))) \in Word
  BY WritersAreLanes, WbDataType
<1> QED BY <1>1, <1>2

LEMMA MemViewType ==
    ASSUME TypeInv, NEW word \in 0..(MEM_WORDS - 1), NEW lanes \in SUBSET Lane
    PROVE  MemView(word, lanes) \in Word
<1> DEFINE w == {j \in lanes : ex_mem[j].c.mem_write /\ MemIndex(ex_mem[j].alu_result) = word}
<1>1. mem[word] \in Word
  BY DEF TypeInv, Mem
<1>2. ASSUME w # {} PROVE ex_mem[Max(w)].rs2_data \in Word
  <2>1. w \in SUBSET (0..(num_lanes - 1)) /\ num_lanes \in Nat
    BY Lanes DEF Lane
  <2>2. Max(w) \in w
    <3> HIDE DEF w
    <3> QED BY <1>2, <2>1, YoungestIs
  <2>3. Max(w) \in Lane
    BY <2>2
  <2> QED BY <2>3, StageFields
<1> QED BY <1>1, <1>2 DEF MemView

LEMMA ForwardType ==
    ASSUME TypeInv, NEW r, NEW read \in Word
    PROVE  Forward(r, read) \in Word
<1>1. CASE Writers(ex_mem, r) # {}
  BY <1>1, WritersAreLanes, StageFields DEF Forward
<1>2. CASE Writers(ex_mem, r) = {} /\ Writers(mem_wb, r) # {}
  BY <1>2, WritersAreLanes, WbDataType DEF Forward
<1>3. CASE Writers(ex_mem, r) = {} /\ Writers(mem_wb, r) = {}
  BY <1>3 DEF Forward
<1> QED BY <1>1, <1>2, <1>3

LEMMA ValuesType ==
    ASSUME TypeInv
    PROVE  /\ \A i \in Lane : /\ Decoded[i] \in Control
                              /\ Operand1(i) \in Word /\ Operand2(i) \in Word
                              /\ AluResult(i) \in Word /\ Loaded(i) \in Word
           /\ Target \in Word /\ PredictTarget \in Word
           /\ SquashFrom \in 0..num_lanes
<1>1. ASSUME NEW i \in Lane PROVE Decoded[i] \in Control
  BY StageFields, DecodeType DEF Decoded
<1>2. ASSUME NEW i \in Lane PROVE Operand1(i) \in Word /\ Operand2(i) \in Word
  BY StageFields, ForwardType DEF Operand1, Operand2
<1>3. ASSUME NEW i \in Lane PROVE AluResult(i) \in Word
  <2>1. AluResult(i) = ResultOf(id_ex[i].c, id_ex[i].pc, Operand1(i), Operand2(i))
    BY DEF AluResult, ResultOf
  <2> QED BY <1>2, <2>1, StageFields, ResultType
<1>4. ASSUME NEW i \in Lane PROVE Loaded(i) \in Word
  <2>1. 0..(i - 1) \in SUBSET Lane
    BY Lanes DEF Lane
  <2>2. MemIndex(ex_mem[i].alu_result) \in 0..(MEM_WORDS - 1)
    BY StageFields, MemIndexType
  <2> QED BY <2>1, <2>2, MemViewType DEF Loaded
<1>5. Target \in Word
  BY Lanes, StageFields, NextPCType DEF Target
<1>6. PredictTarget \in Word
  <2>1. Decoded[0] \in Control /\ if_id[0].pc \in Word
    BY <1>1, Lanes, StageFields
  <2> QED BY <2>1, ControlFields, AddressType DEF PredictTarget
<1>7. SquashFrom \in 0..num_lanes
  <2> DEFINE S == {num_lanes} \cup Dependent \cup Shadow
  <2>1. Dependent \subseteq Nat
    BY Lanes DEF Dependent
  <2>2. Shadow \subseteq Nat
    BY Lanes DEF Shadow
  <2>3. S \in SUBSET Nat /\ num_lanes \in S /\ S # {}
    BY <2>1, <2>2, Lanes
  <2>4. Min(S) \in S /\ Min(S) <= num_lanes
    <3> HIDE DEF S
    <3> QED BY <2>3, OldestIs
  <2>5. Min(S) \in Nat
    BY <2>3, <2>4
  <2> HIDE DEF S
  <2> QED BY <2>4, <2>5, Lanes DEF SquashFrom, S
<1> QED BY <1>1, <1>2, <1>3, <1>4, <1>5, <1>6, <1>7

-----------------------------------------------------------------------------
(* Type correctness.                                                        *)

LEMMA BubblesType ==
    /\ Bubbles(FetchBubble) \in [Lane -> FetchEntry]
    /\ Bubbles(DecodeBubble) \in [Lane -> DecodeEntry]
    /\ Bubbles(ExecuteBubble) \in [Lane -> ExecuteEntry]
    /\ Bubbles(MemoryBubble) \in [Lane -> MemoryEntry]
    /\ Quiet(DecodeBubble.c) /\ Quiet(ExecuteBubble.c) /\ Quiet(MemoryBubble.c)
<1>1. Quiet(DecodeBubble.c) /\ Quiet(ExecuteBubble.c) /\ Quiet(MemoryBubble.c)
  BY NoControlType DEF DecodeBubble, ExecuteBubble, MemoryBubble
<1> QED BY <1>1, BubbleTypes DEF Bubbles

LEMMA TypeInitial == Init => TypeInv
<1> SUFFICES ASSUME Init PROVE TypeInv
  OBVIOUS
<1>1. regs \in [Reg -> Word] /\ mem \in Mem /\ pc \in Word
  BY InitialType DEF Init
<1>2. \A i \in Lane : Quiet(id_ex[i].c) /\ Quiet(ex_mem[i].c) /\ Quiet(mem_wb[i].c)
  BY BubblesType DEF Init, Bubbles
<1> QED BY <1>1, <1>2, BubblesType DEF Init, TypeInv

LEMMA TypeStep ==
    ASSUME TypeInv, NEW predicted \in BOOLEAN, Cycle(predicted)
    PROVE  TypeInv'
<1>1. UNCHANGED <<num_lanes, program>> /\ Lane' = Lane /\ num_lanes \in Nat \ {0}
  BY Lanes DEF Cycle, Lane
<1>2. pc' \in Word
  <2>1. pc \in Int /\ SquashFrom \in Int /\ num_lanes \in Int
    BY <1>1, ValuesType, WordsType DEF TypeInv, Word
  <2>2. pc - 4 * (num_lanes - SquashFrom) \in Int /\ pc + 4 * num_lanes \in Int
    BY <2>1
  <2>3. Mask(pc - 4 * (num_lanes - SquashFrom)) \in Word /\ Mask(pc + 4 * num_lanes) \in Word
    BY <2>2, MaskType
  <2>4. pc' \in {Target, pc, PredictTarget, Mask(pc - 4 * (num_lanes - SquashFrom)), Mask(pc + 4 * num_lanes)}
    <3>1. CASE Mispredict
      BY <3>1 DEF Cycle, Fetch
    <3>2. CASE ~Mispredict /\ LoadUse
      BY <3>2 DEF Cycle, Fetch
    <3>3. CASE ~Mispredict /\ ~LoadUse /\ predicted
      BY <3>3 DEF Cycle, Fetch
    <3>4. CASE ~Mispredict /\ ~LoadUse /\ ~predicted /\ PartialSquash
      BY <3>4 DEF Cycle, Fetch
    <3>5. CASE ~Mispredict /\ ~LoadUse /\ ~predicted /\ ~PartialSquash
      BY <3>5 DEF Cycle, Fetch
    <3> QED BY <3>1, <3>2, <3>3, <3>4, <3>5
  <2> QED BY <2>3, <2>4, ValuesType DEF TypeInv
<1>3. if_id' \in [Lane -> FetchEntry]
  <2> DEFINE new == [i \in Lane |-> [valid |-> TRUE, pc |-> Mask(pc + 4 * i),
                                     instr |-> Fetched(program, pc + 4 * i), predicted |-> FALSE]]
  <2>1. ASSUME NEW i \in Lane
        PROVE  Mask(pc + 4 * i) \in Word /\ Fetched(program, pc + 4 * i) \in Instruction
    <3>1. pc + 4 * i \in Int
      BY Lanes, WordsType DEF TypeInv, Word
    <3>2. \A w \in DOMAIN program : program[w] \in Instruction
      BY SuperscalarAssumption DEF TypeInv
    <3> QED BY <3>1, <3>2, MaskType, FetchedType
  <2>2. new \in [Lane -> FetchEntry]
    BY <2>1 DEF FetchEntry
  <2>3. if_id' \in {Bubbles(FetchBubble), if_id, new}
    <3>1. CASE Mispredict \/ PartialSquash
      BY <3>1 DEF Cycle, IF_ID
    <3>2. CASE ~Mispredict /\ ~PartialSquash /\ LoadUse
      BY <3>2 DEF Cycle, IF_ID
    <3>3. CASE ~Mispredict /\ ~PartialSquash /\ ~LoadUse /\ predicted
      BY <3>3 DEF Cycle, IF_ID
    <3>4. CASE ~Mispredict /\ ~PartialSquash /\ ~LoadUse /\ ~predicted
      BY <3>4 DEF Cycle, IF_ID
    <3> QED BY <3>1, <3>2, <3>3, <3>4
  <2> HIDE DEF new
  <2> QED BY <2>2, <2>3, BubblesType DEF TypeInv
<1>4. /\ id_ex' \in [Lane -> DecodeEntry]
      /\ \A i \in Lane : ~id_ex'[i].valid => Quiet(id_ex'[i].c)
  <2> DEFINE new(i) == [valid |-> TRUE, pc |-> if_id[i].pc, c |-> Decoded[i],
                        rs1_data |-> RegRead(WrittenRegs, Decoded[i].rs1),
                        rs2_data |-> RegRead(WrittenRegs, Decoded[i].rs2),
                        predicted |-> predicted /\ i = 0]
  <2>1. ASSUME NEW i \in Lane PROVE new(i) \in DecodeEntry /\ new(i).valid
    <3>1. RegRead(WrittenRegs, Decoded[i].rs1) \in Word /\ RegRead(WrittenRegs, Decoded[i].rs2) \in Word
      BY ValuesType, ControlFields, WrittenType, RegReadType
    <3> QED BY <3>1, ValuesType, StageFields DEF DecodeEntry
  <2>2. id_ex' = [i \in Lane |-> IF Mispredict \/ ~LaneValid(i) \/ ~if_id[i].valid THEN DecodeBubble ELSE new(i)]
    BY DEF Cycle, ID_EX
  <2> HIDE DEF new
  <2> QED BY <2>1, <2>2, BubbleTypes, BubblesType
<1>5. /\ ex_mem' \in [Lane -> ExecuteEntry]
      /\ \A i \in Lane : ~ex_mem'[i].valid => Quiet(ex_mem'[i].c)
  <2> DEFINE new(i) == [valid |-> id_ex[i].valid, pc |-> id_ex[i].pc, c |-> id_ex[i].c,
                        alu_result |-> AluResult(i), rs1_data |-> Operand1(i),
                        rs2_data |-> Operand2(i), predicted |-> id_ex[i].predicted]
  <2>1. ASSUME NEW i \in Lane PROVE new(i) \in ExecuteEntry /\ (~new(i).valid => Quiet(new(i).c))
    BY ValuesType, StageFields DEF ExecuteEntry, TypeInv
  <2>2. ex_mem' = [i \in Lane |-> IF Mispredict THEN ExecuteBubble ELSE new(i)]
    BY DEF Cycle, EX_MEM
  <2> HIDE DEF new
  <2> QED BY <2>1, <2>2, BubbleTypes, BubblesType
<1>6. /\ mem_wb' \in [Lane -> MemoryEntry]
      /\ \A i \in Lane : ~mem_wb'[i].valid => Quiet(mem_wb'[i].c)
  <2> DEFINE new(i) == [valid |-> ex_mem[i].valid, pc |-> ex_mem[i].pc, c |-> ex_mem[i].c,
                        alu_result |-> ex_mem[i].alu_result, mem_data |-> Loaded(i)]
  <2>1. ASSUME NEW i \in Lane PROVE new(i) \in MemoryEntry /\ (~new(i).valid => Quiet(new(i).c))
    BY ValuesType, StageFields DEF MemoryEntry, TypeInv
  <2>2. mem_wb' = [i \in Lane |-> new(i)]
    BY DEF Cycle, MEM_WB
  <2> HIDE DEF new
  <2> QED BY <2>1, <2>2
<1>7. regs' \in [Reg -> Word]
  BY WrittenType DEF Cycle
<1>8. mem' \in Mem
  <2>1. mem' = [word \in 0..(MEM_WORDS - 1) |-> MemView(word, Lane)]
    BY DEF Cycle, TypeInv, Mem
  <2> QED BY <2>1, MemViewType DEF Mem
<1> QED BY <1>1, <1>2, <1>3, <1>4, <1>5, <1>6, <1>7, <1>8 DEF TypeInv

LEMMA TypeInvariance == Spec => []TypeInv
<1>1. TypeInv /\ [Next]_vars => TypeInv'
  <2> SUFFICES ASSUME TypeInv, [Next]_vars PROVE TypeInv'
    OBVIOUS
  <2>1. CASE Next
    BY <2>1, TypeStep DEF Next
  <2>2. CASE UNCHANGED vars
    BY <2>2 DEF vars, TypeInv, Lane
  <2> QED BY <2>1, <2>2
<1> QED BY <1>1, TypeInitial, PTL DEF Spec

\* Whatever the programs, the number of lanes and the predictor's answers, every
\* latch of every lane holds values of its width.
THEOREM TypeCorrect == Spec => []TypeOK
<1>1. TypeInv => TypeOK
  <2> SUFFICES ASSUME TypeInv PROVE TypeOK
    OBVIOUS
  <2>1. pc \in Word /\ regs \in [Reg -> Word] /\ mem \in [0..(MEM_WORDS - 1) -> Word]
    BY DEF TypeInv, Mem
  <2> QED BY <2>1, StageFields DEF TypeOK
<1> QED BY <1>1, TypeInvariance, PTL
-----------------------------------------------------------------------------
(* What a cycle does to the stages.                                         *)

\* What ID hands on, and EX.
IssuedEntry(i, predicted) ==
    [valid |-> TRUE, pc |-> if_id[i].pc, c |-> Decoded[i],
     rs1_data |-> RegRead(WrittenRegs, Decoded[i].rs1),
     rs2_data |-> RegRead(WrittenRegs, Decoded[i].rs2),
     predicted |-> predicted /\ i = 0]
ExecutedEntry(i) ==
    [valid |-> id_ex[i].valid, pc |-> id_ex[i].pc, c |-> id_ex[i].c,
     alu_result |-> AluResult(i), rs1_data |-> Operand1(i),
     rs2_data |-> Operand2(i), predicted |-> id_ex[i].predicted]
FreshEntry(i) ==
    [valid |-> TRUE, pc |-> Mask(pc + 4 * i), instr |-> Fetched(program, pc + 4 * i),
     predicted |-> FALSE]

LEMMA Stages ==
    ASSUME TypeInv, NEW predicted \in BOOLEAN, Cycle(predicted)
    PROVE  /\ Lane' = Lane /\ program' = program /\ num_lanes' = num_lanes
           /\ Mispredict => /\ pc' = Target
                            /\ if_id' = Bubbles(FetchBubble)
                            /\ \A i \in Lane : id_ex'[i] = DecodeBubble /\ ex_mem'[i] = ExecuteBubble
           /\ ~Mispredict => \A i \in Lane : ex_mem'[i] = ExecutedEntry(i)
           /\ ~Mispredict /\ LoadUse => /\ pc' = pc /\ if_id' = if_id
                                        /\ \A i \in Lane : id_ex'[i] = DecodeBubble
           /\ ~Mispredict /\ ~LoadUse =>
                 /\ \A i \in Lane : id_ex'[i] = IF i < SquashFrom /\ if_id[i].valid
                                                THEN IssuedEntry(i, predicted) ELSE DecodeBubble
                 /\ pc' = IF predicted THEN PredictTarget
                          ELSE IF SquashFrom < num_lanes THEN Mask(pc - 4 * (num_lanes - SquashFrom))
                          ELSE Mask(pc + 4 * num_lanes)
                 /\ if_id' = IF predicted \/ SquashFrom < num_lanes THEN Bubbles(FetchBubble)
                             ELSE [i \in Lane |-> FreshEntry(i)]
<1>1. Lane' = Lane /\ program' = program /\ num_lanes' = num_lanes
  BY DEF Cycle, Lane
<1>2. /\ ex_mem' = [i \in Lane |-> IF Mispredict THEN ExecuteBubble ELSE ExecutedEntry(i)]
      /\ id_ex' = [i \in Lane |-> IF Mispredict \/ ~LaneValid(i) \/ ~if_id[i].valid THEN DecodeBubble
                                  ELSE IssuedEntry(i, predicted)]
  BY DEF Cycle, EX_MEM, ID_EX, ExecutedEntry, IssuedEntry
<1>3. CASE Mispredict
  BY <1>1, <1>2, <1>3 DEF Cycle, Fetch, IF_ID
<1>4. CASE ~Mispredict /\ LoadUse
  <2>1. pc' = pc /\ if_id' = if_id
    BY <1>4 DEF Cycle, Fetch, IF_ID, PartialSquash
  <2>2. \A i \in Lane : id_ex'[i] = DecodeBubble
    BY <1>2, <1>4 DEF LaneValid
  <2>3. \A i \in Lane : ex_mem'[i] = ExecutedEntry(i)
    BY <1>2, <1>4
  <2> QED BY <1>1, <1>4, <2>1, <2>2, <2>3
<1>5. CASE ~Mispredict /\ ~LoadUse
  <2>1. \A i \in Lane : /\ id_ex'[i] = IF i < SquashFrom /\ if_id[i].valid
                                       THEN IssuedEntry(i, predicted) ELSE DecodeBubble
                        /\ ex_mem'[i] = ExecutedEntry(i)
    BY <1>2, <1>5 DEF LaneValid
  <2>2. CASE predicted
    BY <1>1, <1>5, <2>1, <2>2 DEF Cycle, Fetch, IF_ID
  <2>3. CASE ~predicted /\ SquashFrom < num_lanes
    BY <1>1, <1>5, <2>1, <2>3 DEF Cycle, Fetch, IF_ID, PartialSquash
  <2>4. CASE ~predicted /\ ~(SquashFrom < num_lanes)
    BY <1>1, <1>5, <2>1, <2>4 DEF Cycle, Fetch, IF_ID, PartialSquash, FreshEntry
  <2> QED BY <2>2, <2>3, <2>4
<1> QED BY <1>3, <1>4, <1>5

\* The bubbles are not valid and predict nothing.
LEMMA BubbleFields ==
    /\ \A i \in Lane : Bubbles(FetchBubble)[i] = FetchBubble
    /\ ~FetchBubble.valid /\ FetchBubble.instr = Nop
    /\ ~DecodeBubble.valid /\ ~DecodeBubble.predicted /\ ~DecodeBubble.c.mem_read
    /\ ~ExecuteBubble.valid /\ ~ExecuteBubble.predicted
BY DEF Bubbles, FetchBubble, DecodeBubble, ExecuteBubble, NoControl

\* EX hands on what it got, and its results.
LEMMA Executed ==
    ASSUME TypeInv, NEW predicted \in BOOLEAN, Cycle(predicted), ~Mispredict, NEW i \in Lane
    PROVE  /\ ex_mem'[i].valid = id_ex[i].valid /\ ex_mem'[i].pc = id_ex[i].pc
           /\ ex_mem'[i].c = id_ex[i].c /\ ex_mem'[i].predicted = id_ex[i].predicted
           /\ ex_mem'[i].alu_result = AluResult(i)
           /\ ex_mem'[i].rs1_data = Operand1(i) /\ ex_mem'[i].rs2_data = Operand2(i)
<1>1. ex_mem'[i] = ExecutedEntry(i)
  BY Stages
<1> QED BY <1>1 DEF ExecutedEntry

\* The lanes before the cut need nothing of each other, and a jump is cut off from
\* what is behind it.
LEMMA Cut ==
    ASSUME TypeInv
    PROVE  /\ SquashFrom \in 1..num_lanes
           /\ \A i \in Lane : i < SquashFrom => i \notin Dependent
           /\ \A i \in Lane : i < SquashFrom /\ i > 0 => ~Jumps(Decoded[i])
           /\ Jumps(Decoded[0]) => SquashFrom = 1
<1> DEFINE S == {num_lanes} \cup Dependent \cup Shadow
<1>1. num_lanes \in Nat \ {0} /\ Lane = 0..(num_lanes - 1)
  BY Lanes DEF Lane
<1>2. \A j \in Dependent : j \in Nat /\ j >= 1
  BY <1>1 DEF Dependent
<1>3. \A i \in Lane : Jumps(Decoded[i]) => (IF i = 0 THEN 1 ELSE i) \in Shadow
  BY DEF Shadow, Jumps
<1>4. \A j \in Shadow : j \in Nat /\ j >= 1
  BY <1>1 DEF Shadow
<1>5. S \in SUBSET Nat /\ num_lanes \in S /\ \A j \in S : j >= 1
  BY <1>1, <1>2, <1>4
<1> HIDE DEF S
<1>6. SquashFrom \in S /\ \A j \in S : SquashFrom <= j
  <2>1. Min(S) \in S /\ \A j \in S : Min(S) <= j
    BY <1>5, OldestIs
  <2> QED BY <2>1 DEF SquashFrom, S
<1>7. SquashFrom \in 1..num_lanes
  BY <1>1, <1>5, <1>6
<1>8. \A i \in Lane : i < SquashFrom => i \notin Dependent
  BY <1>1, <1>6, <1>7 DEF S
<1>9. \A i \in Lane : i < SquashFrom /\ i > 0 => ~Jumps(Decoded[i])
  <2> SUFFICES ASSUME NEW i \in Lane, i < SquashFrom, i > 0, Jumps(Decoded[i]) PROVE FALSE
    OBVIOUS
  <2>1. i \in Shadow
    BY <1>1, <1>3
  <2>2. SquashFrom <= i
    BY <1>6, <2>1 DEF S
  <2> QED BY <1>1, <1>7, <2>2
<1>10. ASSUME Jumps(Decoded[0]) PROVE SquashFrom = 1
  <2>1. 1 \in Shadow
    BY <1>1, <1>3, <1>10
  <2>2. SquashFrom <= 1
    BY <1>6, <2>1 DEF S
  <2> QED BY <1>7, <2>2
<1> QED BY <1>7, <1>8, <1>9, <1>10

\* A bubble in ID is neither cut nor predicted.
LEMMA BubbleInDecode ==
    ASSUME TypeInv, FetchedGroup, ~if_id[0].valid
    PROVE  /\ SquashFrom = num_lanes /\ ~Asked
           /\ \A i \in Lane : ~if_id[i].valid
<1>1. num_lanes \in Nat \ {0} /\ 0 \in Lane
  BY Lanes
<1>2. \A i \in Lane : ~if_id[i].valid /\ if_id[i].instr = Nop
  BY <1>1 DEF FetchedGroup
<1>3. \A i \in Lane : Quiet(Decoded[i])
  BY <1>2, NopQuiet, SuperscalarAssumption DEF Decoded
<1>4. Dependent = {}
  <2> SUFFICES ASSUME NEW j \in Lane, NEW i \in 0..(j - 1), Decoded[i].reg_write,
                      Decoded[i].rd # ZERO_REG
               PROVE  FALSE
    BY DEF Dependent
  <2>1. i \in Lane
    BY <1>1 DEF Lane
  <2> QED BY <1>3, <2>1 DEF Quiet
<1>5. Shadow = {}
  BY <1>3 DEF Shadow, Quiet
<1>6. SquashFrom = Min({num_lanes})
  BY <1>4, <1>5 DEF SquashFrom
<1>7. Min({num_lanes}) = num_lanes
  <2>1. {num_lanes} \in SUBSET Nat /\ {num_lanes} # {}
    BY <1>1
  <2>2. Min({num_lanes}) \in {num_lanes}
    BY <2>1, OldestIs
  <2> QED BY <2>2
<1> QED BY <1>1, <1>2, <1>3, <1>6, <1>7 DEF Asked, Quiet

-----------------------------------------------------------------------------
(* The path of instructions.                                                *)

LEMMA FetchStep ==
    ASSUME Inv, NEW predicted \in BOOLEAN, Cycle(predicted)
    PROVE  FetchedGroup'
<1>1. /\ TypeInv /\ FetchedGroup /\ Lane' = Lane /\ program' = program /\ num_lanes' = num_lanes
      /\ 0 \in Lane
  BY Stages, Lanes DEF Inv, PathInv
<1>2. ASSUME if_id' = Bubbles(FetchBubble) PROVE FetchedGroup'
  BY <1>1, <1>2, BubbleFields DEF FetchedGroup
<1>3. ASSUME if_id' = if_id, pc' = pc PROVE FetchedGroup'
  BY <1>1, <1>3 DEF FetchedGroup
<1>4. ASSUME if_id' = [i \in Lane |-> FreshEntry(i)], pc' = Mask(pc + 4 * num_lanes)
      PROVE  FetchedGroup'
  <2>1. pc \in Word /\ pc \in Int /\ pc + 4 * 0 = pc
    BY <1>1, WordsType DEF TypeInv, Word
  <2>2. \A i \in Lane : /\ if_id'[i].valid = TRUE /\ if_id'[i].pc = Mask(pc + 4 * i)
                        /\ if_id'[i].instr = Fetched(program, pc + 4 * i)
    BY <1>4 DEF FreshEntry
  <2>3. if_id'[0].pc = pc
    BY <1>1, <2>1, <2>2, MaskWord
  <2> QED BY <1>1, <1>4, <2>2, <2>3 DEF FetchedGroup
<1>5. CASE Mispredict
  BY <1>1, <1>2, <1>5, Stages
<1>6. CASE ~Mispredict /\ LoadUse
  BY <1>1, <1>3, <1>6, Stages
<1>7. CASE ~Mispredict /\ ~LoadUse
  <2>1. CASE predicted \/ SquashFrom < num_lanes
    BY <1>1, <1>2, <1>7, <2>1, Stages
  <2>2. CASE ~(predicted \/ SquashFrom < num_lanes)
    BY <1>1, <1>4, <1>7, <2>2, Stages
  <2> QED BY <2>1, <2>2
<1> QED BY <1>5, <1>6, <1>7

\* What ID hands on is in order and independent.
LEMMA IssueStep ==
    ASSUME Inv, NEW predicted \in BOOLEAN, Cycle(predicted), ~Mispredict, ~LoadUse,
           NEW i \in Lane, id_ex'[i].valid
    PROVE  /\ i < SquashFrom /\ if_id[0].valid /\ if_id[i].valid
           /\ id_ex'[i] = IssuedEntry(i, predicted)
           /\ id_ex'[i].c = Decoded[i]
           /\ Issues(id_ex, i)'
<1>1. /\ TypeInv /\ FetchedGroup /\ Lane' = Lane /\ program' = program
      /\ 0 \in Lane /\ num_lanes \in Nat \ {0} /\ Lane = 0..(num_lanes - 1) /\ SquashFrom \in 1..num_lanes
  BY Stages, Lanes, Cut DEF Inv, PathInv, Lane
<1>2. \A j \in Lane : id_ex'[j] = IF j < SquashFrom /\ if_id[j].valid THEN IssuedEntry(j, predicted)
                                  ELSE DecodeBubble
  BY <1>1, Stages
<1>3. i < SquashFrom /\ if_id[i].valid
  BY <1>2, BubbleFields
<1>4. if_id[0].valid /\ \A j \in Lane : if_id[j].valid
  BY <1>1, <1>3 DEF FetchedGroup
<1>5. \A j \in Lane : j <= i => /\ id_ex'[j] = IssuedEntry(j, predicted)
                                /\ id_ex'[j].valid /\ id_ex'[j].c = Decoded[j] /\ id_ex'[j].pc = if_id[j].pc
  <2> SUFFICES ASSUME NEW j \in Lane, j <= i
               PROVE  /\ id_ex'[j] = IssuedEntry(j, predicted)
                      /\ id_ex'[j].valid /\ id_ex'[j].c = Decoded[j] /\ id_ex'[j].pc = if_id[j].pc
    OBVIOUS
  <2>1. j < SquashFrom
    BY <1>1, <1>3
  <2>2. id_ex'[j] = IssuedEntry(j, predicted)
    BY <1>2, <1>4, <2>1
  <2> QED BY <2>2 DEF IssuedEntry
<1>6. id_ex'[0].pc = if_id[0].pc /\ id_ex'[i].c = Decoded[i] /\ id_ex'[i].pc = if_id[i].pc
  BY <1>1, <1>5
<1>7. Decoded[i] = Decode(Fetched(program, if_id[0].pc + 4 * i)) /\ if_id[i].pc = Mask(if_id[0].pc + 4 * i)
  BY <1>1, <1>4 DEF FetchedGroup, Decoded
<1>8. i > 0 => ~Jumps(Decoded[i])
  BY <1>1, <1>3, Cut
<1>9. ASSUME NEW j \in 0..(i - 1)
      PROVE  /\ j \in Lane /\ id_ex'[j].valid /\ id_ex'[j].c = Decoded[j] /\ ~Jumps(Decoded[j])
             /\ Decoded[j].reg_write /\ Decoded[j].rd # ZERO_REG =>
                   Decoded[j].rd \notin Sources(Decoded[i])
  <2>1. j \in Lane /\ j <= i /\ j < SquashFrom /\ i >= 1
    BY <1>1, <1>3
  <2>2. ~Jumps(Decoded[j])
    <3>1. CASE j = 0
      <4>1. ~(SquashFrom = 1)
        BY <1>1, <1>3, <2>1
      <4> QED BY <1>1, <3>1, <4>1, Cut
    <3>2. CASE j # 0
      BY <1>1, <2>1, <3>2, Cut
    <3> QED BY <3>1, <3>2
  <2>3. i \notin Dependent
    BY <1>1, <1>3, Cut
  <2> QED BY <1>5, <2>1, <2>2, <2>3 DEF Dependent
<1>10. Issues(id_ex, i)'
  <2>1. id_ex'[i].c = Decode(Fetched(program', id_ex'[0].pc + 4 * i))
    BY <1>1, <1>6, <1>7
  <2>2. id_ex'[i].pc = Mask(id_ex'[0].pc + 4 * i)
    BY <1>6, <1>7
  <2>3. i > 0 => ~Jumps(id_ex'[i].c)
    BY <1>6, <1>8
  <2>4. \A j \in 0..(i - 1) :
          /\ id_ex'[j].valid
          /\ ~Jumps(id_ex'[j].c)
          /\ id_ex'[j].c.reg_write /\ id_ex'[j].c.rd # ZERO_REG => id_ex'[j].c.rd \notin Sources(id_ex'[i].c)
    BY <1>6, <1>9
  <2> QED BY <2>1, <2>2, <2>3, <2>4 DEF Issues
<1> QED BY <1>1, <1>3, <1>4, <1>5, <1>10

\* Nothing is predicted on behalf of a bubble.
LEMMA AskedInDecode ==
    ASSUME Inv, Asked
    PROVE  if_id[0].valid /\ Steers(Decoded[0]) /\ SquashFrom = 1
BY BubbleInDecode, Cut DEF Inv, PathInv, Asked, Steers, Jumps

\* The last instruction that ID hands on goes on at the front.
LEMMA LastStep ==
    ASSUME Inv, NEW predicted \in BOOLEAN, predicted => Asked, Cycle(predicted), ~Mispredict, ~LoadUse,
           NEW i \in Lane, Last(id_ex, i)'
    PROVE  FrontPC' = Follower(id_ex[i])'
<1>1. /\ TypeInv /\ FetchedGroup /\ Lane' = Lane /\ program' = program
      /\ 0 \in Lane /\ num_lanes \in Nat \ {0} /\ Lane = 0..(num_lanes - 1) /\ SquashFrom \in 1..num_lanes
  BY Stages, Lanes, Cut DEF Inv, PathInv, Lane
<1>2. id_ex'[i].valid /\ (i + 1 \in Lane => ~id_ex'[i + 1].valid)
  BY <1>1 DEF Last
<1>3. /\ i < SquashFrom /\ if_id[0].valid /\ if_id[i].valid
      /\ id_ex'[i] = IssuedEntry(i, predicted)
  BY <1>2, IssueStep
<1>4. i = SquashFrom - 1
  <2> SUFFICES ASSUME i + 1 < SquashFrom PROVE FALSE
    BY <1>1, <1>3
  <2>1. i + 1 \in Lane
    BY <1>1
  <2>2. id_ex'[i + 1] = IssuedEntry(i + 1, predicted)
    <3>1. if_id[i + 1].valid
      BY <1>1, <1>3, <2>1 DEF FetchedGroup
    <3> QED BY <1>1, <2>1, <3>1, Stages
  <2> QED BY <1>2, <2>1, <2>2 DEF IssuedEntry
<1>5. /\ id_ex'[i].pc = if_id[i].pc /\ id_ex'[i].c = Decoded[i]
      /\ id_ex'[i].predicted = (predicted /\ i = 0)
  BY <1>3 DEF IssuedEntry
<1>6. PICK b \in Int : /\ b = if_id[0].pc /\ if_id[i].pc = Mask(b + 4 * i)
                      /\ pc = Mask(b + 4 * num_lanes) /\ pc \in Word
  <2>1. if_id[0].pc \in Word /\ pc \in Word
    BY <1>1, StageFields DEF TypeInv
  <2>2. if_id[i].pc = Mask(if_id[0].pc + 4 * i) /\ pc = Mask(if_id[0].pc + 4 * num_lanes)
    BY <1>1, <1>3 DEF FetchedGroup
  <2>3. if_id[0].pc \in Int
    BY <2>1, WordsType DEF Word
  <2> QED BY <2>1, <2>2, <2>3
<1>7. CASE predicted
  <2>1. SquashFrom = 1 /\ if_id' = Bubbles(FetchBubble) /\ pc' = PredictTarget
    BY <1>1, <1>7, AskedInDecode, Stages
  <2>2. i = 0
    BY <1>1, <1>4, <2>1
  <2>3. ~if_id'[0].valid
    BY <1>1, <2>1, BubbleFields
  <2> QED BY <1>5, <1>7, <2>1, <2>2, <2>3 DEF FrontPC, Follower, PredictTarget
<1>8. CASE ~predicted
  <2>1. Follower(id_ex[i])' = Mask(if_id[i].pc + 4)
    BY <1>5, <1>8 DEF Follower
  <2>2. Mask(if_id[i].pc + 4) = Mask(b + 4 * SquashFrom)
    <3>1. PICK x \in Int : x = b + 4 * i
      BY <1>1, <1>6
    <3>2. Mask(Mask(x) + 4) = Mask(x + 4)
      BY MaskSum
    <3>3. x + 4 = b + 4 * SquashFrom
      BY <1>1, <1>4, <1>6, <3>1
    <3> QED BY <1>6, <3>1, <3>2, <3>3
  <2>3. CASE SquashFrom < num_lanes
    <3>1. if_id' = Bubbles(FetchBubble) /\ pc' = Mask(pc - 4 * (num_lanes - SquashFrom))
      BY <1>1, <1>8, <2>3, Stages
    <3>2. FrontPC' = pc'
      BY <1>1, <3>1, BubbleFields DEF FrontPC
    <3>3. PICK x \in Int, y \in Int : x = b + 4 * num_lanes /\ y = -(4 * (num_lanes - SquashFrom))
      BY <1>1, <1>6
    <3>4. Mask(Mask(x) + y) = Mask(x + y)
      BY MaskSum
    <3>5. x + y = b + 4 * SquashFrom
      BY <1>1, <1>6, <3>3
    <3>6. pc - 4 * (num_lanes - SquashFrom) = pc + y
      BY <1>1, <1>6, <3>3, WordsType DEF Word
    <3> QED BY <1>6, <2>1, <2>2, <3>1, <3>2, <3>3, <3>4, <3>5, <3>6
  <2>4. CASE ~(SquashFrom < num_lanes)
    <3>1. SquashFrom = num_lanes
      BY <1>1, <2>4
    <3>2. if_id' = [j \in Lane |-> FreshEntry(j)]
      BY <1>1, <1>8, <2>4, Stages
    <3>3. if_id'[0].valid /\ if_id'[0].pc = Mask(pc + 4 * 0)
      BY <1>1, <3>2 DEF FreshEntry
    <3>4. Mask(pc + 4 * 0) = pc
      <4>1. pc + 4 * 0 = pc
        BY <1>6, WordsType DEF Word
      <4> QED BY <1>6, <4>1, MaskWord
    <3> QED BY <1>6, <2>1, <2>2, <3>1, <3>3, <3>4 DEF FrontPC
  <2> QED BY <2>3, <2>4
<1> QED BY <1>7, <1>8

\* Without a redirect the group in ID, or the one behind it, is the next in EX.
LEMMA IssueAdvances ==
    ASSUME Inv, NEW predicted \in BOOLEAN, predicted => Asked, Cycle(predicted), ~Mispredict
    PROVE  IssuePC' = FrontPC
<1>1. TypeInv /\ FetchedGroup /\ 0 \in Lane /\ SquashFrom \in 1..num_lanes /\ pc \in Word
  BY Lanes, Cut DEF Inv, PathInv, TypeInv
<1>2. CASE LoadUse
  <2>1. pc' = pc /\ if_id' = if_id /\ ~id_ex'[0].valid
    BY <1>1, <1>2, Stages, BubbleFields
  <2> QED BY <2>1 DEF IssuePC, FrontPC
<1>3. CASE ~LoadUse /\ if_id[0].valid
  <2>1. id_ex'[0] = IssuedEntry(0, predicted)
    BY <1>1, <1>3, Stages
  <2> QED BY <1>3, <2>1 DEF IssuePC, FrontPC, IssuedEntry
<1>4. CASE ~LoadUse /\ ~if_id[0].valid
  <2>1. ~predicted /\ SquashFrom = num_lanes
    BY <1>1, <1>4, BubbleInDecode
  <2>2. if_id' = [j \in Lane |-> FreshEntry(j)] /\ ~id_ex'[0].valid
    BY <1>1, <1>4, <2>1, Stages, BubbleFields, Lanes
  <2>3. if_id'[0].valid /\ if_id'[0].pc = Mask(pc + 4 * 0)
    BY <1>1, <2>2 DEF FreshEntry
  <2>4. pc + 4 * 0 = pc
    BY <1>1, WordsType DEF Word
  <2> QED BY <1>1, <1>4, <2>2, <2>3, <2>4, MaskWord DEF IssuePC, FrontPC
<1> QED BY <1>2, <1>3, <1>4

LEMMA PathStep ==
    ASSUME Inv, NEW predicted \in BOOLEAN, predicted => Asked, Cycle(predicted)
    PROVE  PathInv'
<1>1. /\ TypeInv /\ PathInv /\ Lane' = Lane /\ program' = program
  BY Stages DEF Inv
<1>2. CASE Mispredict
  <2>1. \A i \in Lane : ~id_ex'[i].valid /\ ~ex_mem'[i].valid
    BY <1>1, <1>2, Stages, BubbleFields
  <2> QED BY <1>1, <2>1, FetchStep DEF PathInv, Last
<1>3. CASE ~Mispredict
  <2>1. \A i \in Lane : id_ex'[i].valid => Issues(id_ex, i)'
    <3>1. CASE LoadUse
      BY <1>1, <1>3, <3>1, Stages, BubbleFields
    <3>2. CASE ~LoadUse
      BY <1>3, <3>2, IssueStep
    <3> QED BY <3>1, <3>2
  <2>2. \A i \in Lane : Last(id_ex, i)' => FrontPC' = Follower(id_ex[i])'
    <3>1. CASE LoadUse
      BY <1>1, <1>3, <3>1, Stages, BubbleFields DEF Last
    <3>2. CASE ~LoadUse
      BY <1>3, <3>2, LastStep
    <3> QED BY <3>1, <3>2
  <2>3. \A i \in Lane : /\ ex_mem'[i].valid = id_ex[i].valid /\ ex_mem'[i].pc = id_ex[i].pc
                        /\ ex_mem'[i].c = id_ex[i].c /\ ex_mem'[i].predicted = id_ex[i].predicted
    BY <1>1, <1>3, Executed
  <2>4. ASSUME NEW i \in Lane, ex_mem'[i].valid PROVE Issues(ex_mem, i)'
    <3>1. Issues(id_ex, i)
      BY <1>1, <2>3, <2>4 DEF PathInv
    <3>2. 0 \in Lane /\ 0..(i - 1) \subseteq Lane
      BY <1>1, Lanes DEF Lane
    <3> QED BY <1>1, <2>3, <3>1, <3>2 DEF Issues
  <2>5. ASSUME NEW i \in Lane, Last(ex_mem, i)' PROVE IssuePC' = Follower(ex_mem[i])'
    <3>1. Last(id_ex, i)
      BY <1>1, <2>3, <2>5 DEF Last
    <3>2. FrontPC = Follower(id_ex[i])
      BY <1>1, <3>1 DEF PathInv
    <3>3. Follower(ex_mem[i])' = Follower(id_ex[i])
      BY <2>3 DEF Follower
    <3> QED BY <1>3, <3>2, <3>3, IssueAdvances
  <2> QED BY <1>1, <2>1, <2>2, <2>4, <2>5, FetchStep DEF PathInv
<1> QED BY <1>2, <1>3

LEMMA PredictionStep ==
    ASSUME Inv, NEW predicted \in BOOLEAN, predicted => Asked, Cycle(predicted)
    PROVE  PredictionInv'
<1>1. /\ TypeInv /\ PredictionInv /\ Lane' = Lane /\ 0 \in Lane
  BY Stages, Lanes DEF Inv
<1>2. CASE Mispredict
  <2>1. \A i \in Lane : ~id_ex'[i].predicted /\ ~ex_mem'[i].predicted
    BY <1>1, <1>2, Stages, BubbleFields
  <2> QED BY <1>1, <2>1 DEF PredictionInv
<1>3. CASE ~Mispredict
  <2>1. \A i \in Lane : ex_mem'[i].c = id_ex[i].c /\ ex_mem'[i].predicted = id_ex[i].predicted
    BY <1>1, <1>3, Executed
  <2>2. CASE LoadUse
    <3>1. \A i \in Lane : ~id_ex'[i].valid /\ ~id_ex'[i].predicted
      BY <1>1, <1>3, <2>2, Stages, BubbleFields
    <3> QED BY <1>1, <2>1, <3>1 DEF PredictionInv
  <2>3. CASE ~LoadUse
    <3>1. \A i \in Lane : id_ex'[i] = IF i < SquashFrom /\ if_id[i].valid
                                      THEN IssuedEntry(i, predicted) ELSE DecodeBubble
      BY <1>1, <1>3, <2>3, Stages
    <3>2. ASSUME NEW i \in Lane, id_ex'[i].predicted
          PROVE  i = 0 /\ Steers(id_ex'[i].c) /\ ~if_id'[0].valid
      <4>1. id_ex'[i] = IssuedEntry(i, predicted) /\ predicted /\ i = 0
        <5>1. id_ex'[i] = IssuedEntry(i, predicted)
          BY <3>1, <3>2, BubbleFields
        <5>2. IssuedEntry(i, predicted).predicted = (predicted /\ i = 0)
          BY DEF IssuedEntry
        <5> QED BY <3>2, <5>1, <5>2
      <4>2. if_id' = Bubbles(FetchBubble)
        BY <1>1, <1>3, <2>3, <4>1, Stages
      <4> QED BY <1>1, <4>1, <4>2, AskedInDecode, BubbleFields DEF IssuedEntry
    <3>3. ASSUME NEW i \in Lane, ex_mem'[i].predicted
          PROVE  i = 0 /\ Steers(ex_mem'[i].c) /\ ~id_ex'[0].valid
      <4>1. i = 0 /\ Steers(ex_mem'[i].c) /\ ~if_id[0].valid
        BY <1>1, <2>1, <3>3 DEF PredictionInv
      <4> QED BY <1>1, <3>1, <4>1, BubbleFields
    <3> QED BY <1>1, <3>2, <3>3 DEF PredictionInv
  <2> QED BY <2>2, <2>3
<1> QED BY <1>2, <1>3

-----------------------------------------------------------------------------
(* Values.                                                                  *)

\* What a lane in MEM writes back, and registers and memory behind the first n of
\* its lanes.
Result(i) == WriteBack(ex_mem[i].c, ex_mem[i].alu_result, Loaded(i), ex_mem[i].pc)
Behind(r, n) == {j \in Writers(ex_mem, r) : j < n}
RegsAfter(n) ==
    [r \in Reg |-> IF Behind(r, n) = {} THEN WrittenRegs[r] ELSE Result(Max(Behind(r, n)))]
MemAfter(n) == [word \in 0..(MEM_WORDS - 1) |-> MemView(word, 0..(n - 1))]

LEMMA BehindIs ==
    ASSUME TypeInv, NEW r, NEW n \in Nat
    PROVE  /\ Behind(r, n) \subseteq Lane
           /\ Behind(r, n) # {} => /\ Max(Behind(r, n)) \in Behind(r, n)
                                   /\ \A j \in Behind(r, n) : j <= Max(Behind(r, n))
<1>1. num_lanes \in Nat /\ Lane = 0..(num_lanes - 1)
  BY Lanes DEF Lane
<1>2. Behind(r, n) \in SUBSET (0..(num_lanes - 1))
  BY <1>1 DEF Behind, Writers
<1> QED BY <1>1, <1>2, YoungestIs

LEMMA AllBehind ==
    ASSUME TypeInv, NEW r
    PROVE  Behind(r, num_lanes) = Writers(ex_mem, r)
BY Lanes DEF Behind, Writers, Lane

\* What leaves MEM is written.
LEMMA WrittenNext ==
    ASSUME TypeInv, NEW predicted \in BOOLEAN, Cycle(predicted)
    PROVE  /\ regs' = WrittenRegs
           /\ WrittenRegs' = RegsAfter(num_lanes)
           /\ mem' = MemAfter(num_lanes)
<1>1. Lane' = Lane /\ num_lanes \in Nat /\ Lane = 0..(num_lanes - 1)
  BY Stages, Lanes DEF Lane
<1>2. regs' = WrittenRegs
  BY DEF Cycle
<1>3. \A j \in Lane : /\ mem_wb'[j].c = ex_mem[j].c /\ mem_wb'[j].alu_result = ex_mem[j].alu_result
                      /\ mem_wb'[j].mem_data = Loaded(j) /\ mem_wb'[j].pc = ex_mem[j].pc
  BY DEF Cycle, MEM_WB
<1>4. \A r : Writers(mem_wb, r)' = Writers(ex_mem, r)
  BY <1>1, <1>3 DEF Writers
<1>5. \A j \in Lane : WbData(j)' = Result(j)
  BY <1>1, <1>3 DEF WbData, Result
<1>6. \A r : Writers(ex_mem, r) # {} => Max(Writers(ex_mem, r)) \in Lane
  BY WritersAreLanes
<1>7. ASSUME NEW r \in Reg
      PROVE  WrittenRegs[r]' = IF Behind(r, num_lanes) = {} THEN WrittenRegs[r]
                               ELSE Result(Max(Behind(r, num_lanes)))
  <2>1. PICK w : w = Writers(ex_mem, r)
    OBVIOUS
  <2>2. Writers(mem_wb, r)' = w
    BY <1>4, <2>1
  <2>3. WrittenRegs[r]' = IF w = {} THEN regs'[r] ELSE WbData(Max(w))'
    BY <2>2 DEF WrittenRegs
  <2> QED BY <1>2, <1>5, <1>6, <2>1, <2>3, AllBehind
<1>8. WrittenRegs' = RegsAfter(num_lanes)
  <2>1. WrittenRegs' = [r \in Reg |-> WrittenRegs[r]']
    BY DEF WrittenRegs
  <2> QED BY <1>7, <2>1 DEF RegsAfter
<1>9. mem' = MemAfter(num_lanes)
  BY <1>1 DEF Cycle, TypeInv, Mem, MemAfter
<1> QED BY <1>2, <1>8, <1>9

\* The classes of the instruction in a lane.
LEMMA ControlClasses ==
    ASSUME TypeInv, PathInv, NEW i \in Lane, NEW c,
           \/ ex_mem[i].valid /\ c = ex_mem[i].c
           \/ id_ex[i].valid /\ c = id_ex[i].c
    PROVE  /\ \E f \in Instruction : c = Decode(f)
           /\ c.mem_read => ~c.mem_write /\ c.reg_write
           /\ c.mem_read <=> c.wb_sel = "MEMORY"
           /\ c.mem_write => ~c.reg_write
           /\ c.branch => ~c.reg_write /\ ~c.jal /\ ~c.jalr
           /\ c.jal \/ c.jalr <=> c.wb_sel = "PC4"
           /\ ~(c.jal /\ c.jalr)
<1>1. PICK a : c = Decode(Fetched(program, a))
  BY DEF PathInv, Issues
<1>2. Fetched(program, a) \in Instruction
  <2>1. \A w \in DOMAIN program : program[w] \in Instruction
    BY SuperscalarAssumption DEF TypeInv
  <2> QED BY <2>1, FetchedType
<1> QED BY <1>1, <1>2, DecodeClasses

\* A jump in MEM that was predicted right has nothing behind it in EX.
LEMMA JumpInMem ==
    ASSUME Inv, ~Mispredict, NEW j \in Lane, ex_mem[j].valid, ex_mem[j].c.jal \/ ex_mem[j].c.jalr
    PROVE  \A i \in Lane : ~id_ex[i].valid
<1>1. TypeInv /\ PathInv /\ PredictionInv /\ 0 \in Lane /\ Lane \subseteq Nat
  BY Lanes DEF Inv
<1>2. j = 0
  BY <1>1 DEF PathInv, Issues, Jumps
<1>3. Taken /\ IsControl
  BY <1>2 DEF Taken, Redirects, IsControl
<1>4. ex_mem[0].predicted
  <2>1. ex_mem[0].predicted \in BOOLEAN /\ Taken \in BOOLEAN
    BY <1>1 DEF TypeInv, ExecuteEntry, Taken, Redirects
  <2> QED BY <1>3, <2>1 DEF Mispredict
<1>5. ~id_ex[0].valid
  BY <1>1, <1>4 DEF PredictionInv
<1> QED BY <1>1, <1>5 DEF PathInv, Issues

\* EX gets what the register file will hold when the group in MEM is done.
LEMMA ForwardCommitted ==
    ASSUME Inv, ~Mispredict, NEW i \in Lane, id_ex[i].valid, NEW r \in Reg, r \in Sources(id_ex[i].c)
    PROVE  Forward(r, RegRead(regs, r)) = RegRead(RegsAfter(num_lanes), r)
<1>1. TypeInv /\ PathInv /\ DataInv /\ num_lanes \in Nat
  BY Lanes DEF Inv
<1>2. CASE r = ZERO_REG
  <2>1. Writers(ex_mem, r) = {} /\ Writers(mem_wb, r) = {}
    BY <1>2 DEF Writers
  <2> QED BY <1>2, <2>1 DEF Forward, RegRead
<1>3. CASE r # ZERO_REG /\ Writers(ex_mem, r) # {}
  <2>1. PICK j \in Lane : j = Max(Writers(ex_mem, r)) /\ j \in Writers(ex_mem, r)
    <3>1. Behind(r, num_lanes) = Writers(ex_mem, r)
      BY <1>1, AllBehind
    <3>2. Max(Writers(ex_mem, r)) \in Writers(ex_mem, r) /\ Writers(ex_mem, r) \subseteq Lane
      BY <1>1, <1>3, <3>1, BehindIs
    <3> QED BY <3>2
  <2>2. ex_mem[j].c.reg_write /\ ex_mem[j].c.rd = r
    BY <2>1 DEF Writers
  <2>3. ex_mem[j].valid
    BY <1>1, <1>3, <2>2 DEF TypeInv, Quiet
  <2>4. ~ex_mem[j].c.mem_read
    BY <1>1, <1>3, <2>2 DEF DataInv
  <2>5. ~ex_mem[j].c.jal /\ ~ex_mem[j].c.jalr
    BY <2>3, JumpInMem
  <2>6. ex_mem[j].c.wb_sel = "ALU"
    <3>1. ex_mem[j].c \in Control
      BY <1>1, StageFields
    <3>2. ex_mem[j].c.wb_sel \in {"ALU", "MEMORY", "PC4"}
      BY <3>1 DEF Control
    <3>3. ex_mem[j].c.wb_sel # "MEMORY" /\ ex_mem[j].c.wb_sel # "PC4"
      BY <1>1, <2>3, <2>4, <2>5, ControlClasses
    <3> QED BY <3>2, <3>3
  <2>7. Result(j) = ex_mem[j].alu_result
    BY <2>6 DEF Result, WriteBack
  <2>8. Forward(r, RegRead(regs, r)) = ex_mem[j].alu_result
    BY <1>3, <2>1 DEF Forward
  <2>9. RegsAfter(num_lanes)[r] = Result(j)
    BY <1>1, <1>3, <2>1, AllBehind DEF RegsAfter
  <2> QED BY <1>3, <2>7, <2>8, <2>9 DEF RegRead
<1>4. CASE r # ZERO_REG /\ Writers(ex_mem, r) = {}
  <2>1. RegsAfter(num_lanes)[r] = WrittenRegs[r]
    BY <1>1, <1>4, AllBehind DEF RegsAfter
  <2>2. WrittenRegs[r] = IF Writers(mem_wb, r) = {} THEN regs[r] ELSE WbData(Max(Writers(mem_wb, r)))
    BY DEF WrittenRegs
  <2>3. CASE Writers(mem_wb, r) = {}
    BY <1>4, <2>1, <2>2, <2>3 DEF Forward, RegRead
  <2>4. CASE Writers(mem_wb, r) # {}
    BY <1>4, <2>1, <2>2, <2>4 DEF Forward, RegRead
  <2> QED BY <2>3, <2>4
<1> QED BY <1>2, <1>3, <1>4

LEMMA DataStep ==
    ASSUME Inv, NEW predicted \in BOOLEAN, predicted => Asked, Cycle(predicted)
    PROVE  DataInv'
<1>1. /\ TypeInv /\ PathInv /\ DataInv /\ Lane' = Lane
      /\ regs' = WrittenRegs /\ WrittenRegs' = RegsAfter(num_lanes)
  BY Stages, WrittenNext DEF Inv
<1>2. CASE Mispredict
  <2>1. \A i \in Lane : ~id_ex'[i].valid /\ ~ex_mem'[i].valid
    BY <1>1, <1>2, Stages, BubbleFields
  <2> QED BY <1>1, <2>1 DEF DataInv
<1>3. CASE ~Mispredict
  <2>1. ASSUME NEW i \in Lane, id_ex'[i].valid
        PROVE  /\ id_ex'[i].rs1_data = RegRead(regs', id_ex'[i].c.rs1)
               /\ id_ex'[i].rs2_data = RegRead(regs', id_ex'[i].c.rs2)
               /\ \A j \in Lane : ex_mem'[j].c.mem_read /\ ex_mem'[j].c.rd # ZERO_REG =>
                                     ex_mem'[j].c.rd \notin Sources(id_ex'[i].c)
    <3>1. ~LoadUse
      BY <1>1, <1>3, <2>1, Stages, BubbleFields
    <3>2. id_ex'[i] = IssuedEntry(i, predicted) /\ id_ex'[i].c = Decoded[i]
      BY <1>3, <2>1, <3>1, IssueStep
    <3>3. /\ id_ex'[i].rs1_data = RegRead(WrittenRegs, Decoded[i].rs1)
          /\ id_ex'[i].rs2_data = RegRead(WrittenRegs, Decoded[i].rs2)
      BY <3>2 DEF IssuedEntry
    <3>4. \A j \in Lane : ex_mem'[j].c = id_ex[j].c
      BY <1>1, <1>3, Executed
    <3> QED BY <1>1, <3>1, <3>2, <3>3, <3>4 DEF LoadUse
  <2>2. ASSUME NEW i \in Lane, ex_mem'[i].valid
        PROVE  /\ ex_mem'[i].rs1_data = RegRead(WrittenRegs', ex_mem'[i].c.rs1)
               /\ ex_mem'[i].c.rs2 \in Sources(ex_mem'[i].c) =>
                     ex_mem'[i].rs2_data = RegRead(WrittenRegs', ex_mem'[i].c.rs2)
               /\ ex_mem'[i].alu_result =
                     ResultOf(ex_mem'[i].c, ex_mem'[i].pc, ex_mem'[i].rs1_data, ex_mem'[i].rs2_data)
    <3>1. /\ ex_mem'[i].c = id_ex[i].c /\ ex_mem'[i].pc = id_ex[i].pc /\ id_ex[i].valid
          /\ ex_mem'[i].alu_result = AluResult(i)
          /\ ex_mem'[i].rs1_data = Operand1(i) /\ ex_mem'[i].rs2_data = Operand2(i)
      BY <1>1, <1>3, <2>2, Executed
    <3>2. /\ id_ex[i].rs1_data = RegRead(regs, id_ex[i].c.rs1)
          /\ id_ex[i].rs2_data = RegRead(regs, id_ex[i].c.rs2)
      BY <1>1, <3>1 DEF DataInv
    <3>3. id_ex[i].c.rs1 \in Reg /\ id_ex[i].c.rs2 \in Reg /\ id_ex[i].c.rs1 \in Sources(id_ex[i].c)
      BY <1>1, StageFields, ControlFields DEF Sources
    <3>4. Operand1(i) = RegRead(WrittenRegs', id_ex[i].c.rs1)
      BY <1>1, <1>3, <3>1, <3>2, <3>3, ForwardCommitted DEF Operand1
    <3>5. id_ex[i].c.rs2 \in Sources(id_ex[i].c) => Operand2(i) = RegRead(WrittenRegs', id_ex[i].c.rs2)
      BY <1>1, <1>3, <3>1, <3>2, <3>3, ForwardCommitted DEF Operand2
    <3>6. AluResult(i) = ResultOf(id_ex[i].c, id_ex[i].pc, Operand1(i), Operand2(i))
      BY DEF AluResult, ResultOf
    <3> QED BY <3>1, <3>4, <3>5, <3>6
  <2> QED BY <1>1, <2>1, <2>2 DEF DataInv
<1> QED BY <1>2, <1>3

LEMMA InvInitial == Init => Inv
<1> SUFFICES ASSUME Init PROVE Inv
  OBVIOUS
<1>1. TypeInv /\ 0 \in Lane
  BY TypeInitial, Lanes
<1>2. /\ \A i \in Lane : /\ if_id[i].valid = FALSE /\ if_id[i].instr = Nop
                         /\ ~id_ex[i].valid /\ ~ex_mem[i].valid
                         /\ ~id_ex[i].predicted /\ ~ex_mem[i].predicted
  BY DEF Init, Bubbles, FetchBubble, DecodeBubble, ExecuteBubble
<1>3. FetchedGroup
  BY <1>1, <1>2 DEF FetchedGroup
<1> QED BY <1>1, <1>2, <1>3 DEF Inv, PathInv, Last, PredictionInv, DataInv

LEMMA InvStep == Inv /\ [Next]_vars => Inv'
<1> SUFFICES ASSUME Inv, [Next]_vars PROVE Inv'
  OBVIOUS
<1>1. CASE Next
  <2>1. PICK predicted \in BOOLEAN : (predicted => Asked) /\ Cycle(predicted)
    BY <1>1 DEF Next
  <2>2. TypeInv'
    BY <2>1, TypeStep DEF Inv
  <2>3. PathInv' /\ PredictionInv' /\ DataInv'
    BY <2>1, PathStep, PredictionStep, DataStep
  <2> QED BY <2>2, <2>3 DEF Inv
<1>2. CASE UNCHANGED vars
  <2>1. UNCHANGED <<num_lanes, program, pc, if_id, id_ex, ex_mem, mem_wb, regs, mem>>
    BY <1>2 DEF vars
  <2>2. Lane' = Lane /\ WrittenRegs' = WrittenRegs
    BY <2>1 DEF Lane, WrittenRegs, Writers, WbData
  <2>3. TypeInv' /\ FetchedGroup' /\ PredictionInv' /\ DataInv'
    BY <2>1, <2>2 DEF Inv, TypeInv, PathInv, FetchedGroup, PredictionInv, DataInv
  <2>4. \A i \in Lane : /\ Issues(id_ex, i)' <=> Issues(id_ex, i)
                        /\ Issues(ex_mem, i)' <=> Issues(ex_mem, i)
                        /\ Last(id_ex, i)' <=> Last(id_ex, i)
                        /\ Last(ex_mem, i)' <=> Last(ex_mem, i)
                        /\ Follower(id_ex[i])' = Follower(id_ex[i])
                        /\ Follower(ex_mem[i])' = Follower(ex_mem[i])
    BY <2>1, <2>2 DEF Issues, Last, Follower
  <2>5. IssuePC' = IssuePC /\ FrontPC' = FrontPC
    BY <2>1 DEF IssuePC, FrontPC
  <2> QED BY <2>1, <2>2, <2>3, <2>4, <2>5 DEF Inv, PathInv
<1> QED BY <1>1, <1>2

-----------------------------------------------------------------------------
(* A group commits.                                                         *)

\* Each lane of a group that commits was fetched from its own address.  The lanes
\* of a group that starts just below the end of the address space were not: the
\* index of a lane does not wrap around as the program counter does.
InPlace(i) == Fetched(program, ex_mem[0].pc + 4 * i) = Fetched(program, Mask(ex_mem[0].pc + 4 * i))
FetchedInPlace == \A i \in Lane : ex_mem[i].valid => InPlace(i)

\* The committed state behind the first n lanes in MEM.
PcAfter(n) ==
    IF n = 0 THEN CommittedPC
    ELSE NextPC(ex_mem[n - 1].c, ex_mem[n - 1].pc, ex_mem[n - 1].rs1_data, ex_mem[n - 1].alu_result)
StateAfter(n) == [pc |-> PcAfter(n), regs |-> RegsAfter(n), mem |-> MemAfter(n)]

LEMMA BehindNext ==
    ASSUME TypeInv, NEW r, NEW n \in Lane
    PROVE  IF n \in Writers(ex_mem, r)
           THEN Behind(r, n + 1) # {} /\ Max(Behind(r, n + 1)) = n
           ELSE Behind(r, n + 1) = Behind(r, n)
<1>1. n \in Nat /\ n + 1 \in Nat /\ Lane \subseteq Nat
  BY Lanes
<1>2. CASE n \in Writers(ex_mem, r)
  <2>1. n \in Behind(r, n + 1)
    BY <1>1, <1>2 DEF Behind
  <2>2. PICK m \in Lane : m = Max(Behind(r, n + 1)) /\ n <= m /\ m < n + 1
    <3>1. /\ Max(Behind(r, n + 1)) \in Behind(r, n + 1) /\ Behind(r, n + 1) \subseteq Lane
          /\ n <= Max(Behind(r, n + 1))
      BY <1>1, <2>1, BehindIs
    <3> QED BY <3>1 DEF Behind
  <2> QED BY <1>1, <1>2, <2>1, <2>2
<1>3. CASE n \notin Writers(ex_mem, r)
  <2>1. \A j \in Writers(ex_mem, r) : j \in Nat /\ j # n
    BY <1>1, <1>3 DEF Writers
  <2>2. \A j \in Writers(ex_mem, r) : j < n + 1 <=> j < n
    BY <1>1, <2>1
  <2> QED BY <1>3, <2>2 DEF Behind
<1> QED BY <1>2, <1>3

LEMMA MemViewNext ==
    ASSUME TypeInv, NEW word, NEW n \in Lane
    PROVE  MemView(word, 0..((n + 1) - 1)) =
              IF ex_mem[n].c.mem_write /\ MemIndex(ex_mem[n].alu_result) = word
              THEN ex_mem[n].rs2_data ELSE MemView(word, 0..(n - 1))
<1> DEFINE Stores(j) == ex_mem[j].c.mem_write /\ MemIndex(ex_mem[j].alu_result) = word
           old == {j \in 0..(n - 1) : Stores(j)}
           new == {j \in 0..((n + 1) - 1) : Stores(j)}
<1>1. n \in Nat /\ (n + 1) - 1 = n
  BY Lanes
<1>2. /\ MemView(word, 0..((n + 1) - 1)) = IF new = {} THEN mem[word] ELSE ex_mem[Max(new)].rs2_data
      /\ MemView(word, 0..(n - 1)) = IF old = {} THEN mem[word] ELSE ex_mem[Max(old)].rs2_data
  BY DEF MemView
<1>3. CASE Stores(n)
  <2>1. n \in new /\ new \in SUBSET (0..((n + 1) - 1)) /\ n + 1 \in Nat
    BY <1>1, <1>3
  <2>2. Max(new) \in 0..((n + 1) - 1) /\ n <= Max(new)
    <3> HIDE DEF new
    <3> QED BY <2>1, YoungestIs
  <2>3. Max(new) = n
    <3>1. PICK m \in 0..((n + 1) - 1) : m = Max(new) /\ n <= m
      BY <2>2
    <3>2. m = n
      BY <1>1, <3>1
    <3> QED BY <3>1, <3>2
  <2> QED BY <1>2, <1>3, <2>1, <2>3
<1>4. CASE ~Stores(n)
  <2>1. new = old
    <3>1. \A j : j \in 0..((n + 1) - 1) <=> j \in 0..(n - 1) \/ j = n
      BY <1>1
    <3> HIDE DEF Stores
    <3> QED BY <1>4, <3>1
  <2> QED BY <1>2, <1>4, <2>1
<1> QED BY <1>3, <1>4

\* A lane that needs nothing of the older ones reads what was written before them.
LEMMA ReadsBefore ==
    ASSUME Inv, NEW n \in Lane, ex_mem[n].valid, NEW r \in Reg, r \in Sources(ex_mem[n].c)
    PROVE  RegRead(RegsAfter(n), r) = RegRead(WrittenRegs, r)
<1>1. TypeInv /\ Issues(ex_mem, n) /\ n \in Nat /\ Lane \subseteq Nat
  BY Lanes DEF Inv, PathInv
<1>2. r # ZERO_REG => Behind(r, n) = {}
  <2> SUFFICES ASSUME r # ZERO_REG, NEW j \in Behind(r, n) PROVE FALSE
    OBVIOUS
  <2>1. j \in Lane /\ j < n /\ ex_mem[j].c.reg_write /\ ex_mem[j].c.rd = r
    BY DEF Behind, Writers
  <2>2. j \in 0..(n - 1)
    BY <1>1, <2>1
  <2> QED BY <1>1, <2>1, <2>2 DEF Issues
<1> QED BY <1>2 DEF RegsAfter, RegRead

\* A valid lane starts where the older ones lead.
LEMMA LaneStarts ==
    ASSUME Inv, NEW n \in Lane, ex_mem[n].valid
    PROVE  PcAfter(n) = ex_mem[n].pc
<1>1. /\ TypeInv /\ PathInv /\ Issues(ex_mem, n) /\ n \in Nat /\ 0 \in Lane
      /\ Lane = 0..(num_lanes - 1) /\ num_lanes \in Nat \ {0}
  BY Lanes DEF Inv, PathInv, Lane
<1>2. PICK at : at = ex_mem[n].pc
  OBVIOUS
<1>3. PcAfter(n) = at
  <2>1. CASE n = 0
    BY <1>2, <2>1 DEF PcAfter, CommittedPC
  <2>2. CASE n # 0
    <3> DEFINE m == n - 1
    <3>1. m \in 0..(n - 1) /\ m \in Lane /\ m + 1 = n
      BY <1>1, <2>2
    <3>2. ex_mem[m].valid /\ ~Jumps(ex_mem[m].c)
      BY <1>1, <3>1 DEF Issues
    <3>3. ex_mem[m].pc = Mask(ex_mem[0].pc + 4 * m) /\ at = Mask(ex_mem[0].pc + 4 * n)
      BY <1>1, <1>2, <3>1, <3>2 DEF Issues, PathInv
    <3>4. PcAfter(n) = Mask(ex_mem[m].pc + 4)
      BY <2>2, <3>2 DEF PcAfter, NextPC, Jumps, Redirects
    <3>5. ex_mem[0].pc \in Int
      BY <1>1, StageFields, WordsType DEF Word
    <3> HIDE DEF m
    <3>6. PICK y \in Int : y = ex_mem[0].pc + 4 * m
      BY <1>1, <3>1, <3>5
    <3>7. Mask(Mask(y) + 4) = Mask(y + 4)
      BY MaskSum
    <3>8. y + 4 = ex_mem[0].pc + 4 * n
      BY <1>1, <3>1, <3>5, <3>6
    <3> QED BY <3>3, <3>4, <3>6, <3>7, <3>8
  <2> QED BY <2>1, <2>2
<1> QED BY <1>2, <1>3

\* A valid lane does what the single-cycle machine does behind the older ones.
LEMMA LaneCommits ==
    ASSUME Inv, NEW n \in Lane, ex_mem[n].valid, InPlace(n)
    PROVE  Step(program, StateAfter(n)) = StateAfter(n + 1)
<1>1. /\ TypeInv /\ PathInv /\ Issues(ex_mem, n) /\ n \in Nat /\ 0 \in Lane
      /\ Lane = 0..(num_lanes - 1) /\ num_lanes \in Nat \ {0}
  BY Lanes DEF Inv, PathInv, Lane
<1>2. PICK c, at, x0 : c = ex_mem[n].c /\ at = ex_mem[n].pc /\ x0 = ex_mem[n].alu_result
  OBVIOUS
<1>3. /\ c \in Control /\ c.rd \in Reg /\ c.rs1 \in Reg /\ c.rs2 \in Reg /\ at \in Word /\ x0 \in Word
  BY <1>1, <1>2, StageFields, ControlFields
<1>4. PcAfter(n) = at
  BY <1>2, LaneStarts
<1>5. c = Decode(Fetched(program, at))
  BY <1>1, <1>2 DEF Issues, InPlace
<1>6. /\ c.mem_read <=> c.wb_sel = "MEMORY"
      /\ c.jal \/ c.jalr <=> c.wb_sel = "PC4"
      /\ c.jalr => c.alu_src
      /\ c.mem_write => c.rs2 \in Sources(c)
      /\ c.rs1 \in Sources(c)
      /\ c.rs2 \notin Sources(c) => c.alu_src \/ c.jal
      /\ c.jal => ~c.mem_write
  <2>1. c.jalr => c.alu_src
    BY <1>5 DEF Decode
  <2>2. c.jal => ~c.mem_write
    BY <1>5 DEF Decode
  <2> QED BY <1>1, <1>2, <2>1, <2>2, ControlClasses DEF Sources
<1>7. PICK a, b : a = RegRead(RegsAfter(n), c.rs1) /\ b = RegRead(RegsAfter(n), c.rs2)
  OBVIOUS
<1>8. /\ ex_mem[n].rs1_data = a
      /\ c.rs2 \in Sources(c) => ex_mem[n].rs2_data = b
      /\ x0 = ResultOf(c, at, a, ex_mem[n].rs2_data)
  BY <1>2, <1>3, <1>6, <1>7, ReadsBefore DEF Inv, DataInv
<1>9. PICK x : x = ResultOf(c, at, a, b)
  OBVIOUS
<1>10. x = x0 \/ c.jal
  <2>1. CASE c.rs2 \in Sources(c)
    BY <1>8, <1>9, <2>1
  <2>2. CASE c.alu_src
    BY <1>8, <1>9, <2>2 DEF ResultOf
  <2> QED BY <1>6, <2>1, <2>2
<1>11. WriteBack(c, x, MemAfter(n)[MemIndex(x)], at) = Result(n)
  <2>1. Result(n) = WriteBack(c, x0, Loaded(n), at)
    BY <1>2 DEF Result
  <2>2. CASE c.jal
    BY <1>6, <2>1, <2>2 DEF WriteBack
  <2>3. CASE ~c.jal
    <3>1. MemIndex(x0) \in 0..(MEM_WORDS - 1)
      BY <1>3, MemIndexType
    <3>2. Loaded(n) = MemAfter(n)[MemIndex(x0)]
      BY <1>2, <3>1 DEF Loaded, MemAfter
    <3> QED BY <1>10, <2>1, <2>3, <3>2
  <2> QED BY <2>2, <2>3
<1>12. RegWrite(RegsAfter(n), c.reg_write, c.rd, Result(n)) = RegsAfter(n + 1)
  <2>1. RegsAfter(n) = [r \in Reg |-> RegsAfter(n)[r]] /\ RegsAfter(n + 1) = [r \in Reg |-> RegsAfter(n + 1)[r]]
    BY DEF RegsAfter
  <2>2. ASSUME NEW r \in Reg
        PROVE  RegsAfter(n + 1)[r] = IF c.reg_write /\ c.rd = r /\ r # ZERO_REG THEN Result(n)
                                     ELSE RegsAfter(n)[r]
    <3>1. n \in Writers(ex_mem, r) <=> c.reg_write /\ c.rd = r /\ r # ZERO_REG
      BY <1>2 DEF Writers
    <3> QED BY <1>1, <3>1, BehindNext DEF RegsAfter
  <2> DEFINE old == RegsAfter(n)
             new == RegsAfter(n + 1)
  <2> HIDE DEF old, new
  <2>3. RegWrite(old, c.reg_write, c.rd, Result(n)) = new
    <3>1. old = [r \in Reg |-> old[r]] /\ new = [r \in Reg |-> new[r]]
      BY <2>1 DEF old, new
    <3>2. \A r \in Reg : new[r] = IF c.reg_write /\ c.rd = r /\ r # ZERO_REG THEN Result(n) ELSE old[r]
      BY <2>2 DEF old, new
    <3> QED BY <1>3, <3>1, <3>2 DEF RegWrite
  <2> QED BY <2>3 DEF old, new
<1>13. MemWrite(MemAfter(n), c.mem_write, x, b) = MemAfter(n + 1)
  <2>1. MemWrite(MemAfter(n), c.mem_write, x, b) = MemWrite(MemAfter(n), c.mem_write, x0, ex_mem[n].rs2_data)
    BY <1>6, <1>8, <1>10 DEF MemWrite
  <2>2. ASSUME NEW word \in 0..(MEM_WORDS - 1)
        PROVE  MemAfter(n + 1)[word] = IF c.mem_write /\ MemIndex(x0) = word THEN ex_mem[n].rs2_data
                                       ELSE MemAfter(n)[word]
    BY <1>1, <1>2, MemViewNext DEF MemAfter
  <2> DEFINE old == MemAfter(n)
             new == MemAfter(n + 1)
  <2>3. /\ old = [w \in 0..(MEM_WORDS - 1) |-> old[w]] /\ new = [w \in 0..(MEM_WORDS - 1) |-> new[w]]
        /\ \A w \in 0..(MEM_WORDS - 1) : new[w] = IF c.mem_write /\ MemIndex(x0) = w
                                                  THEN ex_mem[n].rs2_data ELSE old[w]
    BY <2>2 DEF MemAfter
  <2> HIDE DEF old, new
  <2>4. MemIndex(x0) \in 0..(MEM_WORDS - 1)
    BY <1>3, MemIndexType
  <2>5. MemWrite(old, c.mem_write, x0, ex_mem[n].rs2_data) = new
    BY <2>3, <2>4 DEF MemWrite
  <2> QED BY <2>1, <2>5 DEF old, new
<1>14. NextPC(c, at, a, x) = PcAfter(n + 1)
  <2>1. n + 1 # 0 /\ (n + 1) - 1 = n
    BY <1>1
  <2>2. PcAfter(n + 1) = NextPC(c, at, a, x0)
    BY <1>2, <1>8, <2>1 DEF PcAfter
  <2>3. c.jal => NextPC(c, at, a, x) = NextPC(c, at, a, x0)
    BY DEF NextPC, Redirects
  <2> QED BY <1>10, <2>2, <2>3
<1>15. Step(program, StateAfter(n)) =
          [regs |-> RegWrite(RegsAfter(n), c.reg_write, c.rd,
                             WriteBack(c, x, MemAfter(n)[MemIndex(x)], at)),
           mem  |-> MemWrite(MemAfter(n), c.mem_write, x, b),
           pc   |-> NextPC(c, at, a, x)]
  <2>1. StateAfter(n).pc = at /\ StateAfter(n).regs = RegsAfter(n) /\ StateAfter(n).mem = MemAfter(n)
    BY <1>4 DEF StateAfter
  <2> QED BY <1>5, <1>7, <1>9, <2>1 DEF Step
<1> QED BY <1>11, <1>12, <1>13, <1>14, <1>15 DEF StateAfter

-----------------------------------------------------------------------------
(* The lanes of a group, one after the other.                               *)

\* The valid lanes are the first k.
LEMMA GroupIs ==
    ASSUME Inv
    PROVE  \E k \in 0..num_lanes : \A i \in Lane : ex_mem[i].valid <=> i < k
<1>1. TypeInv /\ PathInv /\ num_lanes \in Nat \ {0} /\ Lane = 0..(num_lanes - 1)
  BY Lanes DEF Inv, Lane
<1> DEFINE S == {i \in 0..num_lanes : i = num_lanes \/ ~ex_mem[i].valid}
<1>2. S \in SUBSET Nat /\ num_lanes \in S
  BY <1>1
<1>3. PICK k \in S : \A i \in S : k <= i
  <2> HIDE DEF S
  <2> QED BY <1>2, LeastElement
<1>4. ASSUME NEW i \in Lane PROVE ex_mem[i].valid <=> i < k
  <2>1. CASE i < k
    BY <1>1, <1>3, <2>1
  <2>2. CASE i = k
    BY <1>1, <1>3, <2>2
  <2>3. CASE i > k
    <3>1. k \in 0..(i - 1) /\ ~ex_mem[k].valid
      BY <1>1, <1>3, <2>3
    <3>2. ex_mem[i].valid => Issues(ex_mem, i)
      BY <1>1 DEF PathInv
    <3>3. ~ex_mem[i].valid
      BY <3>1, <3>2 DEF Issues
    <3> QED BY <1>1, <1>3, <2>3, <3>3
  <2> QED BY <1>1, <1>3, <2>1, <2>2, <2>3
<1> QED BY <1>3, <1>4

LEMMA GroupSize ==
    ASSUME Inv, NEW k \in 0..num_lanes, \A i \in Lane : ex_mem[i].valid <=> i < k
    PROVE  Cardinality({i \in Lane : ex_mem[i].valid}) = k
<1>1. num_lanes \in Nat /\ Lane = 0..(num_lanes - 1)
  BY Lanes DEF Inv, Lane
<1>2. {i \in Lane : ex_mem[i].valid} = 0..(k - 1)
  BY <1>1
<1>3. Cardinality(0..(k - 1)) = k
  BY <1>1, FS_Interval
<1> QED BY <1>2, <1>3

\* Before the first lane nothing has been done, and what is behind the last valid
\* one does nothing.
LEMMA BeforeFirst ==
    ASSUME TypeInv
    PROVE  StateAfter(0) = Committed
<1>1. Lane \subseteq Nat
  BY Lanes
<1>2. RegsAfter(0) = WrittenRegs
  <2>1. ASSUME NEW r PROVE Behind(r, 0) = {}
    <3>1. \A j \in Writers(ex_mem, r) : ~(j < 0)
      BY <1>1 DEF Writers
    <3> QED BY <3>1 DEF Behind
  <2>2. RegsAfter(0) = [r \in Reg |-> WrittenRegs[r]]
    BY <2>1 DEF RegsAfter
  <2> QED BY <2>2, WrittenType
<1>3. MemAfter(0) = mem
  <2>1. \A word : MemView(word, 0..(0 - 1)) = mem[word]
    BY DEF MemView
  <2> QED BY <2>1 DEF MemAfter, TypeInv, Mem
<1> QED BY <1>2, <1>3 DEF StateAfter, PcAfter, Committed

LEMMA RestQuiet ==
    ASSUME Inv, NEW k \in 0..num_lanes, \A i \in Lane : ex_mem[i].valid <=> i < k
    PROVE  RegsAfter(num_lanes) = RegsAfter(k) /\ MemAfter(num_lanes) = MemAfter(k)
<1>1. TypeInv /\ num_lanes \in Nat /\ Lane = 0..(num_lanes - 1)
  BY Lanes DEF Inv, Lane
<1>2. \A j \in Lane : ex_mem[j].valid \/ Quiet(ex_mem[j].c)
  BY <1>1 DEF TypeInv
<1>3. ASSUME NEW r PROVE Behind(r, num_lanes) = Behind(r, k)
  <2>1. \A j \in Writers(ex_mem, r) : j < num_lanes /\ j < k
    BY <1>1, <1>2 DEF Writers, Quiet
  <2> QED BY <2>1 DEF Behind
<1>4. ASSUME NEW word PROVE MemView(word, 0..(num_lanes - 1)) = MemView(word, 0..(k - 1))
  <2> DEFINE Stores(j) == ex_mem[j].c.mem_write /\ MemIndex(ex_mem[j].alu_result) = word
  <2>1. \A j \in 0..(num_lanes - 1) : Stores(j) => j \in 0..(k - 1)
    BY <1>1, <1>2 DEF Quiet
  <2>2. \A j \in 0..(k - 1) : j \in 0..(num_lanes - 1)
    BY <1>1
  <2>3. {j \in 0..(num_lanes - 1) : Stores(j)} = {j \in 0..(k - 1) : Stores(j)}
    <3> HIDE DEF Stores
    <3> QED BY <2>1, <2>2
  <2> QED BY <2>3 DEF MemView
<1> QED BY <1>3, <1>4 DEF RegsAfter, MemAfter

LEMMA CommittedPCIs ==
    ASSUME TypeInv
    PROVE  CommittedPC = IF ex_mem[0].valid THEN ex_mem[0].pc ELSE IssuePC
<1>1. /\ ex_mem[0].valid \in BOOLEAN /\ id_ex[0].valid \in BOOLEAN /\ if_id[0].valid \in BOOLEAN
  BY Lanes, StageFields DEF FetchEntry
<1> QED BY <1>1 DEF CommittedPC, IssuePC, FrontPC

\* The next group starts where the last instruction of this one leads.
LEMMA GroupLeads ==
    ASSUME Inv, NEW predicted \in BOOLEAN, predicted => Asked, Cycle(predicted),
           NEW k \in 0..num_lanes, \A i \in Lane : ex_mem[i].valid <=> i < k
    PROVE  CommittedPC' = PcAfter(k)
<1>1. /\ TypeInv /\ PathInv /\ PredictionInv /\ TypeInv' /\ 0 \in Lane /\ Lane' = Lane
      /\ num_lanes \in Nat \ {0} /\ Lane = 0..(num_lanes - 1)
  BY TypeStep, Stages, Lanes DEF Inv, Lane
<1>2. CommittedPC' = IF ex_mem'[0].valid THEN ex_mem'[0].pc ELSE IssuePC'
  <2>1. /\ ex_mem'[0].valid \in BOOLEAN /\ id_ex'[0].valid \in BOOLEAN /\ if_id'[0].valid \in BOOLEAN
    BY <1>1 DEF TypeInv, FetchEntry, DecodeEntry, ExecuteEntry
  <2> QED BY <2>1 DEF CommittedPC, IssuePC, FrontPC
<1>3. ~ex_mem[0].valid => ~IsControl /\ ~Mispredict
  BY <1>1 DEF TypeInv, Quiet, IsControl, Mispredict
<1>4. CASE Mispredict
  <2>1. ex_mem[0].valid /\ Jumps(ex_mem[0].c) /\ k > 0
    BY <1>1, <1>3, <1>4 DEF Mispredict, IsControl, Jumps
  <2>2. k = 1
    <3> SUFFICES ASSUME k > 1 PROVE FALSE
      BY <2>1
    <3>1. 1 \in Lane /\ ex_mem[1].valid /\ 0 \in 0..(1 - 1)
      BY <1>1
    <3>2. Issues(ex_mem, 1)
      BY <1>1, <3>1 DEF PathInv
    <3> QED BY <2>1, <3>1, <3>2 DEF Issues
  <2>3. /\ pc' = Target /\ if_id' = Bubbles(FetchBubble)
        /\ id_ex'[0] = DecodeBubble /\ ex_mem'[0] = ExecuteBubble
    BY <1>1, <1>4, Stages
  <2>4. ~if_id'[0].valid /\ ~id_ex'[0].valid /\ ~ex_mem'[0].valid
    BY <1>1, <2>3, BubbleFields
  <2>5. CommittedPC' = Target
    BY <1>2, <2>3, <2>4 DEF IssuePC, FrontPC
  <2> QED BY <2>2, <2>5 DEF PcAfter, Target
<1>5. CASE ~Mispredict
  <2>1. ex_mem'[0].valid = id_ex[0].valid /\ ex_mem'[0].pc = id_ex[0].pc
    BY <1>1, <1>5, Executed
  <2>2. CommittedPC' = IssuePC
    BY <1>2, <1>5, <2>1, IssueAdvances DEF IssuePC
  <2>3. CASE k = 0
    BY <1>1, <2>2, <2>3, CommittedPCIs DEF PcAfter
  <2>4. CASE k # 0
    <3> DEFINE l == k - 1
    <3>1. l \in Lane /\ ex_mem[l].valid /\ Last(ex_mem, l)
      BY <1>1, <2>4 DEF Last
    <3>2. IssuePC = Follower(ex_mem[l])
      BY <1>1, <3>1 DEF PathInv
    <3>3. PcAfter(k) = NextPC(ex_mem[l].c, ex_mem[l].pc, ex_mem[l].rs1_data, ex_mem[l].alu_result)
      BY <2>4 DEF PcAfter
    <3> HIDE DEF l
    <3>4. CASE l = 0
      <4>1. PICK c, x : c = ex_mem[0].c /\ x = ex_mem[0].alu_result
        OBVIOUS
      <4>2. /\ ex_mem[0].predicted \in BOOLEAN /\ c \in Control
        <5>1. ex_mem[0].predicted \in BOOLEAN
          BY <1>1 DEF TypeInv, ExecuteEntry
        <5>2. ex_mem[0].c \in Control
          BY <1>1, StageFields
        <5> QED BY <4>1, <5>1, <5>2
      <4>3. c.branch => ~c.jal /\ ~c.jalr
        BY <1>1, <3>1, <3>4, <4>1, ControlClasses
      <4>4. ~(c.jal /\ c.jalr)
        BY <1>1, <3>1, <3>4, <4>1, ControlClasses
      <4>5. ex_mem[0].predicted => c.branch \/ c.jal
        BY <1>1, <4>1 DEF PredictionInv, Steers
      <4>6. c.branch \/ c.jal \/ c.jalr => (Redirects(c, x) <=> ex_mem[0].predicted)
        <5>1. Redirects(c, x) \in BOOLEAN
          BY <4>2 DEF Redirects, BranchTaken, Control
        <5> QED BY <1>5, <4>1, <4>2, <5>1 DEF Mispredict, IsControl, Taken
      <4>7. CASE ex_mem[0].predicted
        <5>1. Follower(ex_mem[0]) = Mask(ex_mem[0].pc + c.imm)
          BY <4>1, <4>7 DEF Follower
        <5>2. NextPC(c, ex_mem[0].pc, ex_mem[0].rs1_data, x) = Mask(ex_mem[0].pc + c.imm)
          BY <4>3, <4>4, <4>5, <4>6, <4>7 DEF NextPC
        <5> QED BY <2>2, <3>2, <3>3, <3>4, <4>1, <5>1, <5>2
      <4>8. CASE ~ex_mem[0].predicted
        <5>1. Follower(ex_mem[0]) = Mask(ex_mem[0].pc + 4)
          BY <4>8 DEF Follower
        <5>2. ~Redirects(c, x) /\ ~c.jal /\ ~c.jalr
          BY <4>6, <4>8 DEF Redirects
        <5>3. NextPC(c, ex_mem[0].pc, ex_mem[0].rs1_data, x) = Mask(ex_mem[0].pc + 4)
          BY <5>2 DEF NextPC
        <5> QED BY <2>2, <3>2, <3>3, <3>4, <4>1, <5>1, <5>3
      <4> QED BY <4>7, <4>8
    <3>5. CASE l # 0
      <4>1. ~ex_mem[l].predicted
        BY <1>1, <3>1, <3>5 DEF PredictionInv
      <4>2. ~Jumps(ex_mem[l].c)
        BY <1>1, <3>1, <3>5 DEF PathInv, Issues
      <4>3. Follower(ex_mem[l]) = Mask(ex_mem[l].pc + 4)
        BY <4>1 DEF Follower
      <4>4. NextPC(ex_mem[l].c, ex_mem[l].pc, ex_mem[l].rs1_data, ex_mem[l].alu_result) = Mask(ex_mem[l].pc + 4)
        BY <4>2 DEF NextPC, Redirects, Jumps
      <4> QED BY <2>2, <3>2, <3>3, <4>3, <4>4
    <3> QED BY <3>4, <3>5
  <2> QED BY <2>3, <2>4
<1> QED BY <1>4, <1>5

-----------------------------------------------------------------------------
(* Refinement.                                                              *)

\* The single-cycle machine's step on the committed state.
LEMMA OracleStep == \A s : Oracle!After(s) = Step(program, s)
<1>1. \A v : Oracle!Mask(v) = Mask(v)
  BY DEF Oracle!Mask, Mask, Oracle!WORDS, WORDS
<1>2. \A i : Oracle!Decode(i) = Decode(i)
  BY DEF Oracle!Decode, Decode, Oracle!BranchAluOp, BranchAluOp, Oracle!BranchCond, BranchCond
<1>3. \A p, a : Oracle!Fetched(p, a) = Fetched(p, a)
  BY <1>1 DEF Oracle!Fetched, Fetched, Oracle!Nop, Nop, Oracle!IAlu, IAlu
<1>4. /\ \A r, x : Oracle!RegRead(r, x) = RegRead(r, x)
      /\ \A r, e, x, v : Oracle!RegWrite(r, e, x, v) = RegWrite(r, e, x, v)
      /\ \A a : Oracle!MemIndex(a) = MemIndex(a)
  BY DEF Oracle!RegRead, RegRead, Oracle!RegWrite, RegWrite, Oracle!MemIndex, MemIndex
<1>5. \A m, e, a, v : Oracle!MemWrite(m, e, a, v) = MemWrite(m, e, a, v)
  BY <1>4 DEF Oracle!MemWrite, MemWrite
<1>6. \A c, x, y, a : Oracle!WriteBack(c, x, y, a) = WriteBack(c, x, y, a)
  BY <1>1 DEF Oracle!WriteBack, WriteBack
<1>7. \A c, a, r, x : Oracle!NextPC(c, a, r, x) = NextPC(c, a, r, x)
  BY <1>1 DEF Oracle!NextPC, NextPC, Oracle!Redirects, Redirects, Oracle!BranchTaken, BranchTaken
<1>8. Oracle!BitAnd = BitAnd
  BY DEF Oracle!BitAnd, BitAnd, Oracle!Word, Word, Oracle!WORDS, WORDS
<1>9. \A op, a, b : Oracle!Alu(op, a, b) = Alu(op, a, b)
  BY <1>8 DEF Oracle!Alu, Alu, Oracle!Mask, Mask, Oracle!ToSigned, ToSigned, Oracle!WORDS, WORDS
<1> QED BY <1>1, <1>2, <1>3, <1>4, <1>5, <1>6, <1>7, <1>9 DEF Oracle!After, Oracle!Step, Step, Oracle!ResultOf, ResultOf

\* So many instructions further the single-cycle machine is where the lanes are.
LEMMA AheadIs ==
    ASSUME Inv, FetchedInPlace, NEW k \in 0..num_lanes, \A i \in Lane : ex_mem[i].valid <=> i < k
    PROVE  Ahead(k) = StateAfter(k)
<1>1. TypeInv /\ num_lanes \in Nat /\ Lane = 0..(num_lanes - 1) /\ k \in Nat
  BY Lanes DEF Inv, Lane
<1>2. ASSUME NEW n \in 0..(k - 1) PROVE Oracle!After(StateAfter(n)) = StateAfter(n + 1)
  <2>1. n \in Lane /\ ex_mem[n].valid /\ InPlace(n)
    BY <1>1 DEF FetchedInPlace
  <2> QED BY <2>1, LaneCommits, OracleStep
<1> DEFINE next(f, n) == IF n = 0 THEN Committed ELSE Oracle!After(f[n - 1])
           run == CHOOSE f : f = [n \in 0..k |-> next(f, n)]
           lanes == [n \in 0..k |-> StateAfter(n)]
<1>3. Ahead(k) = run[k]
  BY DEF Ahead
<1>4. lanes = [n \in 0..k |-> next(lanes, n)]
  <2>1. ASSUME NEW n \in 0..k PROVE StateAfter(n) = next(lanes, n)
    <3>1. CASE n = 0
      BY <1>1, <3>1, BeforeFirst
    <3>2. CASE n # 0
      <4>1. n - 1 \in 0..(k - 1) /\ n - 1 \in 0..k /\ (n - 1) + 1 = n
        BY <1>1, <3>2
      <4>2. Oracle!After(StateAfter(n - 1)) = StateAfter(n)
        BY <1>2, <4>1
      <4>3. lanes[n - 1] = StateAfter(n - 1)
        BY <4>1
      <4> QED BY <3>2, <4>2, <4>3
    <3> QED BY <3>1, <3>2
  <2> HIDE DEF next
  <2> QED BY <2>1
<1>5. run = [n \in 0..k |-> next(run, n)]
  <2> HIDE DEF next, lanes
  <2> QED BY <1>4
<1> DEFINE S == {n \in 0..k : run[n] = StateAfter(n)}
<1> HIDE DEF run, lanes, next
<1>6. \A n \in 0..k : run[n] = next(run, n)
  BY <1>5
<1>7. 0 \in S
  BY <1>1, <1>6, BeforeFirst DEF next
<1>8. ASSUME NEW n \in 0..(k - 1), n \in S PROVE n + 1 \in S
  <2>1. n + 1 \in 0..k /\ n + 1 # 0 /\ (n + 1) - 1 = n
    BY <1>1
  <2>2. run[n + 1] = Oracle!After(run[n])
    BY <1>6, <2>1 DEF next
  <2> QED BY <1>2, <1>8, <2>1, <2>2
<1>9. k \in S
  <2> HIDE DEF S
  <2>1. 0..k \subseteq S
    BY <1>1, <1>7, <1>8, NatByInduction
  <2> QED BY <1>1, <2>1
<1> QED BY <1>3, <1>9

GroupCommits == Committed' = Ahead(Cardinality({i \in Lane : ex_mem[i].valid}))

\* The committed state moves to the one behind the valid lanes.
LEMMA GroupMoves ==
    ASSUME Inv, NEW predicted \in BOOLEAN, predicted => Asked, Cycle(predicted),
           NEW k \in 0..num_lanes, \A i \in Lane : ex_mem[i].valid <=> i < k
    PROVE  Committed' = StateAfter(k)
<1>1. CommittedPC' = PcAfter(k)
  BY GroupLeads
<1>2. WrittenRegs' = RegsAfter(k) /\ mem' = MemAfter(k)
  BY WrittenNext, RestQuiet DEF Inv
<1> QED BY <1>1, <1>2 DEF Committed, StateAfter

LEMMA GroupStep ==
    ASSUME Inv, FetchedInPlace, NEW predicted \in BOOLEAN, predicted => Asked, Cycle(predicted)
    PROVE  GroupCommits
<1>1. PICK k \in 0..num_lanes : \A i \in Lane : ex_mem[i].valid <=> i < k
  BY GroupIs
<1>2. Cardinality({i \in Lane : ex_mem[i].valid}) = k
  BY <1>1, GroupSize
<1>3. Ahead(k) = StateAfter(k)
  BY <1>1, AheadIs
<1>4. Committed' = StateAfter(k)
  BY <1>1, GroupMoves
<1> QED BY <1>2, <1>3, <1>4 DEF GroupCommits

LEMMA StepCommits == Inv /\ [Next]_vars => [FetchedInPlace => GroupCommits]_vars
<1> SUFFICES ASSUME Inv, Next, FetchedInPlace PROVE GroupCommits
  OBVIOUS
<1>1. PICK predicted \in BOOLEAN : (predicted => Asked) /\ Cycle(predicted)
  BY DEF Next
<1> QED BY <1>1, GroupStep

LEMMA InvInvariance == Spec => []Inv
<1>1. Inv /\ [Next]_vars => Inv'
  BY InvStep
<1> QED BY <1>1, InvInitial, PTL DEF Spec

\* A group whose lanes were fetched from the addresses they are given commits what
\* the single-cycle machine computes for its valid lanes one after the other, for
\* every number of lanes, program, predictor and width of a word: whatever was cut,
\* stalled, forwarded, squashed or guessed before.
THEOREM GroupsCommitInOrder ==
    Spec => [][FetchedInPlace =>
                  Committed' = Ahead(Cardinality({i \in Lane : ex_mem[i].valid}))]_vars
<1>1. Inv /\ [Next]_vars => [FetchedInPlace => GroupCommits]_vars
  BY StepCommits
<1>2. Spec => [][FetchedInPlace => GroupCommits]_vars
  BY <1>1, InvInvariance, PTL DEF Spec
<1> QED BY <1>2, PTL DEF GroupCommits

\* Behaviours that never execute a group across the end of the address space commit
\* in order.
THEOREM CommitsUnlessWrapped == Spec /\ []FetchedInPlace => CommitsInOrder
<1>1. Inv /\ [Next]_vars => [FetchedInPlace => GroupCommits]_vars
  BY StepCommits
<1>2. Spec /\ []FetchedInPlace => [][GroupCommits]_vars
  BY <1>1, InvInvariance, PTL DEF Spec
<1> QED BY <1>2, PTL DEF GroupCommits, CommitsInOrder

-----------------------------------------------------------------------------
(* Programs that stay below the end of the address space.                   *)

\* Run on the single-cycle machine, no program executes the last word of the address
\* space: a condition on the programs alone.
BelowTheEnd == \A lanes \in DOMAIN Programs : \A p \in Programs[lanes] : \E S : StaysBelow(p, S)

\* What has been committed is a state of that machine.
OnPath == \E S : StaysBelow(program, S) /\ Committed \in S

\* So is what each lane of a group starts from, and the lanes lie below the end.
LEMMA LanesOnPath ==
    ASSUME Inv, NEW S, StaysBelow(program, S), Committed \in S,
           NEW k \in 0..num_lanes, \A i \in Lane : ex_mem[i].valid <=> i < k
    PROVE  /\ StateAfter(k) \in S
           /\ \A i \in 0..(k - 1) : InPlace(i)
<1>1. /\ TypeInv /\ PathInv /\ 0 \in Lane /\ num_lanes \in Nat \ {0}
      /\ Lane = 0..(num_lanes - 1) /\ k \in Nat
  BY Lanes DEF Inv, Lane
<1>2. PICK at \in Int : at = ex_mem[0].pc /\ at \in Word
  <2>1. ex_mem[0].pc \in Word
    BY <1>1, StageFields
  <2> QED BY <2>1, WordsType DEF Word
<1> DEFINE T == {n \in 0..k : StateAfter(n) \in S /\ (n < k => at + 4 * n \in Word)}
<1>3. 0 \in T
  <2>1. StateAfter(0) \in S
    BY <1>1, BeforeFirst
  <2> QED BY <1>1, <1>2, <2>1
<1>4. ASSUME NEW n \in 0..(k - 1), at + 4 * n \in Word PROVE InPlace(n)
  BY <1>2, <1>4, MaskWord DEF InPlace
<1>5. ASSUME NEW n \in 0..(k - 1), n \in T PROVE n + 1 \in T
  <2>1. n \in Lane /\ ex_mem[n].valid /\ n + 1 \in 0..k
    BY <1>1
  <2>2. StateAfter(n) \in S /\ at + 4 * n \in Word
    BY <1>5
  <2>3. StateAfter(n + 1) \in S
    <3>1. StateAfter(n + 1) = Step(program, StateAfter(n))
      BY <1>4, <2>1, <2>2, LaneCommits
    <3> QED BY <2>2, <3>1 DEF StaysBelow
  <2>4. StateAfter(n).pc = at + 4 * n
    <3>1. StateAfter(n).pc = ex_mem[n].pc
      BY <2>1, LaneStarts DEF StateAfter
    <3>2. ex_mem[n].pc = Mask(at + 4 * n)
      BY <1>1, <1>2, <2>1 DEF PathInv, Issues
    <3> QED BY <2>2, <3>1, <3>2, MaskWord
  <2>5. (at + 4 * n) + 4 \in Word
    BY <2>2, <2>4 DEF StaysBelow
  <2>6. (at + 4 * n) + 4 = at + 4 * (n + 1)
    BY <1>1, <1>2
  <2> QED BY <2>1, <2>3, <2>5, <2>6
<1>6. 0..k \subseteq T
  <2> HIDE DEF T
  <2> QED BY <1>1, <1>3, <1>5, NatByInduction
<1>7. \A i \in 0..(k - 1) : at + 4 * i \in Word
  BY <1>1, <1>6
<1> QED BY <1>1, <1>4, <1>6, <1>7

LEMMA PathInPlace == Inv /\ OnPath => FetchedInPlace
<1> SUFFICES ASSUME Inv, OnPath, NEW i \in Lane, ex_mem[i].valid PROVE InPlace(i)
  BY DEF FetchedInPlace
<1>1. PICK S : StaysBelow(program, S) /\ Committed \in S
  BY DEF OnPath
<1>2. PICK k \in 0..num_lanes : \A j \in Lane : ex_mem[j].valid <=> j < k
  BY GroupIs
<1>3. i \in 0..(k - 1)
  BY <1>2 DEF Lane
<1> QED BY <1>1, <1>2, <1>3, LanesOnPath

LEMMA PathInitial == BelowTheEnd /\ Init => OnPath
<1> SUFFICES ASSUME BelowTheEnd, Init PROVE OnPath
  OBVIOUS
<1>1. PICK S : StaysBelow(program, S)
  BY DEF BelowTheEnd, Init
<1>2. TypeInv /\ 0 \in Lane
  BY TypeInitial, Lanes
<1>3. ~ex_mem[0].valid /\ ~id_ex[0].valid /\ ~if_id[0].valid /\ pc = 0
  BY <1>2 DEF Init, Bubbles, FetchBubble, DecodeBubble, ExecuteBubble
<1>4. CommittedPC = 0
  BY <1>3 DEF CommittedPC
<1>5. WrittenRegs = InitialRegs
  <2>1. \A r : Writers(mem_wb, r) = {}
    BY DEF Init, Bubbles, MemoryBubble, NoControl, Writers
  <2>2. WrittenRegs = [r \in Reg |-> regs[r]]
    BY <2>1 DEF WrittenRegs
  <2> QED BY <2>2 DEF Init, InitialRegs
<1>6. Committed = [pc |-> 0, regs |-> InitialRegs, mem |-> InitialMem]
  BY <1>4, <1>5 DEF Committed, Init
<1> QED BY <1>1, <1>6 DEF StaysBelow, OnPath

LEMMA PathKept == Inv /\ OnPath /\ [Next]_vars => OnPath'
<1> SUFFICES ASSUME Inv, OnPath, [Next]_vars PROVE OnPath'
  OBVIOUS
<1>1. PICK S : StaysBelow(program, S) /\ Committed \in S
  BY DEF OnPath
<1>2. program' = program
  BY DEF Next, Cycle, vars
<1>3. Committed' \in S
  <2>1. CASE Next
    <3>1. PICK predicted \in BOOLEAN : (predicted => Asked) /\ Cycle(predicted)
      BY <2>1 DEF Next
    <3>2. PICK k \in 0..num_lanes : \A i \in Lane : ex_mem[i].valid <=> i < k
      BY GroupIs
    <3>3. Committed' = StateAfter(k)
      BY <3>1, <3>2, GroupMoves
    <3>4. StateAfter(k) \in S
      BY <1>1, <3>2, LanesOnPath
    <3> QED BY <3>3, <3>4
  <2>2. CASE UNCHANGED vars
    <3>1. Committed' = Committed
      BY <2>2 DEF vars, Committed, CommittedPC, WrittenRegs, Writers, WbData, Lane
    <3> QED BY <1>1, <3>1
  <2> QED BY <2>1, <2>2
<1>4. StaysBelow(program, S)'
  BY <1>1, <1>2 DEF StaysBelow
<1> QED BY <1>3, <1>4 DEF OnPath

\* Whenever the single-cycle machine stays below the end of the address space with
\* every program, every behaviour commits in order from first to last: wrong paths may
\* reach over the end (wide_imem.py:30), what is committed does not.
THEOREM CommitsBelowTheEnd == BelowTheEnd => (Spec => CommitsInOrder)
<1> SUFFICES ASSUME BelowTheEnd PROVE Spec => CommitsInOrder
  OBVIOUS
<1>1. Init => OnPath
  BY PathInitial
<1>2. Inv /\ OnPath /\ [Next]_vars => OnPath'
  BY PathKept
<1>3. Inv /\ OnPath => FetchedInPlace
  BY PathInPlace
<1>4. Inv /\ [Next]_vars => [FetchedInPlace => GroupCommits]_vars
  BY StepCommits
<1>5. Spec => [][GroupCommits]_vars
  BY <1>1, <1>2, <1>3, <1>4, InvInvariance, PTL DEF Spec
<1> QED BY <1>5, PTL DEF GroupCommits, CommitsInOrder

-----------------------------------------------------------------------------
(* Independent groups are neither cut nor delayed.                          *)

\* The next n instructions need nothing of each other.
Free(at, n) == \A i \in 0..(n - 1) : Independent(Fetched(program, at + 4 * i))

\* Two free groups in a row do not reach over the end of the address space.
FreeBelowTheEnd ==
    ex_mem[0].valid /\ Free(ex_mem[0].pc, 2 * num_lanes) => ex_mem[0].pc + 4 * num_lanes \in Word

\* A free group was issued whole with its successor fetched behind it; two in a row
\* follow each other through EX.
RateInv ==
    /\ id_ex[0].valid /\ Free(id_ex[0].pc, num_lanes) =>
          if_id[0].valid /\ \A i \in Lane : id_ex[i].valid
    /\ ex_mem[0].valid /\ Free(ex_mem[0].pc, 2 * num_lanes) /\ FreeBelowTheEnd =>
          /\ \A i \in Lane : ex_mem[i].valid /\ id_ex[i].valid
          /\ id_ex[0].pc = ex_mem[0].pc + 4 * num_lanes

LEMMA FreeSources ==
    ASSUME NEW f \in Instruction, Independent(f)
    PROVE  /\ Sources(Decode(f)) \subseteq {ZERO_REG}
           /\ ~Jumps(Decode(f))
<1>1. /\ Decode(f).rs1 = ZERO_REG /\ Decode(f).alu_src /\ ~Decode(f).branch
      /\ ~Decode(f).jal /\ ~Decode(f).jalr
      /\ Decode(f).mem_write => Decode(f).rs2 = ZERO_REG
  BY DEF Independent, Decode
<1> QED BY <1>1 DEF Sources, Jumps

LEMMA FreeInDecode ==
    ASSUME TypeInv, FetchedGroup, if_id[0].valid, Free(if_id[0].pc, num_lanes)
    PROVE  /\ ~LoadUse /\ SquashFrom = num_lanes /\ ~Asked
           /\ \A i \in Lane : if_id[i].valid
<1>1. num_lanes \in Nat \ {0} /\ Lane = 0..(num_lanes - 1) /\ 0 \in Lane
  BY Lanes DEF Lane
<1>2. ASSUME NEW i \in Lane
      PROVE  if_id[i].valid /\ Sources(Decoded[i]) \subseteq {ZERO_REG} /\ ~Jumps(Decoded[i])
  <2>1. if_id[i].valid /\ if_id[i].instr = Fetched(program, if_id[0].pc + 4 * i)
    BY <1>1 DEF FetchedGroup
  <2>2. Independent(if_id[i].instr)
    BY <1>1, <2>1 DEF Free
  <2>3. if_id[i].instr \in Instruction
    BY StageFields
  <2> QED BY <2>1, <2>2, <2>3, FreeSources DEF Decoded
<1>3. ~LoadUse
  BY <1>2 DEF LoadUse
<1>4. Dependent = {} /\ Shadow = {}
  BY <1>2 DEF Dependent, Shadow, Jumps
<1>5. SquashFrom = num_lanes
  <2>1. {num_lanes} \in SUBSET Nat /\ {num_lanes} # {}
    BY <1>1
  <2>2. Min({num_lanes}) \in {num_lanes}
    BY <2>1, OldestIs
  <2>3. SquashFrom = Min({num_lanes})
    BY <1>4 DEF SquashFrom
  <2> QED BY <2>2, <2>3
<1>6. ~Asked
  BY <1>1, <1>2 DEF Asked, Jumps
<1> QED BY <1>2, <1>3, <1>5, <1>6

\* ID hands a free group on whole.
LEMMA FreeIssues ==
    ASSUME Inv, NEW predicted \in BOOLEAN, predicted => Asked, Cycle(predicted), ~Mispredict,
           if_id[0].valid, Free(if_id[0].pc, num_lanes)
    PROVE  /\ if_id'[0].valid /\ \A i \in Lane : id_ex'[i].valid
           /\ id_ex'[0].pc = if_id[0].pc
<1>1. TypeInv /\ FetchedGroup /\ 0 \in Lane /\ num_lanes \in Nat /\ Lane = 0..(num_lanes - 1)
  BY Lanes DEF Inv, PathInv, Lane
<1>2. ~LoadUse /\ SquashFrom = num_lanes /\ ~predicted /\ \A i \in Lane : if_id[i].valid
  BY <1>1, FreeInDecode
<1>3. \A i \in Lane : id_ex'[i] = IssuedEntry(i, predicted)
  <2>1. \A i \in Lane : i < SquashFrom
    BY <1>1, <1>2
  <2> QED BY <1>1, <1>2, <2>1, Stages
<1>4. if_id' = [i \in Lane |-> FreshEntry(i)]
  BY <1>1, <1>2, Stages
<1>5. if_id'[0].valid
  BY <1>1, <1>4 DEF FreshEntry
<1>6. ASSUME NEW i \in Lane PROVE id_ex'[i].valid /\ id_ex'[i].pc = if_id[i].pc
  <2>1. IssuedEntry(i, predicted).valid /\ IssuedEntry(i, predicted).pc = if_id[i].pc
    BY DEF IssuedEntry
  <2> QED BY <1>3, <2>1
<1> QED BY <1>1, <1>5, <1>6

LEMMA RateStep ==
    ASSUME Inv, RateInv, NEW predicted \in BOOLEAN, predicted => Asked, Cycle(predicted)
    PROVE  RateInv'
<1>1. /\ TypeInv /\ PathInv /\ PredictionInv /\ Lane' = Lane /\ program' = program
      /\ num_lanes' = num_lanes /\ 0 \in Lane /\ num_lanes \in Nat \ {0} /\ Lane = 0..(num_lanes - 1)
  BY Stages, Lanes DEF Inv, Lane
<1>2. CASE Mispredict
  <2>1. ~id_ex'[0].valid /\ ~ex_mem'[0].valid
    BY <1>1, <1>2, Stages, BubbleFields
  <2> QED BY <2>1 DEF RateInv
<1>3. CASE ~Mispredict
  <2>1. ASSUME id_ex'[0].valid, Free(id_ex'[0].pc, num_lanes)
        PROVE  if_id'[0].valid /\ \A i \in Lane : id_ex'[i].valid
    <3>1. ~LoadUse
      BY <1>1, <1>3, <2>1, Stages, BubbleFields
    <3>2. if_id[0].valid /\ id_ex'[0] = IssuedEntry(0, predicted)
      BY <1>1, <1>3, <2>1, <3>1, IssueStep
    <3>3. id_ex'[0].pc = if_id[0].pc
      BY <3>2 DEF IssuedEntry
    <3> QED BY <1>3, <2>1, <3>2, <3>3, FreeIssues
  <2>2. ASSUME ex_mem'[0].valid, Free(ex_mem'[0].pc, 2 * num_lanes),
               ex_mem'[0].pc + 4 * num_lanes \in Word
        PROVE  /\ \A i \in Lane : ex_mem'[i].valid /\ id_ex'[i].valid
               /\ id_ex'[0].pc = ex_mem'[0].pc + 4 * num_lanes
    <3>1. PICK at \in Word : at = id_ex[0].pc
      BY <1>1, StageFields
    <3>2. id_ex[0].valid /\ ex_mem'[0].pc = at /\ \A i \in Lane : ex_mem'[i].valid = id_ex[i].valid
      BY <1>1, <1>3, <2>2, <3>1, Executed
    <3>3. at \in Int /\ at + 4 * num_lanes \in Word
      BY <2>2, <3>2, WordsType DEF Word
    <3>4. Free(at, num_lanes)
      <4>1. \A i \in 0..(num_lanes - 1) : i \in 0..(2 * num_lanes - 1)
        BY <1>1
      <4> QED BY <2>2, <3>2, <4>1 DEF Free
    <3>5. if_id[0].valid /\ \A i \in Lane : id_ex[i].valid
      BY <3>1, <3>2, <3>4 DEF RateInv
    <3> DEFINE last == num_lanes - 1
    <3>6. last \in Lane /\ Last(id_ex, last)
      BY <1>1, <3>5 DEF Last
    <3>7. FrontPC = Mask(id_ex[last].pc + 4) /\ id_ex[last].pc = Mask(at + 4 * last)
      BY <1>1, <3>1, <3>5, <3>6 DEF PathInv, PredictionInv, Follower, Issues
    <3>8. if_id[0].pc = at + 4 * num_lanes
      <4>1. PICK x \in Int : x = at + 4 * last
        BY <1>1, <3>3
      <4>2. Mask(Mask(x) + 4) = Mask(x + 4) /\ x + 4 = at + 4 * num_lanes
        BY <1>1, <3>3, <4>1, MaskSum
      <4>3. FrontPC = if_id[0].pc
        BY <3>5 DEF FrontPC
      <4> QED BY <3>3, <3>7, <4>1, <4>2, <4>3, MaskWord
    <3>9. Free(if_id[0].pc, num_lanes)
      <4> SUFFICES ASSUME NEW i \in 0..(num_lanes - 1)
                   PROVE  Independent(Fetched(program, if_id[0].pc + 4 * i))
        BY DEF Free
      <4>1. PICK j \in 0..(2 * num_lanes - 1) : j = num_lanes + i
        BY <1>1
      <4>2. if_id[0].pc + 4 * i = at + 4 * j
        BY <1>1, <3>3, <3>8, <4>1
      <4> QED BY <2>2, <3>2, <4>2, <1>1 DEF Free
    <3> QED BY <1>3, <3>2, <3>5, <3>8, <3>9, FreeIssues
  <2>3. \A at, n : Free(at, n)' <=> Free(at, n)
    BY <1>1 DEF Free
  <2> QED BY <1>1, <2>1, <2>2, <2>3 DEF RateInv, FreeBelowTheEnd, Free
<1> QED BY <1>2, <1>3

LEMMA RateInvariance == Spec => []RateInv
<1>1. Init => RateInv
  BY Lanes, TypeInitial DEF Init, RateInv, Bubbles, DecodeBubble, ExecuteBubble
<1>2. Inv /\ RateInv /\ [Next]_vars => RateInv'
  <2> SUFFICES ASSUME Inv, RateInv, [Next]_vars PROVE RateInv'
    OBVIOUS
  <2>1. CASE Next
    BY <2>1, RateStep DEF Next
  <2>2. CASE UNCHANGED vars
    BY <2>2 DEF vars, RateInv, Free, FreeBelowTheEnd, Lane
  <2> QED BY <2>1, <2>2
<1> QED BY <1>1, <1>2, InvInvariance, PTL DEF Spec

FollowsWhole ==
    (/\ ex_mem[0].valid
     /\ \A i \in 0..(2 * num_lanes - 1) : Independent(Fetched(program, ex_mem[0].pc + 4 * i)))
    => \A i \in Lane : ex_mem'[i].valid /\ ex_mem'[i].pc = Mask(ex_mem[i].pc + 4 * num_lanes)

LEMMA StepFollows == Inv /\ RateInv /\ FreeBelowTheEnd /\ [Next]_vars => [FollowsWhole]_vars
<1> SUFFICES ASSUME Inv, RateInv, FreeBelowTheEnd, Next, ex_mem[0].valid, Free(ex_mem[0].pc, 2 * num_lanes),
                    NEW i \in Lane
             PROVE  ex_mem'[i].valid /\ ex_mem'[i].pc = Mask(ex_mem[i].pc + 4 * num_lanes)
  BY DEF FollowsWhole, Free
<1>1. /\ TypeInv /\ PathInv /\ 0 \in Lane /\ num_lanes \in Nat \ {0} /\ Lane = 0..(num_lanes - 1)
  BY Lanes DEF Inv, Lane
<1>2. PICK predicted \in BOOLEAN : (predicted => Asked) /\ Cycle(predicted)
  BY DEF Next
<1>3. PICK at \in Int : at = ex_mem[0].pc
  BY <1>1, StageFields, WordsType DEF Word
<1>4. ~Mispredict
  <2>1. ex_mem[0].c = Decode(Fetched(program, at + 4 * 0))
    BY <1>1, <1>3 DEF PathInv, Issues
  <2>2. 0 \in 0..(2 * num_lanes - 1)
    BY <1>1
  <2>3. Independent(Fetched(program, at + 4 * 0))
    BY <1>3, <2>2 DEF Free
  <2>4. Fetched(program, at + 4 * 0) \in Instruction
    <3>1. \A w \in DOMAIN program : program[w] \in Instruction
      BY <1>1, SuperscalarAssumption DEF TypeInv
    <3> QED BY <3>1, FetchedType
  <2> QED BY <2>1, <2>3, <2>4, FreeSources DEF Mispredict, IsControl, Jumps
<1>5. /\ ex_mem[i].valid /\ id_ex[i].valid /\ id_ex[0].pc = at + 4 * num_lanes
  BY <1>3 DEF RateInv
<1>6. ex_mem'[i].valid /\ ex_mem'[i].pc = id_ex[i].pc
  BY <1>1, <1>2, <1>4, <1>5, Executed
<1>7. id_ex[i].pc = Mask(id_ex[0].pc + 4 * i) /\ ex_mem[i].pc = Mask(at + 4 * i)
  BY <1>1, <1>3, <1>5 DEF PathInv, Issues
<1>8. PICK x \in Int, y \in Int : x = at + 4 * i /\ y = 4 * num_lanes
  BY <1>1
<1>9. Mask(Mask(x) + y) = Mask(x + y)
  BY MaskSum
<1>10. x + y = id_ex[0].pc + 4 * i
  BY <1>1, <1>3, <1>5, <1>8
<1> QED BY <1>6, <1>7, <1>8, <1>9, <1>10

\* Of independent instructions as many commit in every cycle as there are lanes, for
\* every number of lanes and every program; the one condition is that they do not
\* reach over the end of the address space.
THEOREM RunsAtFullRate == Spec /\ []FreeBelowTheEnd => FullRate
<1>1. Inv /\ RateInv /\ FreeBelowTheEnd /\ [Next]_vars => [FollowsWhole]_vars
  BY StepFollows
<1>2. Spec /\ []FreeBelowTheEnd => [][FollowsWhole]_vars
  BY <1>1, InvInvariance, RateInvariance, PTL DEF Spec
<1> QED BY <1>2, PTL DEF FollowsWhole, FullRate

\* On the single-cycle machine free instructions follow each other.
LEMMA FreeOnPath == Inv /\ OnPath => FreeBelowTheEnd
<1> SUFFICES ASSUME Inv, OnPath, ex_mem[0].valid, Free(ex_mem[0].pc, 2 * num_lanes)
             PROVE  ex_mem[0].pc + 4 * num_lanes \in Word
  BY DEF FreeBelowTheEnd
<1>1. TypeInv /\ 0 \in Lane /\ num_lanes \in Nat \ {0}
  BY Lanes DEF Inv
<1>2. PICK S : StaysBelow(program, S) /\ Committed \in S
  BY DEF OnPath
<1>3. PICK at \in Int : at = ex_mem[0].pc /\ at \in Word
  <2>1. ex_mem[0].pc \in Word
    BY <1>1, StageFields
  <2> QED BY <2>1, WordsType DEF Word
<1> DEFINE T == {n \in 0..num_lanes : at + 4 * n \in Word /\ \E s \in S : s.pc = at + 4 * n}
<1>4. 0 \in T
  <2>1. Committed.pc = at
    BY <1>3 DEF Committed, CommittedPC
  <2> QED BY <1>1, <1>2, <1>3, <2>1
<1>5. ASSUME NEW n \in 0..(num_lanes - 1), n \in T PROVE n + 1 \in T
  <2>1. PICK s \in S : s.pc = at + 4 * n
    BY <1>5
  <2>2. s.pc + 4 \in Word /\ Step(program, s) \in S
    BY <1>2 DEF StaysBelow
  <2>3. Step(program, s).pc = s.pc + 4
    <3>1. PICK c : c = Decode(Fetched(program, s.pc))
      OBVIOUS
    <3>2. Independent(Fetched(program, s.pc))
      <4>1. n \in 0..(2 * num_lanes - 1)
        BY <1>1
      <4> QED BY <1>3, <2>1, <4>1 DEF Free
    <3>3. Fetched(program, s.pc) \in Instruction
      <4>1. \A w \in DOMAIN program : program[w] \in Instruction
        BY <1>1, SuperscalarAssumption DEF TypeInv
      <4> QED BY <4>1, FetchedType
    <3>4. ~c.branch /\ ~c.jal /\ ~c.jalr
      BY <3>1, <3>2, <3>3, FreeSources DEF Jumps
    <3>5. \A a, x : NextPC(c, s.pc, a, x) = Mask(s.pc + 4)
      BY <3>4 DEF NextPC, Redirects
    <3>6. Step(program, s).pc = Mask(s.pc + 4)
      BY <3>1, <3>5 DEF Step
    <3> QED BY <2>2, <3>6, MaskWord
  <2>4. s.pc + 4 = at + 4 * (n + 1) /\ n + 1 \in 0..num_lanes
    BY <1>1, <1>3, <2>1
  <2> QED BY <2>2, <2>3, <2>4
<1>6. num_lanes \in T
  <2> HIDE DEF T
  <2>1. 0..num_lanes \subseteq T
    BY <1>1, <1>4, <1>5, NatByInduction
  <2> QED BY <1>1, <2>1
<1> QED BY <1>3, <1>6

\* With every program that stays below the end of the address space on the
\* single-cycle machine, independent instructions commit at the full rate.
THEOREM FullRateBelowTheEnd == BelowTheEnd => (Spec => FullRate)
<1> SUFFICES ASSUME BelowTheEnd PROVE Spec => FullRate
  OBVIOUS
<1>1. Init => OnPath
  BY PathInitial
<1>2. Inv /\ OnPath /\ [Next]_vars => OnPath'
  BY PathKept
<1>3. Inv /\ OnPath => FreeBelowTheEnd
  BY FreeOnPath
<1>4. Inv /\ RateInv /\ FreeBelowTheEnd /\ [Next]_vars => [FollowsWhole]_vars
  BY StepFollows
<1>5. Spec => [][FollowsWhole]_vars
  BY <1>1, <1>2, <1>3, <1>4, InvInvariance, RateInvariance, PTL DEF Spec
<1> QED BY <1>5, PTL DEF FollowsWhole, FullRate
=============================================================================
