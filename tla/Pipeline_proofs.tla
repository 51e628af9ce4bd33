--------------------------- MODULE Pipeline_proofs ---------------------------
(***************************************************************************)
(* The pipeline keeps its types, squashes completely, stalls once, and       *)
(* commits what the single-cycle machine computes, for every predictor,     *)
(* program, width of a word, register count, memory and buffer size.        *)
(***************************************************************************)
EXTENDS Pipeline, Datapath_proofs

-----------------------------------------------------------------------------
(* The inductive invariants.                                                *)

\* Types, and that what is not a valid instruction has no effect.
TypeInv ==
    /\ prediction_stage \in DOMAIN Programs
    /\ program \in Programs[prediction_stage]
    /\ pc \in Word
    /\ if_id \in FetchEntry
    /\ id_ex \in DecodeEntry
    /\ ex_mem \in ExecuteEntry
    /\ mem_wb \in MemoryEntry
    /\ regs \in [Reg -> Word]
    /\ mem \in Mem
    /\ btb \in [BtbSlot -> BtbEntry \cup {NoEntry}]
    /\ ~if_id.valid => if_id.instr = Nop /\ ~if_id.predicted
    /\ ~id_ex.valid => Quiet(id_ex.c)
    /\ ~ex_mem.valid => Quiet(ex_mem.c)
    /\ ~mem_wb.valid => Quiet(mem_wb.c)

\* The control signals of the instruction at an address, and the address its
\* prediction leads to.
ControlAt(a) == Decode(Fetched(program, a))
Follower(a, predicted) == IF predicted THEN Mask(a + ControlAt(a).imm) ELSE Mask(a + 4)

Steers(c) == c.branch \/ c.jal

\* The address of the oldest instruction that has not left ID, or EX.
FrontPC == IF if_id.valid THEN if_id.pc ELSE pc
IssuePC == IF id_ex.valid THEN id_ex.pc ELSE FrontPC

\* Each stage holds the instruction its predecessor predicts.
PathInv ==
    /\ if_id.valid => /\ if_id.instr = Fetched(program, if_id.pc)
                      /\ pc = Follower(if_id.pc, if_id.predicted)
    /\ id_ex.valid => /\ id_ex.c = ControlAt(id_ex.pc)
                      /\ FrontPC = Follower(id_ex.pc, id_ex.predicted)
    /\ ex_mem.valid => /\ ex_mem.c = ControlAt(ex_mem.pc)
                       /\ IssuePC = Follower(ex_mem.pc, ex_mem.predicted)

\* Only branches and direct jumps are predicted; in ID with nothing behind them.
PredictionInv ==
    /\ if_id.predicted => prediction_stage = "if" /\ Steers(Decode(if_id.instr))
    /\ id_ex.predicted => Steers(id_ex.c)
    /\ ex_mem.predicted => Steers(ex_mem.c)
    /\ prediction_stage = "id" => /\ id_ex.predicted => ~if_id.valid
                                  /\ ex_mem.predicted => ~id_ex.valid

\* The operands read in ID are those of the register file one cycle later; what
\* leaves EX was computed from the committed registers.
DataInv ==
    /\ id_ex.valid => /\ id_ex.rs1_data = RegRead(regs, id_ex.c.rs1)
                      /\ id_ex.rs2_data = RegRead(regs, id_ex.c.rs2)
    /\ ex_mem.valid => /\ ex_mem.rs1_data = RegRead(CommittedRegs, ex_mem.c.rs1)
                       /\ ex_mem.rs2_data = RegRead(CommittedRegs, ex_mem.c.rs2)
                       /\ ex_mem.alu_result =
                             ResultOf(ex_mem.c, ex_mem.pc, ex_mem.rs1_data, ex_mem.rs2_data)
    /\ id_ex.valid /\ ex_mem.c.mem_read /\ ex_mem.c.rd # 0 =>
          ex_mem.c.rd \notin {id_ex.c.rs1, id_ex.c.rs2}

\* The buffer holds only targets that never change.
BtbInv ==
    \A i \in BtbSlot : btb[i] # NoEntry =>
        /\ Steers(ControlAt(btb[i].pc))
        /\ btb[i].target = Mask(btb[i].pc + ControlAt(btb[i].pc).imm)

Inv == TypeInv /\ PathInv /\ PredictionInv /\ DataInv /\ BtbInv

-----------------------------------------------------------------------------
(* The combinational values have their types.                               *)

LEMMA ProgramType == TypeInv => \A w \in DOMAIN program : program[w] \in Instruction
BY PipelineAssumption DEF TypeInv

LEMMA ControlAtType ==
    ASSUME TypeInv, NEW a
    PROVE  Fetched(program, a) \in Instruction /\ ControlAt(a) \in Control
<1>1. Fetched(program, a) \in Instruction
  BY ProgramType, FetchedType
<1> QED BY <1>1, DecodeType DEF ControlAt

LEMMA ControlFields ==
    ASSUME NEW c \in Control
    PROVE  /\ c.rd \in Reg /\ c.rs1 \in Reg /\ c.rs2 \in Reg /\ c.imm \in Word
           /\ c.reg_write \in BOOLEAN /\ c.mem_read \in BOOLEAN /\ c.mem_write \in BOOLEAN
           /\ c.branch \in BOOLEAN /\ c.jal \in BOOLEAN /\ c.jalr \in BOOLEAN
BY DEF Control

LEMMA StageFields ==
    ASSUME TypeInv
    PROVE  /\ if_id.valid \in BOOLEAN /\ if_id.pc \in Word /\ if_id.instr \in Instruction
           /\ if_id.predicted \in BOOLEAN
           /\ id_ex.valid \in BOOLEAN /\ id_ex.pc \in Word /\ id_ex.c \in Control
           /\ id_ex.rs1_data \in Word /\ id_ex.rs2_data \in Word /\ id_ex.predicted \in BOOLEAN
           /\ ex_mem.valid \in BOOLEAN /\ ex_mem.pc \in Word /\ ex_mem.c \in Control
           /\ ex_mem.alu_result \in Word /\ ex_mem.rs1_data \in Word /\ ex_mem.rs2_data \in Word
           /\ ex_mem.predicted \in BOOLEAN
           /\ mem_wb.valid \in BOOLEAN /\ mem_wb.pc \in Word /\ mem_wb.c \in Control
           /\ mem_wb.alu_result \in Word /\ mem_wb.mem_data \in Word
BY DEF TypeInv, FetchEntry, DecodeEntry, ExecuteEntry, MemoryEntry

LEMMA ValuesType ==
    ASSUME TypeInv
    PROVE  /\ WbData \in Word
           /\ \A r \in Reg : Read(r) \in Word
           /\ Decoded \in Control
           /\ Operand1 \in Word /\ Operand2 \in Word
           /\ AluResult = ResultOf(id_ex.c, id_ex.pc, Operand1, Operand2)
           /\ AluResult \in Word
           /\ Target \in Word
<1> USE StageFields
<1>1. WbData \in Word
  BY WriteBackType DEF WbData
<1>2. ASSUME NEW r \in Reg PROVE Read(r) \in Word
  <2>1. RegRead(regs, r) \in Word
    BY RegReadType DEF TypeInv
  <2> QED BY <1>1, <2>1 DEF Read
<1>3. Decoded \in Control
  BY DecodeType DEF Decoded
<1>4. ASSUME NEW r, NEW read \in Word PROVE Forward(r, read) \in Word
  <2> DEFINE produces(c) == c.reg_write /\ c.rd = r /\ r # ZERO_REG
  <2>1. CASE produces(ex_mem.c)
    BY <2>1 DEF Forward
  <2>2. CASE ~produces(ex_mem.c) /\ produces(mem_wb.c)
    BY <1>1, <2>2 DEF Forward
  <2>3. CASE ~produces(ex_mem.c) /\ ~produces(mem_wb.c)
    BY <1>4, <2>3 DEF Forward
  <2> QED BY <2>1, <2>2, <2>3
<1>5. Operand1 \in Word /\ Operand2 \in Word
  BY <1>4 DEF Operand1, Operand2
<1>6. AluResult = ResultOf(id_ex.c, id_ex.pc, Operand1, Operand2)
  BY DEF AluResult, ResultOf
<1>7. AluResult \in Word
  BY <1>5, <1>6, ResultType
<1>8. Target \in Word
  BY NextPCType DEF Target
<1> QED BY <1>1, <1>2, <1>3, <1>5, <1>6, <1>7, <1>8

LEMMA BtbIndexType == ASSUME NEW a \in Word PROVE BtbIndex(a) \in BtbSlot
<1>1. a \in Nat /\ BTB_SIZE \in Nat \ {0}
  BY PipelineAssumption, WordsType DEF Word
<1>2. a \div 4 \in Nat
  BY <1>1
<1> QED BY <1>1, <1>2 DEF BtbIndex, BtbSlot

\* Wherever the predictor may answer "taken" its target is a word.
LEMMA PredictTargetType ==
    ASSUME TypeInv, Asked
    PROVE  PredictTarget \in Word
<1>1. CASE prediction_stage = "if"
  <2>1. BtbIndex(pc) \in BtbSlot
    BY BtbIndexType DEF TypeInv
  <2>2. btb[BtbIndex(pc)] \in BtbEntry
    BY <1>1, <2>1 DEF TypeInv, Asked, BtbHit
  <2> QED BY <1>1, <2>2 DEF PredictTarget, BtbEntry
<1>2. CASE prediction_stage # "if"
  <2>1. Decoded.imm \in Word
    BY ValuesType, ControlFields
  <2> QED BY <1>2, <2>1, StageFields, AddressType DEF PredictTarget
<1> QED BY <1>1, <1>2

LEMMA TrainedType == ASSUME TypeInv PROVE Trained \in [BtbSlot -> BtbEntry \cup {NoEntry}]
<1> DEFINE i == BtbIndex(ex_mem.pc)
           new == [pc      |-> ex_mem.pc,
                   target  |-> IF Taken THEN Target ELSE btb[i].target,
                   counter |-> CASE ~BtbHit(ex_mem.pc) -> 2
                                 [] BtbHit(ex_mem.pc) /\ Taken ->
                                      IF btb[i].counter = 3 THEN 3 ELSE btb[i].counter + 1
                                 [] OTHER -> IF btb[i].counter = 0 THEN 0 ELSE btb[i].counter - 1]
<1>1. i \in BtbSlot /\ ex_mem.pc \in Word /\ Target \in Word
  BY StageFields, BtbIndexType, ValuesType
<1>2. btb \in [BtbSlot -> BtbEntry \cup {NoEntry}]
  BY DEF TypeInv
<1>3. CASE prediction_stage = "id" \/ ~IsControl \/ ~(Taken \/ BtbHit(ex_mem.pc))
  BY <1>2, <1>3 DEF Trained
<1>4. CASE ~(prediction_stage = "id" \/ ~IsControl \/ ~(Taken \/ BtbHit(ex_mem.pc)))
  <2>1. BtbHit(ex_mem.pc) => btb[i] \in BtbEntry
    BY <1>1, <1>2 DEF BtbHit
  <2>2. Taken \in BOOLEAN /\ BtbHit(ex_mem.pc) \in BOOLEAN
    BY StageFields, ControlFields DEF Taken, Redirects, BtbHit, BranchTaken
  <2>3. ~BtbHit(ex_mem.pc) => new \in BtbEntry
    BY <1>1, <1>4, <2>2 DEF BtbEntry
  <2>4. BtbHit(ex_mem.pc) => new \in BtbEntry
    <3> SUFFICES ASSUME BtbHit(ex_mem.pc) PROVE new \in BtbEntry
      OBVIOUS
    <3>1. btb[i].target \in Word /\ btb[i].counter \in 0..3
      BY <2>1 DEF BtbEntry
    <3> HIDE DEF i
    <3>2. CASE Taken
      BY <1>1, <3>1, <3>2 DEF BtbEntry
    <3>3. CASE ~Taken
      BY <1>1, <3>1, <3>3 DEF BtbEntry
    <3> QED BY <3>2, <3>3
  <2>5. new \in BtbEntry
    BY <2>2, <2>3, <2>4
  <2>6. Trained = [btb EXCEPT ![i] = new]
    BY <1>4 DEF Trained
  <2> HIDE DEF new, i
  <2> QED BY <1>1, <1>2, <2>5, <2>6
<1> QED BY <1>3, <1>4

-----------------------------------------------------------------------------
(* Type correctness.                                                        *)

LEMMA TypeInitial == Init => TypeInv
<1> SUFFICES ASSUME Init PROVE TypeInv
  OBVIOUS
<1>1. regs \in [Reg -> Word] /\ mem \in Mem /\ pc \in Word
  BY InitialType DEF Init
<1>2. if_id \in FetchEntry /\ id_ex \in DecodeEntry /\ ex_mem \in ExecuteEntry /\ mem_wb \in MemoryEntry
  BY BubbleTypes DEF Init
<1>3. /\ if_id.instr = Nop /\ ~if_id.predicted
      /\ Quiet(id_ex.c) /\ Quiet(ex_mem.c) /\ Quiet(mem_wb.c)
  BY NoControlType DEF Init, FetchBubble, DecodeBubble, ExecuteBubble, MemoryBubble
<1>4. btb \in [BtbSlot -> BtbEntry \cup {NoEntry}]
  BY DEF Init
<1> QED BY <1>1, <1>2, <1>3, <1>4 DEF Init, TypeInv

LEMMA TypeStep ==
    ASSUME TypeInv, NEW predicted \in BOOLEAN, predicted => Asked, Cycle(predicted)
    PROVE  TypeInv'
<1> USE StageFields, ValuesType
<1>1. pc' \in Word
  <2>1. pc \in Word /\ 4 \in Int /\ Mask(pc + 4) \in Word
    BY AddressType DEF TypeInv
  <2>2. predicted => PredictTarget \in Word
    BY PredictTargetType
  <2>3. pc' \in {Target, pc, Mask(pc + 4)} \/ (predicted /\ pc' = PredictTarget)
    <3>1. CASE Mispredict
      BY <3>1 DEF Cycle, Fetch
    <3>2. CASE ~Mispredict /\ LoadUse
      BY <3>2 DEF Cycle, Fetch
    <3>3. CASE ~Mispredict /\ ~LoadUse /\ predicted
      BY <3>3 DEF Cycle, Fetch
    <3>4. CASE ~Mispredict /\ ~LoadUse /\ ~predicted
      BY <3>4 DEF Cycle, Fetch
    <3> QED BY <3>1, <3>2, <3>3, <3>4
  <2> QED BY <2>1, <2>2, <2>3
<1>2. if_id' \in FetchEntry /\ (~if_id'.valid => if_id'.instr = Nop /\ ~if_id'.predicted)
  <2> DEFINE new == [valid |-> TRUE, pc |-> pc, instr |-> Fetched(program, pc), predicted |-> predicted]
  <2>1. new \in FetchEntry
    BY ControlAtType DEF TypeInv, FetchEntry
  <2>2. if_id' \in {FetchBubble, if_id, new}
    <3>1. CASE Mispredict
      BY <3>1 DEF Cycle, IF_ID
    <3>2. CASE ~Mispredict /\ LoadUse
      BY <3>2 DEF Cycle, IF_ID
    <3>3. CASE ~Mispredict /\ ~LoadUse /\ predicted /\ prediction_stage = "id"
      BY <3>3 DEF Cycle, IF_ID
    <3>4. CASE ~Mispredict /\ ~LoadUse /\ ~(predicted /\ prediction_stage = "id")
      BY <3>4 DEF Cycle, IF_ID
    <3> QED BY <3>1, <3>2, <3>3, <3>4
  <2>3. ~FetchBubble.valid /\ FetchBubble.instr = Nop /\ ~FetchBubble.predicted
    BY DEF FetchBubble
  <2>4. new.valid
    OBVIOUS
  <2> HIDE DEF new
  <2> QED BY <2>1, <2>2, <2>3, <2>4, BubbleTypes DEF TypeInv
<1>3. id_ex' \in DecodeEntry /\ (~id_ex'.valid => Quiet(id_ex'.c))
  <2> DEFINE new == DecodedEntry(predicted)
  <2>1. Read(Decoded.rs1) \in Word /\ Read(Decoded.rs2) \in Word
    BY ControlFields
  <2>2. new \in DecodeEntry
    BY <2>1 DEF DecodedEntry, DecodeEntry
  <2>3. ~new.valid => Quiet(new.c)
    BY NopQuiet, PipelineAssumption DEF DecodedEntry, Decoded, TypeInv
  <2>4. id_ex' \in {DecodeBubble, new}
    BY DEF Cycle, ID_EX
  <2>5. Quiet(DecodeBubble.c)
    BY NoControlType DEF DecodeBubble
  <2> HIDE DEF new
  <2> QED BY <2>2, <2>3, <2>4, <2>5, BubbleTypes
<1>4. ex_mem' \in ExecuteEntry /\ (~ex_mem'.valid => Quiet(ex_mem'.c))
  <2> DEFINE new == [valid |-> id_ex.valid, pc |-> id_ex.pc, c |-> id_ex.c,
                     alu_result |-> AluResult, rs1_data |-> Operand1,
                     rs2_data |-> Operand2, predicted |-> id_ex.predicted]
  <2>1. new \in ExecuteEntry
    BY DEF ExecuteEntry
  <2>2. ~new.valid => Quiet(new.c)
    BY DEF TypeInv
  <2>3. ex_mem' \in {ExecuteBubble, new}
    BY DEF Cycle, EX_MEM
  <2>5. Quiet(ExecuteBubble.c)
    BY NoControlType DEF ExecuteBubble
  <2> HIDE DEF new
  <2> QED BY <2>1, <2>2, <2>3, <2>5, BubbleTypes
<1>5. mem_wb' \in MemoryEntry /\ (~mem_wb'.valid => Quiet(mem_wb'.c))
  <2>1. mem[MemIndex(ex_mem.alu_result)] \in Word
    BY MemReadType DEF TypeInv
  <2>2. mem_wb' = [valid |-> ex_mem.valid, pc |-> ex_mem.pc, c |-> ex_mem.c,
                   alu_result |-> ex_mem.alu_result,
                   mem_data |-> mem[MemIndex(ex_mem.alu_result)]]
    BY DEF Cycle, MEM_WB
  <2>3. ~ex_mem.valid => Quiet(ex_mem.c)
    BY DEF TypeInv
  <2> QED BY <2>1, <2>2, <2>3 DEF MemoryEntry
<1>6. regs' \in [Reg -> Word]
  BY RegWriteType, ControlFields DEF Cycle, TypeInv
<1>7. mem' \in Mem
  BY MemWriteType DEF Cycle, TypeInv
<1>8. btb' \in [BtbSlot -> BtbEntry \cup {NoEntry}]
  BY TrainedType DEF Cycle
<1>9. UNCHANGED <<prediction_stage, program>>
  BY DEF Cycle
<1> QED BY <1>1, <1>2, <1>3, <1>4, <1>5, <1>6, <1>7, <1>8, <1>9 DEF TypeInv

LEMMA TypeInvariance == Spec => []TypeInv
<1>1. TypeInv /\ [Next]_vars => TypeInv'
  <2> SUFFICES ASSUME TypeInv, [Next]_vars PROVE TypeInv'
    OBVIOUS
  <2>1. CASE Next
    BY <2>1, TypeStep DEF Next
  <2>2. CASE UNCHANGED vars
    BY <2>2 DEF vars, TypeInv
  <2> QED BY <2>1, <2>2
<1> QED BY <1>1, TypeInitial, PTL DEF Spec

\* Whatever programs, predictors and buffer do, every latch holds values of its
\* width.
THEOREM TypeCorrect == Spec => []TypeOK
<1>1. TypeInv => TypeOK
  BY StageFields DEF TypeInv, TypeOK, Mem
<1> QED BY <1>1, TypeInvariance, PTL

\* Squashing is complete: no bubble and no squashed instruction writes memory or a
\* register or steers the fetch unit.
THEOREM SquashesCompletely == Spec => []OnlyValidInstructionsWrite
<1>1. TypeInv => OnlyValidInstructionsWrite
  BY DEF TypeInv, OnlyValidInstructionsWrite, IsControl, Quiet
<1> QED BY <1>1, TypeInvariance, PTL

\* A stalled cycle passes a bubble to EX, so the next one does not stall.
THEOREM NeverStallsTwice == Spec => StallsOnce
<1>1. ASSUME [Next]_vars PROVE [LoadUse => ~LoadUse']_vars
  <2>1. CASE Next
    <3>1. PICK predicted \in BOOLEAN : Cycle(predicted)
      BY <2>1 DEF Next
    <3>2. LoadUse => id_ex' = DecodeBubble
      BY <3>1 DEF Cycle, ID_EX
    <3>3. id_ex' = DecodeBubble => ~LoadUse'
      BY DEF LoadUse, DecodeBubble, NoControl
    <3> QED BY <3>2, <3>3
  <2>2. CASE UNCHANGED vars
    BY <2>2
  <2> QED BY <1>1, <2>1, <2>2
<1> QED BY <1>1, PTL DEF Spec, StallsOnce

-----------------------------------------------------------------------------
(* What a cycle does to the stages.                                         *)

LEMMA Stages ==
    ASSUME NEW predicted \in BOOLEAN, Cycle(predicted)
    PROVE  /\ Mispredict => /\ pc' = Target
                            /\ if_id' = FetchBubble
                            /\ id_ex' = DecodeBubble
                            /\ ex_mem' = ExecuteBubble
           /\ ~Mispredict => ex_mem' = [valid |-> id_ex.valid, pc |-> id_ex.pc, c |-> id_ex.c,
                                        alu_result |-> AluResult, rs1_data |-> Operand1,
                                        rs2_data |-> Operand2, predicted |-> id_ex.predicted]
           /\ ~Mispredict /\ LoadUse => pc' = pc /\ if_id' = if_id /\ id_ex' = DecodeBubble
           /\ ~Mispredict /\ ~LoadUse =>
                 /\ id_ex' = DecodedEntry(predicted)
                 /\ pc' = IF predicted THEN PredictTarget ELSE Mask(pc + 4)
                 /\ if_id' = IF predicted /\ prediction_stage = "id" THEN FetchBubble
                             ELSE [valid |-> TRUE, pc |-> pc, instr |-> Fetched(program, pc),
                                   predicted |-> predicted]
<1>1. CASE Mispredict
  BY <1>1 DEF Cycle, Fetch, IF_ID, ID_EX, EX_MEM
<1>2. CASE ~Mispredict /\ LoadUse
  BY <1>2 DEF Cycle, Fetch, IF_ID, ID_EX, EX_MEM
<1>3. CASE ~Mispredict /\ ~LoadUse /\ predicted
  <2>1. CASE prediction_stage = "id"
    BY <1>3, <2>1 DEF Cycle, Fetch, IF_ID, ID_EX, EX_MEM
  <2>2. CASE prediction_stage # "id"
    BY <1>3, <2>2 DEF Cycle, Fetch, IF_ID, ID_EX, EX_MEM
  <2> QED BY <2>1, <2>2
<1>4. CASE ~Mispredict /\ ~LoadUse /\ ~predicted
  BY <1>4 DEF Cycle, Fetch, IF_ID, ID_EX, EX_MEM
<1> QED BY <1>1, <1>2, <1>3, <1>4

\* The bubbles are not valid and predict nothing.
LEMMA Bubbles ==
    /\ ~FetchBubble.valid /\ ~FetchBubble.predicted
    /\ ~DecodeBubble.valid /\ ~DecodeBubble.predicted /\ ~DecodeBubble.c.mem_read
    /\ ~ExecuteBubble.valid /\ ~ExecuteBubble.predicted
BY DEF FetchBubble, DecodeBubble, ExecuteBubble, NoControl

\* Nothing is predicted on behalf of a bubble in ID.
LEMMA AskedInDecode ==
    ASSUME TypeInv, Asked, prediction_stage = "id"
    PROVE  if_id.valid /\ Steers(Decoded) /\ PredictTarget = Mask(if_id.pc + Decoded.imm)
<1>1. Steers(Decoded)
  BY DEF Asked, Steers
<1>2. if_id.valid
  BY <1>1, NopQuiet, PipelineAssumption DEF TypeInv, Decoded, Steers, Quiet
<1> QED BY <1>1, <1>2 DEF PredictTarget

\* What the buffer answers is where the instruction at pc goes when it is taken.
LEMMA AskedInFetch ==
    ASSUME TypeInv, BtbInv, Asked, prediction_stage = "if"
    PROVE  Steers(ControlAt(pc)) /\ PredictTarget = Mask(pc + ControlAt(pc).imm)
<1>1. BtbIndex(pc) \in BtbSlot
  BY BtbIndexType DEF TypeInv
<1>2. btb[BtbIndex(pc)] # NoEntry /\ btb[BtbIndex(pc)].pc = pc
  BY DEF Asked, BtbHit
<1>3. /\ Steers(ControlAt(btb[BtbIndex(pc)].pc))
      /\ btb[BtbIndex(pc)].target = Mask(btb[BtbIndex(pc)].pc + ControlAt(btb[BtbIndex(pc)].pc).imm)
  BY <1>1, <1>2 DEF BtbInv
<1> QED BY <1>2, <1>3 DEF PredictTarget

LEMMA PredictionStages == TypeInv => prediction_stage \in {"id", "if"}
BY PipelineAssumption DEF TypeInv

-----------------------------------------------------------------------------
(* The path of instructions.                                                *)

LEMMA PathStep ==
    ASSUME Inv, NEW predicted \in BOOLEAN, predicted => Asked, Cycle(predicted)
    PROVE  PathInv'
<1> DEFINE fetched == [valid |-> TRUE, pc |-> pc, instr |-> Fetched(program, pc),
                       predicted |-> predicted]
<1>1. /\ TypeInv /\ PathInv /\ PredictionInv /\ BtbInv
      /\ program' = program /\ prediction_stage' = prediction_stage
  BY DEF Inv, Cycle
<1>2. \A a : ControlAt(a)' = ControlAt(a) /\ Fetched(program', a) = Fetched(program, a)
  BY <1>1 DEF ControlAt
<1>3. \A a, p : Follower(a, p)' = Follower(a, p)
  BY <1>2 DEF Follower
<1>4. CASE Mispredict
  <2>1. ~if_id'.valid /\ ~id_ex'.valid /\ ~ex_mem'.valid
    BY <1>4, Stages, Bubbles
  <2> QED BY <2>1 DEF PathInv
<1>5. CASE ~Mispredict
  <2>1. ex_mem'.valid = id_ex.valid /\ ex_mem'.pc = id_ex.pc /\ ex_mem'.c = id_ex.c
        /\ ex_mem'.predicted = id_ex.predicted
    BY <1>5, Stages
  <2>2. /\ if_id'.valid => /\ if_id'.instr = Fetched(program, if_id'.pc)
                           /\ pc' = Follower(if_id'.pc, if_id'.predicted)
        /\ id_ex'.valid => /\ id_ex'.c = ControlAt(id_ex'.pc)
                           /\ FrontPC' = Follower(id_ex'.pc, id_ex'.predicted)
        /\ IssuePC' = FrontPC
    <3>1. CASE LoadUse
      <4>1. pc' = pc /\ if_id' = if_id /\ ~id_ex'.valid
        BY <1>5, <3>1, Stages, Bubbles
      <4> QED BY <1>1, <4>1 DEF PathInv, FrontPC, IssuePC
    <3>2. CASE ~LoadUse /\ predicted /\ prediction_stage = "id"
      <4>1. /\ if_id' = FetchBubble /\ pc' = PredictTarget
            /\ id_ex' = DecodedEntry(predicted)
        BY <1>5, <3>2, Stages
      <4>2. if_id.valid /\ pc' = Mask(if_id.pc + Decoded.imm)
        BY <1>1, <3>2, <4>1, AskedInDecode
      <4>3. Decoded = ControlAt(if_id.pc)
        BY <1>1, <4>2 DEF PathInv, Decoded, ControlAt
      <4>4. id_ex'.valid /\ id_ex'.pc = if_id.pc /\ id_ex'.c = Decoded /\ id_ex'.predicted
        BY <3>2, <4>1, <4>2 DEF DecodedEntry
      <4>5. ~if_id'.valid
        BY <4>1, Bubbles
      <4> QED BY <4>2, <4>3, <4>4, <4>5 DEF FrontPC, IssuePC, Follower
    <3>3. CASE ~LoadUse /\ ~(predicted /\ prediction_stage = "id")
      <4>1. /\ if_id' = fetched
            /\ pc' = IF predicted THEN PredictTarget ELSE Mask(pc + 4)
            /\ id_ex' = DecodedEntry(predicted)
        BY <1>5, <3>3, Stages
      <4>2. pc' = Follower(pc, predicted)
        <5>1. CASE predicted
          <6>1. prediction_stage = "if"
            BY <1>1, <3>3, <5>1, PredictionStages
          <6> QED BY <1>1, <4>1, <5>1, <6>1, AskedInFetch DEF Follower
        <5>2. CASE ~predicted
          BY <4>1, <5>2 DEF Follower
        <5> QED BY <5>1, <5>2
      <4>3. if_id'.valid /\ if_id'.pc = pc /\ if_id'.instr = Fetched(program, pc)
            /\ if_id'.predicted = predicted
        BY <4>1
      <4>4. id_ex'.valid = if_id.valid /\ id_ex'.pc = if_id.pc /\ id_ex'.c = Decoded
        BY <4>1 DEF DecodedEntry
      <4>5. ASSUME if_id.valid
            PROVE  Decoded = ControlAt(if_id.pc) /\ pc = Follower(if_id.pc, id_ex'.predicted)
        <5>1. Decoded = ControlAt(if_id.pc) /\ pc = Follower(if_id.pc, if_id.predicted)
          BY <1>1, <4>5 DEF PathInv, Decoded, ControlAt
        <5>2. id_ex'.predicted = if_id.predicted
          <6>1. CASE prediction_stage = "if"
            BY <4>1, <6>1 DEF DecodedEntry
          <6>2. CASE prediction_stage # "if"
            <7>1. prediction_stage = "id" /\ ~predicted /\ ~if_id.predicted
              BY <1>1, <3>3, <6>2, PredictionStages DEF PredictionInv
            <7>2. if_id.predicted \in BOOLEAN
              BY <1>1, StageFields
            <7> QED BY <4>1, <6>2, <7>1, <7>2 DEF DecodedEntry
          <6> QED BY <6>1, <6>2
        <5> QED BY <5>1, <5>2
      <4> QED BY <4>2, <4>3, <4>4, <4>5 DEF FrontPC, IssuePC
    <3> QED BY <3>1, <3>2, <3>3
  <2>3. id_ex.valid => id_ex.c = ControlAt(id_ex.pc) /\ FrontPC = Follower(id_ex.pc, id_ex.predicted)
    BY <1>1 DEF PathInv
  <2> QED BY <1>2, <1>3, <2>1, <2>2, <2>3 DEF PathInv
<1> QED BY <1>4, <1>5

LEMMA PredictionStep ==
    ASSUME Inv, NEW predicted \in BOOLEAN, predicted => Asked, Cycle(predicted)
    PROVE  PredictionInv'
<1>1. /\ TypeInv /\ PredictionInv /\ BtbInv
      /\ program' = program /\ prediction_stage' = prediction_stage
      /\ prediction_stage \in {"id", "if"}
  BY PredictionStages DEF Inv, Cycle
<1>2. CASE Mispredict
  <2>1. ~if_id'.predicted /\ ~id_ex'.predicted /\ ~ex_mem'.predicted
    BY <1>2, Stages, Bubbles
  <2> QED BY <2>1 DEF PredictionInv
<1>3. CASE ~Mispredict
  <2>1. ex_mem'.c = id_ex.c /\ ex_mem'.predicted = id_ex.predicted
    BY <1>3, Stages
  <2>2. ex_mem'.predicted => Steers(ex_mem'.c)
    BY <1>1, <2>1 DEF PredictionInv
  <2>3. CASE LoadUse
    <3>1. if_id' = if_id /\ ~id_ex'.valid /\ ~id_ex'.predicted
      BY <1>3, <2>3, Stages, Bubbles
    <3> QED BY <1>1, <2>2, <3>1 DEF PredictionInv
  <2>4. CASE ~LoadUse
    <3>1. /\ id_ex' = DecodedEntry(predicted)
          /\ if_id' = IF predicted /\ prediction_stage = "id" THEN FetchBubble
                      ELSE [valid |-> TRUE, pc |-> pc, instr |-> Fetched(program, pc),
                            predicted |-> predicted]
      BY <1>3, <2>4, Stages
    <3>2. id_ex'.c = Decoded /\ id_ex'.valid = if_id.valid
          /\ id_ex'.predicted = IF prediction_stage = "if" THEN if_id.predicted ELSE predicted
      BY <3>1 DEF DecodedEntry
    <3>3. CASE prediction_stage = "if"
      <4>1. if_id'.predicted => Steers(Decode(if_id'.instr))
        BY <1>1, <3>1, <3>3, AskedInFetch DEF ControlAt
      <4>2. id_ex'.predicted => Steers(id_ex'.c)
        BY <1>1, <3>2, <3>3 DEF PredictionInv, Decoded
      <4> QED BY <1>1, <2>2, <3>3, <4>1, <4>2 DEF PredictionInv
    <3>4. CASE prediction_stage = "id"
      <4>1. ~if_id'.predicted
        BY <3>1, <3>4, Bubbles
      <4>2. id_ex'.predicted => Steers(id_ex'.c) /\ ~if_id'.valid
        <5>1. id_ex'.predicted => predicted
          BY <3>2, <3>4
        <5> QED BY <1>1, <3>1, <3>2, <3>4, <5>1, AskedInDecode, Bubbles
      <4>3. ex_mem'.predicted => ~id_ex'.valid
        BY <1>1, <2>1, <3>2, <3>4 DEF PredictionInv
      <4> QED BY <1>1, <2>2, <4>1, <4>2, <4>3 DEF PredictionInv
    <3> QED BY <1>1, <3>3, <3>4
  <2> QED BY <2>3, <2>4
<1> QED BY <1>2, <1>3

-----------------------------------------------------------------------------
(* Values.  A predictor in the fetch stage compares directions, never       *)
(* targets, and an instruction behind a jump it predicted is not squashed:  *)
(* what follows is about programs in which neither shows, those without     *)
(* indirect jumps and with no jump that keeps its return address.           *)

TargetsFixed ==
    "if" \in DOMAIN Programs =>
        \A p \in Programs["if"] : \A w \in DOMAIN p :
            /\ p[w].opcode # "JALR"
            /\ p[w].opcode = "JAL" => p[w].rd = ZERO_REG

LEMMA NoLink ==
    ASSUME TargetsFixed, TypeInv, prediction_stage = "if", NEW a
    PROVE  ~ControlAt(a).jalr /\ (ControlAt(a).jal => ControlAt(a).rd = ZERO_REG)
<1>1. "if" \in DOMAIN Programs /\ program \in Programs["if"]
  BY DEF TypeInv
<1>2. CASE a \div 4 \in DOMAIN program
  BY <1>1, <1>2 DEF TargetsFixed, ControlAt, Fetched, Decode
<1>3. CASE a \div 4 \notin DOMAIN program
  BY <1>3 DEF ControlAt, Fetched, Decode, Nop, IAlu
<1> QED BY <1>2, <1>3

\* The register file as the instruction in MEM leaves it.
ResolvedRegs ==
    RegWrite(CommittedRegs, ex_mem.c.reg_write, ex_mem.c.rd,
             WriteBack(ex_mem.c, ex_mem.alu_result, mem[MemIndex(ex_mem.alu_result)], ex_mem.pc))

LEMMA CommittedRegsType == TypeInv => CommittedRegs \in [Reg -> Word]
BY StageFields, ValuesType, ControlFields, RegWriteType DEF TypeInv, CommittedRegs

LEMMA CommittedNext ==
    ASSUME TypeInv, NEW predicted \in BOOLEAN, Cycle(predicted)
    PROVE  regs' = CommittedRegs /\ CommittedRegs' = ResolvedRegs
<1>1. regs' = CommittedRegs
  BY DEF Cycle, CommittedRegs
<1>2. mem_wb' = [valid |-> ex_mem.valid, pc |-> ex_mem.pc, c |-> ex_mem.c,
                 alu_result |-> ex_mem.alu_result, mem_data |-> mem[MemIndex(ex_mem.alu_result)]]
  BY DEF Cycle, MEM_WB
<1>3. /\ mem_wb'.c = ex_mem.c /\ mem_wb'.pc = ex_mem.pc /\ mem_wb'.alu_result = ex_mem.alu_result
      /\ mem_wb'.mem_data = mem[MemIndex(ex_mem.alu_result)]
  BY <1>2
<1>4. WbData' = WriteBack(ex_mem.c, ex_mem.alu_result, mem[MemIndex(ex_mem.alu_result)], ex_mem.pc)
  BY <1>3 DEF WbData
<1> QED BY <1>1, <1>3, <1>4 DEF CommittedRegs, ResolvedRegs

LEMMA ReadWritten ==
    ASSUME NEW rf \in [Reg -> Word], NEW e \in BOOLEAN, NEW d \in Reg, NEW v, NEW r \in Reg
    PROVE  RegRead(RegWrite(rf, e, d, v), r) =
              IF e /\ d = r /\ r # ZERO_REG THEN v ELSE RegRead(rf, r)
BY DEF RegRead, RegWrite

\* A read port of the register file shows the committed register.
LEMMA ReadCommitted ==
    ASSUME TypeInv, NEW r \in Reg
    PROVE  Read(r) = RegRead(CommittedRegs, r)
<1>1. mem_wb.c.reg_write \in BOOLEAN /\ mem_wb.c.rd \in Reg /\ regs \in [Reg -> Word]
  BY StageFields, ControlFields DEF TypeInv
<1> QED BY <1>1, ReadWritten DEF Read, CommittedRegs

\* Without a redirect, EX gets what the register file will hold when the instruction
\* in MEM is done.
LEMMA ForwardCommitted ==
    ASSUME Inv, TargetsFixed, ~Mispredict, id_ex.valid, NEW r \in {id_ex.c.rs1, id_ex.c.rs2}
    PROVE  Forward(r, RegRead(regs, r)) = RegRead(ResolvedRegs, r)
<1>1. /\ TypeInv /\ PathInv /\ PredictionInv /\ DataInv
      /\ prediction_stage \in {"id", "if"}
  BY PredictionStages DEF Inv
<1>2. /\ r \in Reg
      /\ mem_wb.c.reg_write \in BOOLEAN /\ mem_wb.c.rd \in Reg /\ regs \in [Reg -> Word]
      /\ ex_mem.c.reg_write \in BOOLEAN /\ ex_mem.c.rd \in Reg
      /\ CommittedRegs \in [Reg -> Word]
  BY <1>1, StageFields, ControlFields, CommittedRegsType DEF TypeInv
<1> DEFINE produces(c) == c.reg_write /\ c.rd = r /\ r # ZERO_REG
<1>3. Forward(r, RegRead(regs, r)) =
         IF produces(ex_mem.c) THEN ex_mem.alu_result
         ELSE IF produces(mem_wb.c) THEN WbData ELSE RegRead(regs, r)
  BY <1>2 DEF Forward
<1>4. RegRead(CommittedRegs, r) = IF produces(mem_wb.c) THEN WbData ELSE RegRead(regs, r)
  BY <1>2, ReadWritten DEF CommittedRegs
<1>5. RegRead(ResolvedRegs, r) =
         IF produces(ex_mem.c)
         THEN WriteBack(ex_mem.c, ex_mem.alu_result, mem[MemIndex(ex_mem.alu_result)], ex_mem.pc)
         ELSE RegRead(CommittedRegs, r)
  BY <1>2, ReadWritten DEF ResolvedRegs
<1>6. ASSUME produces(ex_mem.c)
      PROVE  WriteBack(ex_mem.c, ex_mem.alu_result, mem[MemIndex(ex_mem.alu_result)], ex_mem.pc)
                = ex_mem.alu_result
  <2>1. ex_mem.valid
    BY <1>1, <1>6 DEF TypeInv, Quiet
  <2>2. ex_mem.c = ControlAt(ex_mem.pc) /\ Fetched(program, ex_mem.pc) \in Instruction
    BY <1>1, <2>1, ControlAtType DEF PathInv
  <2>3. /\ ex_mem.c.mem_read <=> ex_mem.c.wb_sel = "MEMORY"
        /\ ex_mem.c.jal \/ ex_mem.c.jalr <=> ex_mem.c.wb_sel = "PC4"
        /\ ex_mem.c.wb_sel \in {"ALU", "MEMORY", "PC4"}
    BY <1>1, <2>2, DecodeClasses, StageFields DEF ControlAt, Control
  <2>4. ~ex_mem.c.mem_read
    BY <1>1, <1>6, PipelineAssumption DEF DataInv
  <2>5. ~ex_mem.c.jal /\ ~ex_mem.c.jalr
    <3>1. SUFFICES ASSUME ex_mem.c.jal \/ ex_mem.c.jalr PROVE FALSE
      OBVIOUS
    <3>2. ex_mem.predicted
      BY <1>1, <3>1, StageFields DEF Mispredict, IsControl, Taken, Redirects
    <3>3. CASE prediction_stage = "id"
      BY <1>1, <3>2, <3>3 DEF PredictionInv
    <3>4. CASE prediction_stage = "if"
      BY <1>1, <1>6, <2>2, <3>1, <3>4, NoLink
    <3> QED BY <1>1, <3>3, <3>4
  <2>6. ex_mem.c.wb_sel = "ALU"
    BY <2>3, <2>4, <2>5
  <2> QED BY <2>6 DEF WriteBack
<1> HIDE DEF produces
<1> QED BY <1>3, <1>4, <1>5, <1>6

LEMMA DataStep ==
    ASSUME Inv, TargetsFixed, NEW predicted \in BOOLEAN, predicted => Asked, Cycle(predicted)
    PROVE  DataInv'
<1>1. TypeInv /\ DataInv /\ regs' = CommittedRegs /\ CommittedRegs' = ResolvedRegs
  BY CommittedNext DEF Inv
<1>2. id_ex' = DecodeBubble \/ id_ex' = DecodedEntry(predicted)
  BY Stages
<1>3. id_ex'.valid => /\ id_ex'.rs1_data = RegRead(regs', id_ex'.c.rs1)
                      /\ id_ex'.rs2_data = RegRead(regs', id_ex'.c.rs2)
  <2>1. Decoded.rs1 \in Reg /\ Decoded.rs2 \in Reg
    BY <1>1, ValuesType, ControlFields
  <2>2. Read(Decoded.rs1) = RegRead(regs', Decoded.rs1) /\ Read(Decoded.rs2) = RegRead(regs', Decoded.rs2)
    BY <1>1, <2>1, ReadCommitted
  <2>3. CASE id_ex' = DecodeBubble
    BY <2>3, Bubbles
  <2>4. CASE id_ex' = DecodedEntry(predicted)
    <3>1. id_ex'.c = Decoded /\ id_ex'.rs1_data = Read(Decoded.rs1) /\ id_ex'.rs2_data = Read(Decoded.rs2)
      BY <2>4 DEF DecodedEntry
    <3> QED BY <2>2, <3>1
  <2> QED BY <1>2, <2>3, <2>4
<1>4. CASE Mispredict
  <2>1. ~id_ex'.valid /\ ~ex_mem'.valid
    BY <1>4, Stages, Bubbles
  <2> QED BY <2>1 DEF DataInv
<1>5. CASE ~Mispredict
  <2>1. /\ ex_mem'.valid = id_ex.valid /\ ex_mem'.pc = id_ex.pc /\ ex_mem'.c = id_ex.c
        /\ ex_mem'.alu_result = AluResult
        /\ ex_mem'.rs1_data = Operand1 /\ ex_mem'.rs2_data = Operand2
    BY <1>5, Stages
  <2>2. ex_mem'.valid => /\ ex_mem'.rs1_data = RegRead(CommittedRegs', ex_mem'.c.rs1)
                         /\ ex_mem'.rs2_data = RegRead(CommittedRegs', ex_mem'.c.rs2)
    <3> SUFFICES ASSUME id_ex.valid
                 PROVE  /\ Operand1 = RegRead(ResolvedRegs, id_ex.c.rs1)
                        /\ Operand2 = RegRead(ResolvedRegs, id_ex.c.rs2)
      BY <1>1, <2>1
    <3>1. id_ex.rs1_data = RegRead(regs, id_ex.c.rs1) /\ id_ex.rs2_data = RegRead(regs, id_ex.c.rs2)
      BY <1>1 DEF DataInv
    <3>2. /\ Forward(id_ex.c.rs1, RegRead(regs, id_ex.c.rs1)) = RegRead(ResolvedRegs, id_ex.c.rs1)
          /\ Forward(id_ex.c.rs2, RegRead(regs, id_ex.c.rs2)) = RegRead(ResolvedRegs, id_ex.c.rs2)
      BY <1>5, ForwardCommitted
    <3> QED BY <3>1, <3>2 DEF Operand1, Operand2
  <2>3. ex_mem'.alu_result = ResultOf(ex_mem'.c, ex_mem'.pc, ex_mem'.rs1_data, ex_mem'.rs2_data)
    BY <1>1, <2>1, ValuesType
  <2>4. id_ex'.valid /\ ex_mem'.c.mem_read /\ ex_mem'.c.rd # 0 =>
           ex_mem'.c.rd \notin {id_ex'.c.rs1, id_ex'.c.rs2}
    <3>1. CASE LoadUse
      BY <1>5, <3>1, Stages, Bubbles
    <3>2. CASE ~LoadUse
      <4>1. id_ex'.c = Decoded
        BY <1>5, <3>2, Stages DEF DecodedEntry
      <4> QED BY <2>1, <3>2, <4>1 DEF LoadUse
    <3> QED BY <3>1, <3>2
  <2> QED BY <1>3, <2>2, <2>3, <2>4 DEF DataInv
<1> QED BY <1>4, <1>5

LEMMA BtbStep ==
    ASSUME Inv, TargetsFixed, NEW predicted \in BOOLEAN, Cycle(predicted)
    PROVE  BtbInv'
<1>1. TypeInv /\ PathInv /\ BtbInv /\ btb' = Trained /\ program' = program
      /\ prediction_stage \in {"id", "if"}
  BY PredictionStages DEF Inv, Cycle
<1>2. \A a : ControlAt(a)' = ControlAt(a)
  BY <1>1 DEF ControlAt
<1>3. CASE prediction_stage = "id" \/ ~IsControl \/ ~(Taken \/ BtbHit(ex_mem.pc))
  <2>1. btb' = btb
    BY <1>1, <1>3 DEF Trained
  <2> QED BY <1>1, <1>2, <2>1 DEF BtbInv
<1>4. CASE ~(prediction_stage = "id" \/ ~IsControl \/ ~(Taken \/ BtbHit(ex_mem.pc)))
  <2> DEFINE i == BtbIndex(ex_mem.pc)
  <2>1. i \in BtbSlot /\ btb \in [BtbSlot -> BtbEntry \cup {NoEntry}]
    BY <1>1, StageFields, BtbIndexType DEF TypeInv
  <2>2. /\ btb'[i].pc = ex_mem.pc
        /\ btb'[i].target = IF Taken THEN Target ELSE btb[i].target
        /\ \A j \in BtbSlot : j # i => btb'[j] = btb[j]
    BY <1>1, <1>4, <2>1 DEF Trained
  <2>3. ex_mem.valid /\ ex_mem.c = ControlAt(ex_mem.pc)
    BY <1>1, <1>4 DEF TypeInv, Quiet, IsControl, PathInv
  <2>4. Steers(ControlAt(ex_mem.pc)) /\ ~ex_mem.c.jalr
    BY <1>1, <1>4, <2>3, NoLink DEF IsControl, Steers
  <2>5. Taken => Target = Mask(ex_mem.pc + ControlAt(ex_mem.pc).imm)
    BY <2>3, <2>4 DEF Taken, Target, Redirects, NextPC
  <2>6. ~Taken => btb[i].target = Mask(ex_mem.pc + ControlAt(ex_mem.pc).imm)
    BY <1>1, <1>4, <2>1 DEF BtbHit, BtbInv
  <2>7. /\ Steers(ControlAt(btb'[i].pc))
        /\ btb'[i].target = Mask(btb'[i].pc + ControlAt(btb'[i].pc).imm)
    BY <2>2, <2>4, <2>5, <2>6
  <2> HIDE DEF i
  <2>8. ASSUME NEW j \in BtbSlot, btb'[j] # NoEntry
        PROVE  /\ Steers(ControlAt(btb'[j].pc))
               /\ btb'[j].target = Mask(btb'[j].pc + ControlAt(btb'[j].pc).imm)
    <3>1. CASE j = i
      BY <2>7, <3>1
    <3>2. CASE j # i
      BY <1>1, <2>2, <2>8, <3>2 DEF BtbInv
    <3> QED BY <3>1, <3>2
  <2> QED BY <1>2, <2>8 DEF BtbInv
<1> QED BY <1>3, <1>4

LEMMA InvInitial == Init => Inv
<1> SUFFICES ASSUME Init PROVE Inv
  OBVIOUS
<1>1. TypeInv
  BY TypeInitial
<1>2. /\ ~if_id.valid /\ ~id_ex.valid /\ ~ex_mem.valid
      /\ ~if_id.predicted /\ ~id_ex.predicted /\ ~ex_mem.predicted
  BY Bubbles DEF Init
<1>3. \A i \in BtbSlot : btb[i] = NoEntry
  BY DEF Init
<1> QED BY <1>1, <1>2, <1>3 DEF Inv, PathInv, PredictionInv, DataInv, BtbInv

LEMMA InvStep == Inv /\ TargetsFixed /\ [Next]_vars => Inv'
<1> SUFFICES ASSUME Inv, TargetsFixed, [Next]_vars PROVE Inv'
  OBVIOUS
<1>1. CASE Next
  <2>1. PICK predicted \in BOOLEAN : (predicted => Asked) /\ Cycle(predicted)
    BY <1>1 DEF Next
  <2>2. TypeInv'
    BY <2>1, TypeStep DEF Inv
  <2>3. PathInv' /\ PredictionInv' /\ DataInv' /\ BtbInv'
    BY <2>1, PathStep, PredictionStep, DataStep, BtbStep
  <2> QED BY <2>2, <2>3 DEF Inv
<1>2. CASE UNCHANGED vars
  <2>1. UNCHANGED <<prediction_stage, program, pc, if_id, id_ex, ex_mem, mem_wb, regs, mem, btb>>
    BY <1>2 DEF vars
  <2> QED BY <2>1 DEF Inv, TypeInv, PathInv, PredictionInv, DataInv, BtbInv, FrontPC, IssuePC,
                      ControlAt, Follower, CommittedRegs, WbData
<1> QED BY <1>1, <1>2

-----------------------------------------------------------------------------
(* Refinement.                                                              *)

\* The single-cycle machine's step on the committed state.
LEMMA OracleStep == \A s : Oracle!After(s) = Step(program, s)
<1>1. \A v : Oracle!Mask(v) = Mask(v)
  BY DEF Oracle!Mask, Mask, Oracle!WORDS, WORDS
<1>2. \A i : Oracle!Decode(i) = Decode(i)
  BY DEF Oracle!Decode, Decode, Oracle!BranchAluOp, BranchAluOp, Oracle!BranchCond, BranchCond
<1>3. \A p, a : Oracle!Fetched(p, a) = Fetched(p, a)
  BY <1>1 DEF Oracle!Fetched, Fetched, Oracle!Nop, Nop, Oracle!IAlu, IAlu
<1>4. /\ \A r, x : Oracle!RegRead(r, x) = RegRead(r, x)
      /\ \A r, e, x, v : Oracle!RegWrite(r, e, x, v) = RegWrite(r, e, x, v)
      /\ \A a : Oracle!MemIndex(a) = MemIndex(a)
  BY DEF Oracle!RegRead, RegRead, Oracle!RegWrite, RegWrite, Oracle!MemIndex, MemIndex
<1>5. \A m, e, a, v : Oracle!MemWrite(m, e, a, v) = MemWrite(m, e, a, v)
  BY <1>4 DEF Oracle!MemWrite, MemWrite
<1>6. \A c, x, y, a : Oracle!WriteBack(c, x, y, a) = WriteBack(c, x, y, a)
  BY <1>1 DEF Oracle!WriteBack, WriteBack
<1>7. \A c, a, r, x : Oracle!NextPC(c, a, r, x) = NextPC(c, a, r, x)
  BY <1>1 DEF Oracle!NextPC, NextPC, Oracle!Redirects, Redirects, Oracle!BranchTaken, BranchTaken
<1>8. Oracle!BitAnd = BitAnd
  BY DEF Oracle!BitAnd, BitAnd, Oracle!Word, Word, Oracle!WORDS, WORDS
<1>9. \A op, a, b : Oracle!Alu(op, a, b) = Alu(op, a, b)
  BY <1>8 DEF Oracle!Alu, Alu, Oracle!Mask, Mask, Oracle!ToSigned, ToSigned, Oracle!WORDS, WORDS
<1> QED BY <1>1, <1>2, <1>3, <1>4, <1>5, <1>6, <1>7, <1>9 DEF Oracle!After, Oracle!Step, Step, Oracle!ResultOf, ResultOf

CommittedState == [pc |-> CommittedPC, regs |-> CommittedRegs, mem |-> mem]

LEMMA CommittedPCIs == TypeInv => CommittedPC = IF ex_mem.valid THEN ex_mem.pc ELSE IssuePC
BY StageFields DEF CommittedPC, IssuePC, FrontPC

\* A valid instruction in EX/MEM is about to do what the single-cycle machine does.
LEMMA Resolved ==
    ASSUME Inv, ex_mem.valid
    PROVE  Step(program, CommittedState) =
              [regs |-> ResolvedRegs,
               mem  |-> MemWrite(mem, ex_mem.c.mem_write, ex_mem.alu_result, ex_mem.rs2_data),
               pc   |-> Target]
<1>1. CommittedPC = ex_mem.pc
  BY CommittedPCIs DEF Inv
<1>2. /\ ex_mem.c = Decode(Fetched(program, ex_mem.pc))
      /\ ex_mem.rs1_data = RegRead(CommittedRegs, ex_mem.c.rs1)
      /\ ex_mem.rs2_data = RegRead(CommittedRegs, ex_mem.c.rs2)
      /\ ex_mem.alu_result = ResultOf(ex_mem.c, ex_mem.pc, ex_mem.rs1_data, ex_mem.rs2_data)
  BY DEF Inv, PathInv, DataInv, ControlAt
<1> QED BY <1>1, <1>2 DEF Step, CommittedState, ResolvedRegs, Target

\* A prediction that was not corrected was right.
LEMMA PredictionRight ==
    ASSUME Inv, ex_mem.valid, ~Mispredict
    PROVE  IssuePC = Target
<1>1. /\ TypeInv
      /\ ex_mem.c = ControlAt(ex_mem.pc)
      /\ IssuePC = Follower(ex_mem.pc, ex_mem.predicted)
      /\ ex_mem.predicted => Steers(ex_mem.c)
  BY DEF Inv, PathInv, PredictionInv
<1>2. Fetched(program, ex_mem.pc) \in Instruction
  BY <1>1, ControlAtType
<1>3. /\ ~(ex_mem.c.jal /\ ex_mem.c.jalr)
      /\ ex_mem.c.branch => ~ex_mem.c.jal /\ ~ex_mem.c.jalr
      /\ ex_mem.c.branch \in BOOLEAN /\ ex_mem.c.jal \in BOOLEAN /\ ex_mem.c.jalr \in BOOLEAN
      /\ ex_mem.predicted \in BOOLEAN
  BY <1>1, <1>2, DecodeClasses, StageFields, ControlFields DEF ControlAt
<1>4. Taken \in BOOLEAN
  BY <1>3 DEF Taken, Redirects, BranchTaken
<1>5. ex_mem.predicted <=> Taken
  <2>1. CASE IsControl
    BY <1>3, <1>4, <2>1 DEF Mispredict
  <2>2. CASE ~IsControl
    BY <1>1, <2>2 DEF IsControl, Steers, Taken, Redirects
  <2> QED BY <2>1, <2>2
<1>6. CASE ex_mem.predicted
  <2>1. ~ex_mem.c.jalr
    BY <1>1, <1>3, <1>6 DEF Steers
  <2>2. Target = Mask(ex_mem.pc + ex_mem.c.imm)
    BY <1>3, <1>5, <1>6, <2>1 DEF Target, NextPC, Taken
  <2> QED BY <1>1, <1>6, <2>2 DEF Follower
<1>7. CASE ~ex_mem.predicted
  <2>1. Target = Mask(ex_mem.pc + 4)
    BY <1>3, <1>5, <1>7 DEF Target, NextPC, Taken, Redirects
  <2> QED BY <1>1, <1>7, <2>1 DEF Follower
<1> QED BY <1>3, <1>6, <1>7

\* Without a redirect the oldest instruction that was not in MEM is the next one to
\* commit.
LEMMA OldestAdvances ==
    ASSUME Inv, TypeInv', NEW predicted \in BOOLEAN, predicted => Asked, Cycle(predicted), ~Mispredict
    PROVE  CommittedPC' = IssuePC
<1>1. CommittedPC' = IF ex_mem'.valid THEN ex_mem'.pc ELSE IssuePC'
  <2>1. /\ ex_mem'.valid \in BOOLEAN /\ id_ex'.valid \in BOOLEAN /\ if_id'.valid \in BOOLEAN
    BY DEF TypeInv, FetchEntry, DecodeEntry, ExecuteEntry
  <2> QED BY <2>1 DEF CommittedPC, IssuePC, FrontPC
<1>2. TypeInv /\ ex_mem'.valid = id_ex.valid /\ ex_mem'.pc = id_ex.pc
  BY Stages DEF Inv
<1>3. CASE id_ex.valid
  BY <1>1, <1>2, <1>3 DEF IssuePC
<1>4. CASE ~id_ex.valid
  <2>1. ~LoadUse
    BY <1>2, <1>4 DEF LoadUse, TypeInv, Quiet
  <2>2. /\ id_ex' = DecodedEntry(predicted)
        /\ if_id' = IF predicted /\ prediction_stage = "id" THEN FetchBubble
                    ELSE [valid |-> TRUE, pc |-> pc, instr |-> Fetched(program, pc),
                          predicted |-> predicted]
    BY <2>1, Stages
  <2>3. id_ex'.valid = if_id.valid /\ id_ex'.pc = if_id.pc
    BY <2>2 DEF DecodedEntry
  <2>4. ~if_id.valid => if_id'.valid /\ if_id'.pc = pc
    BY <1>2, <2>2, AskedInDecode
  <2> QED BY <1>1, <1>2, <1>4, <2>3, <2>4 DEF IssuePC, FrontPC
<1> QED BY <1>2, <1>3, <1>4, StageFields

LEMMA Commits ==
    ASSUME Inv, TypeInv', NEW predicted \in BOOLEAN, predicted => Asked, Cycle(predicted)
    PROVE  CommittedState' = IF ex_mem.valid THEN Step(program, CommittedState) ELSE CommittedState
<1>1. TypeInv /\ CommittedRegs' = ResolvedRegs
  BY CommittedNext DEF Inv
<1>2. mem' = MemWrite(mem, ex_mem.c.mem_write, ex_mem.alu_result, ex_mem.rs2_data)
  BY DEF Cycle
<1>3. CASE ex_mem.valid
  <2>1. CommittedPC' = Target
    <3>1. CASE Mispredict
      <4>1. pc' = Target /\ ~if_id'.valid /\ ~id_ex'.valid /\ ~ex_mem'.valid
        BY <3>1, Stages, Bubbles
      <4> QED BY <4>1 DEF CommittedPC
    <3>2. CASE ~Mispredict
      BY <1>3, <3>2, OldestAdvances, PredictionRight
    <3> QED BY <3>1, <3>2
  <2> QED BY <1>1, <1>2, <1>3, <2>1, Resolved DEF CommittedState
<1>4. CASE ~ex_mem.valid
  <2>1. Quiet(ex_mem.c)
    BY <1>1, <1>4 DEF TypeInv
  <2>2. ~Mispredict
    BY <2>1 DEF Mispredict, IsControl, Quiet
  <2>3. CommittedPC' = CommittedPC
    BY <1>1, <1>4, <2>2, OldestAdvances, CommittedPCIs
  <2>4. ResolvedRegs = CommittedRegs
    BY <2>1 DEF ResolvedRegs, RegWrite, Quiet
  <2>5. mem' = mem
    BY <1>2, <2>1 DEF MemWrite, Quiet
  <2> QED BY <1>1, <1>4, <2>3, <2>4, <2>5 DEF CommittedState
<1> QED BY <1>1, <1>3, <1>4, StageFields

\* Stalls, forwarding, squashes and predictions change timing, never results: for
\* every program a predictor in the decode stage, and for every program whose
\* jumps have one target and keep no address a predictor in the fetch stage,
\* leaves the pipeline committing what the single-cycle machine computes.
THEOREM Refines == TargetsFixed => (Spec => ImplementsOracle)
<1> SUFFICES ASSUME TargetsFixed PROVE Spec => ImplementsOracle
  OBVIOUS
<1>1. Init => Oracle!Init
  <2> SUFFICES ASSUME Init PROVE Oracle!Init
    OBVIOUS
  <2>1. Oracle!InitialRegs = InitialRegs /\ Oracle!InitialMem = InitialMem
    BY DEF Oracle!InitialRegs, InitialRegs, Oracle!InitialMem, InitialMem, Oracle!Reg, Reg
  <2>2. CommittedPC = 0
    BY Bubbles DEF Init, CommittedPC
  <2>3. CommittedRegs = InitialRegs
    BY DEF Init, CommittedRegs, RegWrite, MemoryBubble, NoControl
  <2> QED BY <2>1, <2>2, <2>3 DEF Oracle!Init, Init
<1>2. Inv /\ [Next]_vars => Inv'
  BY InvStep
<1>3. Inv /\ Inv' /\ [Next]_vars => [Oracle!Next]_(Oracle!vars)
  <2> SUFFICES ASSUME Inv, Inv', [Next]_vars PROVE [Oracle!Next]_(Oracle!vars)
    OBVIOUS
  <2>1. CASE Next
    <3>1. PICK predicted \in BOOLEAN : (predicted => Asked) /\ Cycle(predicted)
      BY <2>1 DEF Next
    <3>2. program' = program
      BY <3>1 DEF Cycle
    <3>3. CommittedState' = IF ex_mem.valid THEN Step(program, CommittedState) ELSE CommittedState
      BY <3>1, Commits DEF Inv
    <3>4. CASE ex_mem.valid
      <4>1. CommittedState' = Oracle!After(CommittedState)
        BY <3>3, <3>4, OracleStep
      <4> QED BY <3>2, <4>1 DEF CommittedState, Oracle!Next, Oracle!Tick
    <3>5. CASE ~ex_mem.valid
      BY <3>2, <3>3, <3>5 DEF CommittedState, Oracle!vars
    <3> QED BY <3>4, <3>5
  <2>2. CASE UNCHANGED vars
    <3>1. UNCHANGED <<program, pc, if_id, id_ex, ex_mem, mem_wb, regs, mem>>
      BY <2>2 DEF vars
    <3> QED BY <3>1 DEF CommittedPC, CommittedRegs, WbData, Oracle!vars
  <2> QED BY <2>1, <2>2
<1> QED BY <1>1, <1>2, <1>3, InvInitial, PTL DEF Spec, ImplementsOracle
=============================================================================
