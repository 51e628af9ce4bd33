------------------------------ MODULE Pipeline ------------------------------
(***************************************************************************)
(* The five-stage RISC-V pipeline (src/sim/isa/riscv/presets/pipeline.py):  *)
(* stage registers IF/ID, ID/EX, EX/MEM and MEM/WB, a load-use hazard       *)
(* detector, a forwarding unit, branches resolved in MEM, and a branch      *)
(* predictor in the decode stage (prediction_stage = "id") or, with a       *)
(* branch target buffer, in the fetch stage ("if").                         *)
(*                                                                          *)
(* The direction a predictor guesses is left open: whatever bimodal, gshare *)
(* or a static predictor answers is one of the two, so the properties hold  *)
(* for all of them.  The target buffer is modelled as it is coded.          *)
(***************************************************************************)
EXTENDS PipelineEntries

CONSTANTS Programs,   \* by prediction stage: functions from word index to instruction
          BTB_SIZE,   \* entries of the branch target buffer, 256 in the code
          NoEntry     \* an empty entry of the branch target buffer

ASSUME PipelineAssumption ==
    /\ DOMAIN Programs \subseteq {"id", "if"}
    /\ \A stage \in DOMAIN Programs : \A p \in Programs[stage] :
         \A w \in DOMAIN p : p[w] \in Instruction
    /\ BTB_SIZE \in Nat \ {0}
    /\ ZERO_REG = 0   \* the hazard detector looks for register 0

VARIABLES prediction_stage,   \* a parameter of build, fixed from then on
          program,  \* InstructionMemory._program
          pc,       \* SimpleFetch._pc
          if_id, id_ex, ex_mem, mem_wb,   \* the stage registers
          regs,     \* StandardRegisterFile.regs
          mem,      \* DataMemory._mem
          btb       \* BranchPredictorBase._btb
vars == <<prediction_stage, program, pc, if_id, id_ex, ex_mem, mem_wb, regs, mem, btb>>

BtbSlot  == 0..(BTB_SIZE - 1)
BtbEntry == [pc : Word, target : Word, counter : 0..3]

TypeOK ==
    /\ pc \in Word
    /\ if_id.pc \in Word
    /\ {id_ex.pc, id_ex.rs1_data, id_ex.rs2_data} \subseteq Word
    /\ {ex_mem.pc, ex_mem.alu_result, ex_mem.rs1_data, ex_mem.rs2_data} \subseteq Word
    /\ {mem_wb.pc, mem_wb.alu_result, mem_wb.mem_data} \subseteq Word
    /\ regs \in [Reg -> Word]
    /\ mem \in [0..(MEM_WORDS - 1) -> Word]
    /\ btb \in [BtbSlot -> BtbEntry \cup {NoEntry}]

Init ==
    /\ prediction_stage \in DOMAIN Programs
    /\ program \in Programs[prediction_stage]
    /\ pc = 0
    /\ if_id = FetchBubble
    /\ id_ex = DecodeBubble
    /\ ex_mem = ExecuteBubble
    /\ mem_wb = MemoryBubble
    /\ regs = InitialRegs
    /\ mem = InitialMem
    /\ btb = [i \in BtbSlot |-> NoEntry]

-----------------------------------------------------------------------------
(* Write-back and decode.                                                   *)

WbData == WriteBack(mem_wb.c, mem_wb.alu_result, mem_wb.mem_data, mem_wb.pc)

\* A read port; a value written back this cycle is passed through.
Read(r) ==
    IF mem_wb.c.reg_write /\ r = mem_wb.c.rd /\ r # ZERO_REG THEN WbData ELSE RegRead(regs, r)

Decoded == Decode(if_id.instr)

\* The load-use hazard: the instruction in EX loads what the one in ID reads.
LoadUse ==
    /\ id_ex.c.mem_read
    /\ id_ex.c.rd # 0
    /\ id_ex.c.rd \in {Decoded.rs1, Decoded.rs2}

-----------------------------------------------------------------------------
(* Execute: an operand produced one or two instructions earlier is taken    *)
(* from EX/MEM, else from MEM/WB, else as it was read.                      *)

\* Mutant: the older result is preferred.
ForwardOlder(r, read) ==
    CASE mem_wb.c.reg_write /\ r = mem_wb.c.rd /\ r # ZERO_REG -> WbData
      [] OTHER -> IF ex_mem.c.reg_write /\ r = ex_mem.c.rd /\ r # ZERO_REG
                  THEN ex_mem.alu_result ELSE read

Forward(r, read) ==
    LET produces(c) == c.reg_write /\ c.rd = r /\ r # ZERO_REG
    IN CASE produces(ex_mem.c)                          -> ex_mem.alu_result
         [] ~produces(ex_mem.c) /\ produces(mem_wb.c)   -> WbData
         [] OTHER                                       -> read

Operand1 == Forward(id_ex.c.rs1, id_ex.rs1_data)
Operand2 == Forward(id_ex.c.rs2, id_ex.rs2_data)

AluResult == Alu(id_ex.c.alu_op, IF id_ex.c.use_pc THEN id_ex.pc ELSE Operand1,
                                 IF id_ex.c.alu_src THEN id_ex.c.imm ELSE Operand2)

-----------------------------------------------------------------------------
(* Memory: branches are resolved here.                                      *)

IsControl  == ex_mem.c.branch \/ ex_mem.c.jal \/ ex_mem.c.jalr
Taken      == Redirects(ex_mem.c, ex_mem.alu_result)
Unmasked   == ex_mem.pc + ex_mem.c.imm   \* mutant: wider than the program counter
Target     == NextPC(ex_mem.c, ex_mem.pc, ex_mem.rs1_data, ex_mem.alu_result)
Mispredict == IsControl /\ Taken # ex_mem.predicted   \* directions are compared, not targets

-----------------------------------------------------------------------------
(* Prediction.                                                              *)

BtbIndex(a) == (a \div 4) % BTB_SIZE
AnyHit(a) == btb[BtbIndex(a)] # NoEntry   \* mutant: the tag is not compared
BtbHit(a) == btb[BtbIndex(a)] # NoEntry /\ btb[BtbIndex(a)].pc = a

\* The predictor is asked about pc ("if": only if the buffer holds pc with a
\* strong counter) or about the instruction in ID ("id").
Asked ==
    IF prediction_stage = "if"
    THEN BtbHit(pc) /\ btb[BtbIndex(pc)].counter >= 2
    ELSE Decoded.branch \/ Decoded.jal

PredictTarget ==
    IF prediction_stage = "if" THEN btb[BtbIndex(pc)].target ELSE Mask(if_id.pc + Decoded.imm)

\* What the resolved branch teaches the buffer: taken branches enter it, a
\* saturating counter follows their direction.
Trained ==
    LET i == BtbIndex(ex_mem.pc)
        counter == btb[i].counter
    IN IF prediction_stage = "id" \/ ~IsControl \/ ~(Taken \/ BtbHit(ex_mem.pc)) THEN btb
       ELSE [btb EXCEPT ![i] =
               [pc      |-> ex_mem.pc,
                target  |-> IF Taken THEN Target ELSE @.target,
                counter |-> CASE ~BtbHit(ex_mem.pc) -> 2
                              [] BtbHit(ex_mem.pc) /\ Taken -> IF counter = 3 THEN 3 ELSE counter + 1
                              [] OTHER -> IF counter = 0 THEN 0 ELSE counter - 1]]

-----------------------------------------------------------------------------
(* The clock edge of the fetch unit and of each stage register.  predicted  *)
(* is the predictor's answer.                                               *)

\* A redirect outranks a stall, a stall outranks a prediction.
Fetch(predicted) ==
    pc' = CASE Mispredict -> Target
            [] ~Mispredict /\ LoadUse -> pc
            [] ~Mispredict /\ ~LoadUse /\ predicted -> PredictTarget
            [] OTHER -> Mask(pc + 4)

\* A prediction made in ID squashes the instruction fetched behind it.
IF_ID(predicted) ==
    if_id' = CASE Mispredict -> FetchBubble
               [] ~Mispredict /\ LoadUse -> if_id
               [] ~Mispredict /\ ~LoadUse /\ predicted /\ prediction_stage = "id" -> FetchBubble
               [] OTHER -> [valid |-> TRUE, pc |-> pc, instr |-> Fetched(program, pc),
                            predicted |-> predicted]

DecodedEntry(predicted) ==
    [valid |-> if_id.valid, pc |-> if_id.pc, c |-> Decoded,
     rs1_data |-> Read(Decoded.rs1), rs2_data |-> Read(Decoded.rs2),
     predicted |-> IF prediction_stage = "if" THEN if_id.predicted ELSE predicted]

\* Mutant: a stalled stage holds its instruction instead of passing a bubble.
HoldOnStall(predicted) ==
    id_ex' = CASE Mispredict -> DecodeBubble
               [] ~Mispredict /\ LoadUse -> id_ex
               [] OTHER -> DecodedEntry(predicted)

\* Flush and stall both insert a bubble.
ID_EX(predicted) ==
    id_ex' = IF Mispredict \/ LoadUse THEN DecodeBubble ELSE DecodedEntry(predicted)

\* Mutant: a flush clears the valid bit and leaves the control signals.
ClearsValidOnly ==
    ex_mem' = [valid |-> id_ex.valid /\ ~Mispredict, pc |-> id_ex.pc, c |-> id_ex.c,
               alu_result |-> AluResult, rs1_data |-> Operand1, rs2_data |-> Operand2,
               predicted |-> id_ex.predicted]

EX_MEM ==
    ex_mem' = IF Mispredict THEN ExecuteBubble
              ELSE [valid |-> id_ex.valid, pc |-> id_ex.pc, c |-> id_ex.c,
                    alu_result |-> AluResult, rs1_data |-> Operand1,
                    rs2_data |-> Operand2, predicted |-> id_ex.predicted]

MEM_WB ==
    mem_wb' = [valid |-> ex_mem.valid, pc |-> ex_mem.pc, c |-> ex_mem.c,
               alu_result |-> ex_mem.alu_result,
               mem_data |-> mem[MemIndex(ex_mem.alu_result)]]

-----------------------------------------------------------------------------
(* One clock cycle.                                                         *)

Cycle(predicted) ==
    /\ Fetch(predicted)
    /\ IF_ID(predicted)
    /\ ID_EX(predicted)
    /\ EX_MEM
    /\ MEM_WB
    /\ regs' = RegWrite(regs, mem_wb.c.reg_write, mem_wb.c.rd, WbData)
    /\ mem' = MemWrite(mem, ex_mem.c.mem_write, ex_mem.alu_result, ex_mem.rs2_data)
    /\ btb' = Trained
    /\ UNCHANGED <<prediction_stage, program>>

Next == \E predicted \in BOOLEAN : (predicted => Asked) /\ Cycle(predicted)

\* The runner calls CPU.tick in a loop: the clock does not stop.
Spec == Init /\ [][Next]_vars /\ WF_vars(Next)

-----------------------------------------------------------------------------
(* Properties.                                                              *)

\* An instruction commits when it leaves EX/MEM: memory is written at that
\* edge, its register result is on the way through MEM/WB.
CommittedRegs == RegWrite(regs, mem_wb.c.reg_write, mem_wb.c.rd, WbData)
CommittedPC ==
    CASE ex_mem.valid                                  -> ex_mem.pc
      [] ~ex_mem.valid /\ id_ex.valid                  -> id_ex.pc
      [] ~ex_mem.valid /\ ~id_ex.valid /\ if_id.valid  -> if_id.pc
      [] OTHER                                         -> pc

Oracle == INSTANCE SingleCycle WITH pc <- CommittedPC, regs <- CommittedRegs

\* Stalls, forwarding, squashes and predictions change timing, never results:
\* committed registers and memory go through exactly the states of the
\* single-cycle machine.
ImplementsOracle == Oracle!Init /\ [][Oracle!Next]_(Oracle!vars)

\* And instructions keep committing: no stall, squash or redirect repeats for ever.
KeepsCommitting == Oracle!Fairness

\* A load-use stall lasts one cycle: the load has left EX when the held
\* instruction is looked at again.
StallsOnce == [][LoadUse => ~LoadUse']_vars

\* An instruction that was squashed or held back leaves no trace: whatever
\* writes memory or a register downstream is a valid instruction.  (The bubble
\* of IF/ID is a NOP that enables the write of the zero register.)
OnlyValidInstructionsWrite ==
    /\ (ex_mem.c.mem_write \/ IsControl) => ex_mem.valid
    /\ (mem_wb.c.reg_write /\ mem_wb.c.rd # ZERO_REG) => mem_wb.valid
=============================================================================
