---------------------- MODULE FetchDecodeExecute_proofs ----------------------
(***************************************************************************)
(* The multicycle machine and the configurable machine compute what the     *)
(* single-cycle machine computes, for every program, width of a word,       *)
(* register count and memory size, and under the classic costs they do so   *)
(* in the same cycles.                                                      *)
(***************************************************************************)
EXTENDS FetchDecodeExecute, Datapath_proofs

-----------------------------------------------------------------------------
(* The operators of Datapath mean the same in every instance.               *)

LEMMA MOperators ==
    /\ M!Word = Word /\ M!Reg = Reg
    /\ \A v : M!Mask(v) = Mask(v)
    /\ \A i : M!Decode(i) = Decode(i)
    /\ \A p, a : M!Fetched(p, a) = Fetched(p, a)
    /\ \A r, x : M!RegRead(r, x) = RegRead(r, x)
    /\ \A r, e, x, v : M!RegWrite(r, e, x, v) = RegWrite(r, e, x, v)
    /\ \A a : M!MemIndex(a) = MemIndex(a)
    /\ \A m, e, a, v : M!MemWrite(m, e, a, v) = MemWrite(m, e, a, v)
    /\ \A c, x, y, a : M!WriteBack(c, x, y, a) = WriteBack(c, x, y, a)
    /\ \A c, x : M!Redirects(c, x) = Redirects(c, x)
    /\ \A c, a, r, x : M!NextPC(c, a, r, x) = NextPC(c, a, r, x)
    /\ M!InitialRegs = InitialRegs /\ M!InitialMem = InitialMem
<1>1. M!Word = Word /\ M!Reg = Reg /\ \A v : M!Mask(v) = Mask(v)
  BY DEF M!Word, Word, M!WORDS, WORDS, M!Reg, Reg, M!Mask, Mask
<1>2. \A i : M!Decode(i) = Decode(i)
  BY DEF M!Decode, Decode, M!BranchAluOp, BranchAluOp, M!BranchCond, BranchCond
<1>3. \A p, a : M!Fetched(p, a) = Fetched(p, a)
  BY <1>1 DEF M!Fetched, Fetched, M!Nop, Nop, M!IAlu, IAlu
<1>4. \A r, x : M!RegRead(r, x) = RegRead(r, x)
  BY DEF M!RegRead, RegRead
<1>5. \A r, e, x, v : M!RegWrite(r, e, x, v) = RegWrite(r, e, x, v)
  BY DEF M!RegWrite, RegWrite
<1>6. \A a : M!MemIndex(a) = MemIndex(a)
  BY DEF M!MemIndex, MemIndex
<1>7. \A m, e, a, v : M!MemWrite(m, e, a, v) = MemWrite(m, e, a, v)
  BY <1>6 DEF M!MemWrite, MemWrite
<1>8. \A c, x, y, a : M!WriteBack(c, x, y, a) = WriteBack(c, x, y, a)
  BY <1>1 DEF M!WriteBack, WriteBack
<1>9. \A c, x : M!Redirects(c, x) = Redirects(c, x)
  BY DEF M!Redirects, Redirects, M!BranchTaken, BranchTaken
<1>10. \A c, a, r, x : M!NextPC(c, a, r, x) = NextPC(c, a, r, x)
  BY <1>1, <1>9 DEF M!NextPC, NextPC
<1>11. M!InitialRegs = InitialRegs /\ M!InitialMem = InitialMem
  BY <1>1 DEF M!InitialRegs, InitialRegs, M!InitialMem, InitialMem
<1> QED BY <1>1, <1>2, <1>3, <1>4, <1>5, <1>6, <1>7, <1>8, <1>9, <1>10, <1>11

LEMMA BOperators ==
    /\ \A v : B!Mask(v) = Mask(v)
    /\ \A i : B!Decode(i) = Decode(i)
    /\ \A p, a : B!Fetched(p, a) = Fetched(p, a)
    /\ \A r, x : B!RegRead(r, x) = RegRead(r, x)
    /\ \A r, e, x, v : B!RegWrite(r, e, x, v) = RegWrite(r, e, x, v)
    /\ \A a : B!MemIndex(a) = MemIndex(a)
    /\ \A m, e, a, v : B!MemWrite(m, e, a, v) = MemWrite(m, e, a, v)
    /\ \A c, x, y, a : B!WriteBack(c, x, y, a) = WriteBack(c, x, y, a)
    /\ \A c, a, r, x : B!NextPC(c, a, r, x) = NextPC(c, a, r, x)
    /\ B!InitialRegs = InitialRegs /\ B!InitialMem = InitialMem
<1>1. B!Word = Word /\ B!Reg = Reg /\ \A v : B!Mask(v) = Mask(v)
  BY DEF B!Word, Word, B!WORDS, WORDS, B!Reg, Reg, B!Mask, Mask
<1>2. \A i : B!Decode(i) = Decode(i)
  BY DEF B!Decode, Decode, B!BranchAluOp, BranchAluOp, B!BranchCond, BranchCond
<1>3. \A p, a : B!Fetched(p, a) = Fetched(p, a)
  BY <1>1 DEF B!Fetched, Fetched, B!Nop, Nop, B!IAlu, IAlu
<1>4. \A r, x : B!RegRead(r, x) = RegRead(r, x)
  BY DEF B!RegRead, RegRead
<1>5. \A r, e, x, v : B!RegWrite(r, e, x, v) = RegWrite(r, e, x, v)
  BY DEF B!RegWrite, RegWrite
<1>6. \A a : B!MemIndex(a) = MemIndex(a)
  BY DEF B!MemIndex, MemIndex
<1>7. \A m, e, a, v : B!MemWrite(m, e, a, v) = MemWrite(m, e, a, v)
  BY <1>6 DEF B!MemWrite, MemWrite
<1>8. \A c, x, y, a : B!WriteBack(c, x, y, a) = WriteBack(c, x, y, a)
  BY <1>1 DEF B!WriteBack, WriteBack
<1>9. \A c, a, r, x : B!NextPC(c, a, r, x) = NextPC(c, a, r, x)
  BY <1>1 DEF B!NextPC, NextPC, B!Redirects, Redirects, B!BranchTaken, BranchTaken
<1>10. B!InitialRegs = InitialRegs /\ B!InitialMem = InitialMem
  BY <1>1 DEF B!InitialRegs, InitialRegs, B!InitialMem, InitialMem
<1> QED BY <1>1, <1>2, <1>3, <1>4, <1>5, <1>6, <1>7, <1>8, <1>9, <1>10

LEMMA AluInstances ==
    /\ \A op, a, b : M!Alu(op, a, b) = Alu(op, a, b)
    /\ \A op, a, b : B!Alu(op, a, b) = Alu(op, a, b)
    /\ \A op, a, b : M!Oracle!Alu(op, a, b) = Alu(op, a, b)
    /\ \A op, a, b : B!Oracle!Alu(op, a, b) = Alu(op, a, b)
<1>1. M!BitAnd = BitAnd
  BY DEF M!BitAnd, BitAnd, M!Word, Word, M!WORDS, WORDS
<1>2. B!BitAnd = BitAnd
  BY DEF B!BitAnd, BitAnd, B!Word, Word, B!WORDS, WORDS
<1>3. M!Oracle!BitAnd = BitAnd
  BY DEF M!Oracle!BitAnd, BitAnd, M!Oracle!Word, Word, M!Oracle!WORDS, WORDS
<1>4. B!Oracle!BitAnd = BitAnd
  BY DEF B!Oracle!BitAnd, BitAnd, B!Oracle!Word, Word, B!Oracle!WORDS, WORDS
<1>5. \A op, a, b : M!Alu(op, a, b) = Alu(op, a, b)
  BY <1>1 DEF M!Alu, Alu, M!Mask, Mask, M!ToSigned, ToSigned, M!WORDS, WORDS
<1>6. \A op, a, b : B!Alu(op, a, b) = Alu(op, a, b)
  BY <1>2 DEF B!Alu, Alu, B!Mask, Mask, B!ToSigned, ToSigned, B!WORDS, WORDS
<1>7. \A op, a, b : M!Oracle!Alu(op, a, b) = Alu(op, a, b)
  BY <1>3 DEF M!Oracle!Alu, Alu, M!Oracle!Mask, Mask, M!Oracle!ToSigned, ToSigned,
              M!Oracle!WORDS, WORDS
<1>8. \A op, a, b : B!Oracle!Alu(op, a, b) = Alu(op, a, b)
  BY <1>4 DEF B!Oracle!Alu, Alu, B!Oracle!Mask, Mask, B!Oracle!ToSigned, ToSigned,
              B!Oracle!WORDS, WORDS
<1> QED BY <1>5, <1>6, <1>7, <1>8

\* The single-cycle machine's step, seen from either machine.
LEMMA MOracleStep == \A s : M!Oracle!After(s) = Step(program, s)
<1>1. \A v : M!Oracle!Mask(v) = Mask(v)
  BY DEF M!Oracle!Mask, Mask, M!Oracle!WORDS, WORDS
<1>2. \A i : M!Oracle!Decode(i) = Decode(i)
  BY DEF M!Oracle!Decode, Decode, M!Oracle!BranchAluOp, BranchAluOp, M!Oracle!BranchCond, BranchCond
<1>3. \A p, a : M!Oracle!Fetched(p, a) = Fetched(p, a)
  BY <1>1 DEF M!Oracle!Fetched, Fetched, M!Oracle!Nop, Nop, M!Oracle!IAlu, IAlu
<1>4. /\ \A r, x : M!Oracle!RegRead(r, x) = RegRead(r, x)
      /\ \A r, e, x, v : M!Oracle!RegWrite(r, e, x, v) = RegWrite(r, e, x, v)
      /\ \A a : M!Oracle!MemIndex(a) = MemIndex(a)
  BY DEF M!Oracle!RegRead, RegRead, M!Oracle!RegWrite, RegWrite, M!Oracle!MemIndex, MemIndex
<1>5. \A m, e, a, v : M!Oracle!MemWrite(m, e, a, v) = MemWrite(m, e, a, v)
  BY <1>4 DEF M!Oracle!MemWrite, MemWrite
<1>6. \A c, x, y, a : M!Oracle!WriteBack(c, x, y, a) = WriteBack(c, x, y, a)
  BY <1>1 DEF M!Oracle!WriteBack, WriteBack
<1>7. \A c, a, r, x : M!Oracle!NextPC(c, a, r, x) = NextPC(c, a, r, x)
  BY <1>1 DEF M!Oracle!NextPC, NextPC, M!Oracle!Redirects, Redirects, M!Oracle!BranchTaken, BranchTaken
<1> QED BY <1>1, <1>2, <1>3, <1>4, <1>5, <1>6, <1>7, AluInstances DEF M!Oracle!After, M!Oracle!Step, Step, M!Oracle!ResultOf, ResultOf

LEMMA BOracleStep == \A s : B!Oracle!After(s) = Step(program, s)
<1>1. \A v : B!Oracle!Mask(v) = Mask(v)
  BY DEF B!Oracle!Mask, Mask, B!Oracle!WORDS, WORDS
<1>2. \A i : B!Oracle!Decode(i) = Decode(i)
  BY DEF B!Oracle!Decode, Decode, B!Oracle!BranchAluOp, BranchAluOp, B!Oracle!BranchCond, BranchCond
<1>3. \A p, a : B!Oracle!Fetched(p, a) = Fetched(p, a)
  BY <1>1 DEF B!Oracle!Fetched, Fetched, B!Oracle!Nop, Nop, B!Oracle!IAlu, IAlu
<1>4. /\ \A r, x : B!Oracle!RegRead(r, x) = RegRead(r, x)
      /\ \A r, e, x, v : B!Oracle!RegWrite(r, e, x, v) = RegWrite(r, e, x, v)
      /\ \A a : B!Oracle!MemIndex(a) = MemIndex(a)
  BY DEF B!Oracle!RegRead, RegRead, B!Oracle!RegWrite, RegWrite, B!Oracle!MemIndex, MemIndex
<1>5. \A m, e, a, v : B!Oracle!MemWrite(m, e, a, v) = MemWrite(m, e, a, v)
  BY <1>4 DEF B!Oracle!MemWrite, MemWrite
<1>6. \A c, x, y, a : B!Oracle!WriteBack(c, x, y, a) = WriteBack(c, x, y, a)
  BY <1>1 DEF B!Oracle!WriteBack, WriteBack
<1>7. \A c, a, r, x : B!Oracle!NextPC(c, a, r, x) = NextPC(c, a, r, x)
  BY <1>1 DEF B!Oracle!NextPC, NextPC, B!Oracle!Redirects, Redirects, B!Oracle!BranchTaken, BranchTaken
<1> QED BY <1>1, <1>2, <1>3, <1>4, <1>5, <1>6, <1>7, AluInstances DEF B!Oracle!After, B!Oracle!Step, Step, B!Oracle!ResultOf, ResultOf

-----------------------------------------------------------------------------
(* The multicycle machine.                                                  *)

MResult == ResultOf(Decode(ir), pc_latch, reg_a, reg_b)
MWbData == WriteBack(Decode(ir), MResult, mmem[MemIndex(alu_out)], pc_latch)

LEMMA MValues ==
    /\ M!Decoded = Decode(ir)
    /\ M!Result = MResult
    /\ \A e : M!WriteRegister(e) <=>
                 mregs' = RegWrite(mregs, Decode(ir).reg_write /\ e, Decode(ir).rd, MWbData)
<1>1. M!Decoded = Decode(ir)
  BY MOperators DEF M!Decoded
<1>2. M!Result = MResult
  BY <1>1, AluInstances DEF M!Result, MResult, ResultOf
<1>3. M!WbData = MWbData
  BY <1>1, <1>2, MOperators DEF M!WbData, MWbData
<1> QED BY <1>1, <1>2, <1>3, MOperators DEF M!WriteRegister

MTypeOK ==
    /\ phase \in M!Phase
    /\ control \in [mem_read : BOOLEAN, mem_write : BOOLEAN, reg_write : BOOLEAN]
    /\ mpc \in Word /\ reg_a \in Word /\ reg_b \in Word /\ pc_latch \in Word /\ alu_out \in Word
    /\ mregs \in [Reg -> Word]
    /\ mmem \in Mem

\* What the latches hold in each phase: from DECODE on the instruction at pc_latch,
\* from EXECUTE on its control and its operands, in MEMORY its result.
MInv ==
    /\ program \in Programs
    /\ MTypeOK
    /\ phase # "FETCH" =>
          /\ ir = Fetched(program, pc_latch)
          /\ mpc = Mask(pc_latch + 4)
    /\ phase \in {"EXECUTE", "MEMORY"} =>
          /\ control = [mem_read |-> Decode(ir).mem_read, mem_write |-> Decode(ir).mem_write,
                        reg_write |-> Decode(ir).reg_write]
          /\ reg_a = RegRead(mregs, Decode(ir).rs1)
          /\ reg_b = RegRead(mregs, Decode(ir).rs2)
    /\ phase = "MEMORY" =>
          /\ alu_out = MResult
          /\ Decode(ir).mem_read \/ Decode(ir).mem_write

MState == [pc |-> M!CommittedPC, regs |-> mregs, mem |-> mmem]

LEMMA MInitial == M!Init => MInv /\ MState = [pc |-> 0, regs |-> InitialRegs, mem |-> InitialMem]
<1> SUFFICES ASSUME M!Init PROVE MInv /\ MState = [pc |-> 0, regs |-> InitialRegs, mem |-> InitialMem]
  OBVIOUS
<1>1. /\ program \in Programs /\ mpc = 0 /\ phase = "FETCH"
      /\ control = [mem_read |-> FALSE, mem_write |-> FALSE, reg_write |-> FALSE]
      /\ reg_a = 0 /\ reg_b = 0 /\ pc_latch = 0 /\ alu_out = 0
      /\ mregs = InitialRegs /\ mmem = InitialMem
  BY MOperators DEF M!Init
<1>2. MTypeOK
  BY <1>1, InitialType DEF MTypeOK, M!Phase
<1> QED BY <1>1, <1>2 DEF MInv, MState, M!CommittedPC

\* The instruction in the latches from DECODE on.
LEMMA MLatched ==
    ASSUME MInv, phase # "FETCH"
    PROVE  ir \in Instruction /\ Decode(ir) \in Control
<1>1. ir \in Instruction
  BY FetchedType, ProgramsAssumption DEF MInv
<1> QED BY <1>1, DecodeType

LEMMA MStep ==
    ASSUME MInv, M!Next
    PROVE  /\ MInv' /\ program' = program
           /\ \/ phase' # "FETCH" /\ MState' = MState
              \/ phase' = "FETCH" /\ MState' = Step(program, MState)
<1> USE DEF MState, M!CommittedPC
<1>1. /\ phase \in {"FETCH", "DECODE", "EXECUTE", "MEMORY"}
      /\ mpc \in Word /\ reg_a \in Word /\ reg_b \in Word
      /\ pc_latch \in Word /\ alu_out \in Word
      /\ mregs \in [Reg -> Word]
      /\ mmem \in Mem
      /\ control \in [mem_read : BOOLEAN, mem_write : BOOLEAN, reg_write : BOOLEAN]
  BY DEF MInv, MTypeOK, M!Phase
<1> DEFINE c == Decode(ir)
<1>2. CASE M!Fetch
  <2>1. /\ phase = "FETCH" /\ phase' = "DECODE"
        /\ ir' = Fetched(program, mpc)
        /\ pc_latch' = mpc
        /\ mpc' = Mask(mpc + 4)
        /\ UNCHANGED <<program, control, reg_a, reg_b, alu_out, mregs, mmem>>
    BY <1>2, MOperators DEF M!Fetch
  <2>2. Mask(mpc + 4) \in Word
    <3>1. mpc + 4 \in Int
      BY <1>1 DEF Word
    <3> QED BY <3>1, MaskType
  <2>3. MTypeOK'
    BY <1>1, <2>1, <2>2 DEF MTypeOK, M!Phase
  <2> QED BY <2>1, <2>3 DEF MInv
<1>3. CASE M!DecodePhase
  <2>1. /\ phase = "DECODE" /\ phase' = "EXECUTE"
        /\ control' = [mem_read |-> c.mem_read, mem_write |-> c.mem_write, reg_write |-> c.reg_write]
        /\ reg_a' = RegRead(mregs, c.rs1)
        /\ reg_b' = RegRead(mregs, c.rs2)
        /\ UNCHANGED <<program, mpc, ir, pc_latch, alu_out, mregs, mmem>>
    BY <1>3, MOperators, MValues DEF M!DecodePhase
  <2>2. c \in Control
    BY <2>1, MLatched
  <2>3. reg_a' \in Word /\ reg_b' \in Word
    BY <1>1, <2>1, <2>2, RegReadType DEF Control
  <2>4. control' \in [mem_read : BOOLEAN, mem_write : BOOLEAN, reg_write : BOOLEAN]
    BY <2>1, <2>2 DEF Control
  <2>5. MTypeOK'
    BY <1>1, <2>1, <2>3, <2>4 DEF MTypeOK, M!Phase
  <2> QED BY <2>1, <2>5 DEF MInv
<1>4. ASSUME phase \in {"EXECUTE", "MEMORY"}
      PROVE  /\ ir = Fetched(program, pc_latch) /\ mpc = Mask(pc_latch + 4)
             /\ control = [mem_read |-> c.mem_read, mem_write |-> c.mem_write, reg_write |-> c.reg_write]
             /\ reg_a = RegRead(mregs, c.rs1) /\ reg_b = RegRead(mregs, c.rs2)
             /\ c \in Control /\ MResult \in Word
             /\ c.mem_read <=> c.wb_sel = "MEMORY"
             /\ c.mem_read => ~c.mem_write
             /\ c.mem_read \/ c.mem_write => ~c.branch /\ ~c.jal /\ ~c.jalr
             /\ MState.pc = pc_latch
  <2>1. ir \in Instruction /\ c \in Control
    BY <1>4, MLatched
  <2>2. MResult \in Word
    BY <1>1, <2>1, ResultType DEF MResult
  <2> QED BY <1>4, <2>1, <2>2, DecodeClasses DEF MInv
<1>5. ASSUME phase \in {"EXECUTE", "MEMORY"}
      PROVE  Step(program, MState) =
                [regs |-> RegWrite(mregs, c.reg_write, c.rd,
                                   WriteBack(c, MResult, mmem[MemIndex(MResult)], pc_latch)),
                 mem  |-> MemWrite(mmem, c.mem_write, MResult, reg_b),
                 pc   |-> NextPC(c, pc_latch, reg_a, MResult)]
  BY <1>4, <1>5 DEF Step, MResult
<1>6. CASE M!Execute
  <2>1. /\ phase = "EXECUTE"
        /\ phase' = IF c.mem_read \/ c.mem_write THEN "MEMORY" ELSE "FETCH"
        /\ alu_out' = MResult
        /\ mregs' = RegWrite(mregs, c.reg_write /\ ~(c.mem_read \/ c.mem_write) /\ c.reg_write,
                             c.rd, MWbData)
        /\ mpc' = IF Redirects(c, MResult) THEN NextPC(c, pc_latch, reg_a, MResult) ELSE mpc
        /\ UNCHANGED <<program, control, ir, reg_a, reg_b, pc_latch, mmem>>
    <3>1. /\ phase = "EXECUTE"
          /\ UNCHANGED <<program, control, ir, reg_a, reg_b, pc_latch, mmem>>
      BY <1>6 DEF M!Execute
    <3>2. M!UsesMemory <=> c.mem_read \/ c.mem_write
      BY <1>4, <3>1 DEF M!UsesMemory
    <3>3. phase' = IF c.mem_read \/ c.mem_write THEN "MEMORY" ELSE "FETCH"
      BY <1>6, <3>2 DEF M!Execute
    <3>4. M!WritesInExecute /\ control.reg_write <=> ~(c.mem_read \/ c.mem_write) /\ c.reg_write
      BY <1>4, <3>1, <3>2 DEF M!WritesInExecute
    <3>5. M!WriteRegister(M!WritesInExecute /\ control.reg_write)
      BY <1>6 DEF M!Execute
    <3>6. mregs' = RegWrite(mregs, c.reg_write /\ M!WritesInExecute /\ control.reg_write, c.rd, MWbData)
      BY <3>5, MValues
    <3>7. mregs' = RegWrite(mregs, c.reg_write /\ ~(c.mem_read \/ c.mem_write) /\ c.reg_write,
                             c.rd, MWbData)
      BY <3>4, <3>6 DEF RegWrite
    <3>8. alu_out' = MResult
      BY <1>6, MValues DEF M!Execute
    <3>9. mpc' = IF Redirects(c, MResult) THEN NextPC(c, pc_latch, reg_a, MResult) ELSE mpc
      BY <1>6, MValues, MOperators DEF M!Execute
    <3> QED BY <3>1, <3>3, <3>7, <3>8, <3>9
  <2>2. CASE c.mem_read \/ c.mem_write
    <3>1. mregs' = mregs
      BY <2>1, <2>2 DEF RegWrite
    <3>2. mpc' = mpc
      BY <1>4, <2>1, <2>2 DEF Redirects
    <3>3. MResult' = MResult
      BY <2>1 DEF MResult
    <3>4. MTypeOK'
      BY <1>1, <1>4, <2>1, <2>2, <3>1, <3>2 DEF MTypeOK, M!Phase
    <3>5. MInv'
      BY <1>4, <2>1, <2>2, <3>1, <3>2, <3>3, <3>4 DEF MInv
    <3> QED BY <2>1, <2>2, <3>1, <3>5
  <2>3. CASE ~(c.mem_read \/ c.mem_write)
    <3>1. MWbData = WriteBack(c, MResult, mmem[MemIndex(MResult)], pc_latch)
      BY <1>4, <2>1, <2>3 DEF MWbData, WriteBack
    <3>2. mregs' = RegWrite(mregs, c.reg_write, c.rd,
                            WriteBack(c, MResult, mmem[MemIndex(MResult)], pc_latch))
      BY <2>1, <2>3, <3>1 DEF RegWrite
    <3>3. mmem' = MemWrite(mmem, c.mem_write, MResult, reg_b)
      BY <2>1, <2>3 DEF MemWrite
    <3>4. mpc' = NextPC(c, pc_latch, reg_a, MResult)
      BY <1>4, <2>1 DEF NextPC, Redirects
    <3>5. mpc' \in Word
      BY <1>1, <1>4, <2>1, <3>4, NextPCType
    <3>6. mregs' \in [Reg -> Word]
      <4>1. WriteBack(c, MResult, mmem[MemIndex(MResult)], pc_latch) \in Word
        BY <1>1, <1>4, <2>1, MemReadType, WriteBackType
      <4> HIDE DEF c
      <4>2. c.rd \in Reg
        BY <1>4, <2>1 DEF Control
      <4> QED BY <1>1, <3>2, <4>1, <4>2, RegWriteType
    <3>7. MTypeOK'
      BY <1>1, <1>4, <2>1, <2>3, <3>5, <3>6 DEF MTypeOK, M!Phase
    <3>8. phase' = "FETCH"
      BY <2>1, <2>3
    <3>9. MInv'
      BY <2>1, <3>7, <3>8 DEF MInv
    <3>10. MState' = Step(program, MState)
      BY <1>5, <2>1, <3>2, <3>3, <3>4, <3>8
    <3> QED BY <2>1, <3>8, <3>9, <3>10
  <2> QED BY <2>2, <2>3
<1>7. CASE M!Memory
  <2>1. /\ phase = "MEMORY" /\ phase' = "FETCH"
        /\ mmem' = MemWrite(mmem, c.mem_write /\ c.mem_write, alu_out, reg_b)
        /\ mregs' = RegWrite(mregs, c.reg_write /\ c.reg_write, c.rd, MWbData)
        /\ UNCHANGED <<program, mpc, control, ir, reg_a, reg_b, pc_latch, alu_out>>
    BY <1>4, <1>7, MOperators, MValues DEF M!Memory
  <2>2. alu_out = MResult /\ (c.mem_read \/ c.mem_write)
    BY <2>1 DEF MInv
  <2>3. mregs' = RegWrite(mregs, c.reg_write, c.rd,
                          WriteBack(c, MResult, mmem[MemIndex(MResult)], pc_latch))
    BY <2>1, <2>2 DEF MWbData, RegWrite
  <2>4. mmem' = MemWrite(mmem, c.mem_write, MResult, reg_b)
    BY <2>1, <2>2 DEF MemWrite
  <2>5. mpc' = NextPC(c, pc_latch, reg_a, MResult)
    BY <1>4, <2>1, <2>2 DEF NextPC, Redirects
  <2>6. mregs' \in [Reg -> Word] /\ mmem' \in Mem
    <3>1. WriteBack(c, MResult, mmem[MemIndex(MResult)], pc_latch) \in Word
      BY <1>1, <1>4, <2>1, MemReadType, WriteBackType
    <3>2. c.rd \in Reg /\ MResult \in Word
      BY <1>4, <2>1 DEF Control
    <3> HIDE DEF c
    <3> QED BY <1>1, <2>3, <2>4, <3>1, <3>2, RegWriteType, MemWriteType
  <2>7. MTypeOK'
    BY <1>1, <2>1, <2>6 DEF MTypeOK, M!Phase
  <2>8. MInv'
    BY <2>1, <2>7 DEF MInv
  <2>9. MState' = Step(program, MState)
    BY <1>5, <2>1, <2>3, <2>4, <2>5
  <2> QED BY <2>1, <2>8, <2>9
<1> QED BY <1>2, <1>3, <1>6, <1>7 DEF M!Next

\* The controller's schedule.
LEMMA MSchedule ==
    ASSUME MInv, M!Next
    PROVE  LET c == Decode(Fetched(program, M!CommittedPC))
           IN /\ phase \in M!Phase
              /\ phase = "FETCH" => phase' = "DECODE"
              /\ phase = "DECODE" => phase' = "EXECUTE"
              /\ phase = "EXECUTE" => phase' = IF c.mem_read \/ c.mem_write THEN "MEMORY" ELSE "FETCH"
              /\ phase = "MEMORY" => phase' = "FETCH" /\ (c.mem_read \/ c.mem_write)
<1>1. phase \in M!Phase
  BY DEF MInv, MTypeOK
<1>2. CASE M!Fetch
  BY <1>1, <1>2 DEF M!Fetch
<1>3. CASE M!DecodePhase
  BY <1>1, <1>3 DEF M!DecodePhase
<1>4. CASE M!Execute
  BY <1>1, <1>4 DEF M!Execute, M!UsesMemory, MInv, M!CommittedPC
<1>5. CASE M!Memory
  BY <1>1, <1>5 DEF M!Memory, MInv, M!CommittedPC
<1> QED BY <1>2, <1>3, <1>4, <1>5 DEF M!Next

-----------------------------------------------------------------------------
(* The configurable machine.                                                *)

BInv ==
    /\ program \in Programs
    /\ costs \in [B!Class -> Nat \ {0}]
    /\ elapsed \in Nat

BState == [pc |-> bpc, regs |-> bregs, mem |-> bmem]

LEMMA BInitial == B!Init => BInv /\ elapsed = 0 /\ BState = [pc |-> 0, regs |-> InitialRegs, mem |-> InitialMem]
<1> SUFFICES ASSUME B!Init
             PROVE  BInv /\ elapsed = 0 /\ BState = [pc |-> 0, regs |-> InitialRegs, mem |-> InitialMem]
  OBVIOUS
<1>1. PICK profile \in Profiles : costs = B!Clamp(profile)
  BY DEF B!Init
<1>2. profile \in [B!Class -> Int]
  BY ProfilesAssumption
<1>3. costs \in [B!Class -> Nat \ {0}]
  BY <1>1, <1>2 DEF B!Clamp
<1> QED BY <1>3, BOperators DEF B!Init, BInv, BState

LEMMA BStep ==
    ASSUME BInv, B!Next
    PROVE  /\ BInv' /\ program' = program /\ costs' = costs
           /\ \/ B!Last /\ elapsed' = 0 /\ BState' = Step(program, BState)
              \/ ~B!Last /\ elapsed' = elapsed + 1 /\ BState' = BState
<1>1. CASE B!CommitNow
  <2> DEFINE c == Decode(Fetched(program, bpc))
             a == RegRead(bregs, c.rs1)
             b == RegRead(bregs, c.rs2)
             result == ResultOf(c, bpc, a, b)
  <2>1. B!Decoded = c
    BY BOperators DEF B!Decoded
  <2>2. B!rs1 = a /\ B!rs2 = b
    BY <2>1, BOperators DEF B!rs1, B!rs2
  <2>3. B!Result = result
    BY <2>1, <2>2, AluInstances DEF B!Result, ResultOf
  <2>4. /\ bregs' = RegWrite(bregs, c.reg_write, c.rd,
                             WriteBack(c, result, bmem[MemIndex(result)], bpc))
        /\ bmem' = MemWrite(bmem, c.mem_write, result, b)
        /\ bpc' = NextPC(c, bpc, a, result)
    BY <1>1, <2>1, <2>2, <2>3, BOperators DEF B!CommitNow
  <2>5. B!Last /\ elapsed' = 0 /\ program' = program /\ costs' = costs
    BY <1>1 DEF B!CommitNow
  <2>6. BState' = Step(program, BState)
    BY <2>4 DEF BState, Step
  <2> QED BY <2>5, <2>6 DEF BInv
<1>2. CASE B!Hold
  BY <1>2 DEF B!Hold, BInv, BState
<1> QED BY <1>1, <1>2 DEF B!Next

-----------------------------------------------------------------------------
(* Both machines: the phase is the number of cycles spent, and the states   *)
(* between instructions are the same.                                       *)

Elapsed == CASE phase = "FETCH"   -> 0
             [] phase = "DECODE"  -> 1
             [] phase = "EXECUTE" -> 2
             [] phase = "MEMORY"  -> 3

Synchronous == costs = FETDECEXE_COSTS => MState = BState /\ elapsed = Elapsed

Inv == MInv /\ BInv /\ Synchronous

LEMMA Classic ==
    ASSUME BInv, costs = FETDECEXE_COSTS
    PROVE  LET c == Decode(Fetched(program, bpc))
           IN B!Cost = IF c.mem_read \/ c.mem_write THEN 4 ELSE 3
<1>1. B!Decoded = Decode(Fetched(program, bpc))
  BY BOperators DEF B!Decoded
<1> DEFINE c == Decode(Fetched(program, bpc))
<1>2. B!Cost = FETDECEXE_COSTS[B!ClassOf(c)]
  BY <1>1 DEF B!Cost
<1>3. /\ FETDECEXE_COSTS["alu"] = 3 /\ FETDECEXE_COSTS["branch"] = 3
      /\ FETDECEXE_COSTS["load"] = 4 /\ FETDECEXE_COSTS["store"] = 4
  BY DEF FETDECEXE_COSTS
<1>4. Fetched(program, bpc) \in Instruction
  BY FetchedType, ProgramsAssumption DEF BInv
<1>5. /\ c.mem_read \in BOOLEAN /\ c.mem_write \in BOOLEAN
      /\ ~(c.mem_read /\ c.mem_write)
      /\ c.mem_read \/ c.mem_write => ~(c.branch \/ c.jal \/ c.jalr)
  BY <1>4, DecodeType, DecodeClasses DEF Control
<1> HIDE DEF c
<1>6. B!ClassOf(c) = IF c.mem_read THEN "load" ELSE IF c.mem_write THEN "store"
                     ELSE IF c.branch \/ c.jal \/ c.jalr THEN "branch" ELSE "alu"
  <2>1. CASE c.mem_read
    BY <1>5, <2>1 DEF B!ClassOf
  <2>2. CASE c.mem_write
    BY <1>5, <2>2 DEF B!ClassOf
  <2>3. CASE ~c.mem_read /\ ~c.mem_write
    BY <1>5, <2>3 DEF B!ClassOf
  <2> QED BY <2>1, <2>2, <2>3
<1>7. B!Cost = IF c.mem_read \/ c.mem_write THEN 4 ELSE 3
  BY <1>2, <1>3, <1>6
<1> QED BY <1>7 DEF c

LEMMA InvInitial == Init => Inv
<1> SUFFICES ASSUME Init PROVE Inv
  OBVIOUS
<1>1. phase = "FETCH"
  BY DEF Init, M!Init
<1> QED BY <1>1, MInitial, BInitial DEF Init, Inv, Synchronous, Elapsed

LEMMA InvStep == Inv /\ [Next]_vars => Inv'
<1> SUFFICES ASSUME Inv, [Next]_vars PROVE Inv'
  OBVIOUS
<1>1. CASE Next
  <2>1. MInv /\ BInv /\ M!Next /\ B!Next /\ Synchronous
    BY <1>1 DEF Inv, Next
  <2>2. /\ MInv' /\ program' = program
        /\ \/ phase' # "FETCH" /\ MState' = MState
           \/ phase' = "FETCH" /\ MState' = Step(program, MState)
    BY <2>1, MStep
  <2>3. /\ BInv' /\ costs' = costs
        /\ \/ B!Last /\ elapsed' = 0 /\ BState' = Step(program, BState)
           \/ ~B!Last /\ elapsed' = elapsed + 1 /\ BState' = BState
    BY <2>1, BStep
  <2>4. ASSUME costs = FETDECEXE_COSTS
        PROVE  MState' = BState' /\ elapsed' = Elapsed'
    <3> DEFINE c == Decode(Fetched(program, bpc))
    <3>1. MState = BState /\ elapsed = Elapsed
      BY <2>1, <2>4 DEF Synchronous
    <3>2. M!CommittedPC = bpc
      BY <3>1 DEF MState, BState
    <3>3. B!Last <=> elapsed + 1 >= IF c.mem_read \/ c.mem_write THEN 4 ELSE 3
      BY <2>1, <2>4, Classic DEF B!Last
    <3>4. /\ phase \in {"FETCH", "DECODE", "EXECUTE", "MEMORY"}
          /\ phase = "FETCH" => phase' = "DECODE"
          /\ phase = "DECODE" => phase' = "EXECUTE"
          /\ phase = "EXECUTE" => phase' = IF c.mem_read \/ c.mem_write THEN "MEMORY" ELSE "FETCH"
          /\ phase = "MEMORY" => phase' = "FETCH" /\ (c.mem_read \/ c.mem_write)
      BY <2>1, <3>2, MSchedule DEF M!Phase
    <3> HIDE DEF c
    <3>5. CASE phase \in {"FETCH", "DECODE"}
      BY <2>2, <2>3, <3>1, <3>3, <3>4, <3>5 DEF Elapsed
    <3>6. CASE phase = "EXECUTE"
      BY <2>2, <2>3, <3>1, <3>3, <3>4, <3>6 DEF Elapsed
    <3>7. CASE phase = "MEMORY"
      BY <2>2, <2>3, <3>1, <3>3, <3>4, <3>7 DEF Elapsed
    <3> QED BY <3>4, <3>5, <3>6, <3>7
  <2> QED BY <2>2, <2>3, <2>4 DEF Inv, Synchronous
<1>2. CASE UNCHANGED vars
  <2>1. UNCHANGED <<program, mpc, phase, control, ir, reg_a, reg_b, pc_latch, alu_out, mregs, mmem,
                    bpc, bregs, bmem, costs, elapsed>>
    BY <1>2 DEF vars, M!vars, B!vars
  <2> QED BY <2>1 DEF Inv, MInv, MTypeOK, MResult, BInv, Synchronous, MState, M!CommittedPC, BState,
                      Elapsed
<1> QED BY <1>1, <1>2

LEMMA Invariance == Spec => []Inv
BY InvInitial, InvStep, PTL DEF Spec

-----------------------------------------------------------------------------

\* The latches of the multicycle machine hold words, its controller is always in
\* one of its four phases, and registers and memory keep their shape.
THEOREM TypeCorrect == Spec => []TypeOK
<1>1. Inv => TypeOK
  BY MOperators DEF Inv, MInv, MTypeOK, TypeOK, M!TypeOK, Mem
<1> QED BY <1>1, Invariance, PTL

\* Under the classic costs the finite state controller and the cycle counter are
\* two descriptions of one schedule, whatever the program.
THEOREM LockstepCorrect == Spec => []InLockstep
<1>1. Inv => InLockstep
  <2> SUFFICES ASSUME Inv, costs = FETDECEXE_COSTS
               PROVE  /\ mregs = bregs /\ mmem = bmem /\ M!CommittedPC = bpc
                      /\ (phase = "FETCH") <=> (elapsed = 0)
    BY DEF InLockstep
  <2>1. MState = BState /\ elapsed = Elapsed
    BY DEF Inv, Synchronous
  <2>2. phase \in {"FETCH", "DECODE", "EXECUTE", "MEMORY"}
    BY DEF Inv, MInv, MTypeOK, M!Phase
  <2> QED BY <2>1, <2>2 DEF MState, BState, Elapsed
<1> QED BY <1>1, Invariance, PTL

\* The multicycle machine changes registers, memory and program counter only as
\* the single-cycle machine does, one instruction after the other.
THEOREM MulticycleRefines == Spec => MulticycleImplementsOracle
<1>1. Init => M!Oracle!Init
  <2>1. M!Oracle!InitialRegs = InitialRegs /\ M!Oracle!InitialMem = InitialMem
    BY DEF M!Oracle!InitialRegs, InitialRegs, M!Oracle!InitialMem, InitialMem, M!Oracle!Reg, Reg
  <2> QED BY <2>1, MInitial DEF Init, MState, M!Oracle!Init
<1>2. Inv /\ [Next]_vars => [M!Oracle!Next]_(M!Oracle!vars)
  <2> SUFFICES ASSUME Inv, [Next]_vars PROVE [M!Oracle!Next]_(M!Oracle!vars)
    OBVIOUS
  <2>1. CASE Next
    <3>1. /\ program' = program
          /\ \/ MState' = MState
             \/ MState' = Step(program, MState)
      BY <2>1, MStep DEF Inv, Next
    <3>2. CASE MState' = MState
      BY <3>1, <3>2 DEF MState, M!Oracle!vars
    <3>3. CASE MState' = Step(program, MState)
      <4>1. MState' = M!Oracle!After(MState)
        BY <3>3, MOracleStep
      <4> QED BY <3>1, <4>1 DEF MState, M!Oracle!Next, M!Oracle!Tick
    <3> QED BY <3>1, <3>2, <3>3
  <2>2. CASE UNCHANGED vars
    BY <2>2 DEF vars, M!vars, M!CommittedPC, M!Oracle!vars
  <2> QED BY <2>1, <2>2
<1> QED BY <1>1, <1>2, Invariance, PTL DEF Spec, MulticycleImplementsOracle, M!ImplementsOracle

\* So does the configurable machine, whatever its costs.
THEOREM BudgetRefines == Spec => BudgetImplementsOracle
<1>1. Init => B!Oracle!Init
  <2>1. B!Oracle!InitialRegs = InitialRegs /\ B!Oracle!InitialMem = InitialMem
    BY DEF B!Oracle!InitialRegs, InitialRegs, B!Oracle!InitialMem, InitialMem, B!Oracle!Reg, Reg
  <2> QED BY <2>1, BInitial DEF Init, BState, B!Oracle!Init
<1>2. Inv /\ [Next]_vars => [B!Oracle!Next]_(B!Oracle!vars)
  <2> SUFFICES ASSUME Inv, [Next]_vars PROVE [B!Oracle!Next]_(B!Oracle!vars)
    OBVIOUS
  <2>1. CASE Next
    <3>1. /\ program' = program
          /\ \/ BState' = BState
             \/ BState' = Step(program, BState)
      BY <2>1, BStep DEF Inv, Next
    <3>2. CASE BState' = BState
      BY <3>1, <3>2 DEF BState, B!Oracle!vars
    <3>3. CASE BState' = Step(program, BState)
      <4>1. BState' = B!Oracle!After(BState)
        BY <3>3, BOracleStep
      <4> QED BY <3>1, <4>1 DEF BState, B!Oracle!Next, B!Oracle!Tick
    <3> QED BY <3>1, <3>2, <3>3
  <2>2. CASE UNCHANGED vars
    BY <2>2 DEF vars, B!vars, B!Oracle!vars
  <2> QED BY <2>1, <2>2
<1> QED BY <1>1, <1>2, Invariance, PTL DEF Spec, BudgetImplementsOracle, B!ImplementsOracle
=============================================================================
