----------------------------- MODULE Superscalar ----------------------------
(***************************************************************************)
(* The superscalar RISC-V pipeline (src/sim/isa/riscv/presets/superscalar   *)
(* .py): every stage holds a group of num_lanes consecutive instructions.   *)
(* A group that depends on itself, or has a jump behind its first lane, is  *)
(* cut: the lanes from the cut on are squashed and fetched again.           *)
(*                                                                          *)
(* Only lane 0 resolves and predicts branches.  As in Pipeline the          *)
(* predictor's answer is left open.  In the fetch stage a predictor is      *)
(* informational here and never steers, which is the answer "not taken".    *)
(***************************************************************************)
EXTENDS PipelineEntries, FiniteSetsExt

CONSTANT Programs   \* by number of lanes: functions from word index to instruction

ASSUME SuperscalarAssumption ==
    /\ DOMAIN Programs \subseteq Nat \ {0}
    /\ \A lanes \in DOMAIN Programs : \A p \in Programs[lanes] :
         \A w \in DOMAIN p : p[w] \in Instruction
    /\ ZERO_REG = 0   \* a bubble in ID reads and writes register 0

VARIABLES num_lanes,   \* a parameter of build, fixed from then on
          program,  \* WideInstructionMemory._program
          pc,       \* SuperscalarFetch._pc
          if_id, id_ex, ex_mem, mem_wb,   \* the stage registers, by lane
          regs,     \* WideRegisterFile.regs
          mem       \* MultiPortDataMemory._mem
vars == <<num_lanes, program, pc, if_id, id_ex, ex_mem, mem_wb, regs, mem>>

Lane == 0..(num_lanes - 1)   \* lane order is program order
Bubbles(bubble) == [i \in Lane |-> bubble]

TypeOK ==
    /\ pc \in Word
    /\ \A i \in Lane :
         /\ if_id[i].pc \in Word
         /\ {id_ex[i].pc, id_ex[i].rs1_data, id_ex[i].rs2_data} \subseteq Word
         /\ {ex_mem[i].pc, ex_mem[i].alu_result, ex_mem[i].rs2_data} \subseteq Word
         /\ {mem_wb[i].pc, mem_wb[i].alu_result, mem_wb[i].mem_data} \subseteq Word
    /\ regs \in [Reg -> Word]
    /\ mem \in [0..(MEM_WORDS - 1) -> Word]

Init ==
    /\ num_lanes \in DOMAIN Programs
    /\ program \in Programs[num_lanes]
    /\ pc = 0
    /\ if_id = Bubbles(FetchBubble)
    /\ id_ex = Bubbles(DecodeBubble)
    /\ ex_mem = Bubbles(ExecuteBubble)
    /\ mem_wb = Bubbles(MemoryBubble)
    /\ regs = InitialRegs
    /\ mem = InitialMem

-----------------------------------------------------------------------------
(* Registers and memory.  Of several lanes that write the same place the    *)
(* youngest wins.                                                           *)

Writers(entries, r) ==
    {j \in Lane : entries[j].c.reg_write /\ entries[j].c.rd = r /\ r # ZERO_REG}

WbData(i) == WriteBack(mem_wb[i].c, mem_wb[i].alu_result, mem_wb[i].mem_data, mem_wb[i].pc)

\* The register file behind this cycle's writes, which its read ports show.
WrittenRegs ==
    [r \in Reg |-> LET w == Writers(mem_wb, r)
                   IN IF w = {} THEN regs[r] ELSE WbData(Max(w))]

\* A word of memory behind the stores of some lanes.
MemView(word, lanes) ==
    LET w == {j \in lanes : /\ ex_mem[j].c.mem_write
                            /\ MemIndex(ex_mem[j].alu_result) = word}
    IN IF w = {} THEN mem[word] ELSE ex_mem[Max(w)].rs2_data

Loaded(i) == MemView(MemIndex(ex_mem[i].alu_result), 0..(i - 1))

-----------------------------------------------------------------------------
(* Decode: the cross-lane hazard detector.                                  *)

Decoded == [i \in Lane |-> Decode(if_id[i].instr)]

\* Mutant: both source ports always count.
AllPorts(c) == {c.rs1, c.rs2}
\* Where an instruction has no second source its rs2 port shows bits of its
\* immediate, which must not count.
Sources(c) ==
    {c.rs1} \cup (IF c.mem_write \/ c.branch \/ (~c.alu_src /\ ~c.jal /\ ~c.jalr)
                  THEN {c.rs2} ELSE {})

LoadUse ==
    \E ex, i \in Lane : /\ id_ex[ex].c.mem_read
                        /\ id_ex[ex].c.rd # ZERO_REG
                        /\ id_ex[ex].c.rd \in Sources(Decoded[i])

\* Lanes that read what an older lane of the group writes.
Dependent ==
    {j \in Lane : \E i \in 0..(j - 1) : /\ Decoded[i].reg_write
                                        /\ Decoded[i].rd # ZERO_REG
                                        /\ Decoded[i].rd \in Sources(Decoded[j])}

\* Mutant: a jump in the first lane cuts itself off.
ShadowAtJump == {i \in Lane : Decoded[i].branch \/ Decoded[i].jal \/ Decoded[i].jalr}
\* A branch or jump executes in lane 0 and with nothing behind it.
Shadow ==
    {IF i = 0 THEN 1 ELSE i :
        i \in {l \in Lane : Decoded[l].branch \/ Decoded[l].jal \/ Decoded[l].jalr}}

\* The number of lanes that execute (squash_from).
SquashFrom == Min({num_lanes} \cup Dependent \cup Shadow)

PartialSquash == ~LoadUse /\ SquashFrom < num_lanes
LaneValid(i)  == ~LoadUse /\ i < SquashFrom

-----------------------------------------------------------------------------
(* Execute.                                                                 *)

\* Mutant: the oldest of the lanes that write the register.
ForwardOldest(r, read) ==
    LET inMem == Writers(ex_mem, r)
        inWb  == Writers(mem_wb, r)
    IN CASE inMem # {}                  -> ex_mem[Min(inMem)].alu_result
         [] inMem = {} /\ inWb # {}     -> WbData(Min(inWb))
         [] OTHER                       -> read

Forward(r, read) ==
    LET inMem == Writers(ex_mem, r)
        inWb  == Writers(mem_wb, r)
    IN CASE inMem # {}                  -> ex_mem[Max(inMem)].alu_result
         [] inMem = {} /\ inWb # {}     -> WbData(Max(inWb))
         [] OTHER                       -> read

Operand1(i) == Forward(id_ex[i].c.rs1, id_ex[i].rs1_data)
Operand2(i) == Forward(id_ex[i].c.rs2, id_ex[i].rs2_data)

AluResult(i) ==
    Alu(id_ex[i].c.alu_op, IF id_ex[i].c.use_pc THEN id_ex[i].pc ELSE Operand1(i),
                           IF id_ex[i].c.alu_src THEN id_ex[i].c.imm ELSE Operand2(i))

-----------------------------------------------------------------------------
(* Branches are resolved in MEM and predicted in ID, both in lane 0.        *)

IsControl  == ex_mem[0].c.branch \/ ex_mem[0].c.jal \/ ex_mem[0].c.jalr
Taken      == Redirects(ex_mem[0].c, ex_mem[0].alu_result)
Unmasked   == ex_mem[0].pc + ex_mem[0].c.imm   \* mutant: wider than the program counter
Target     == NextPC(ex_mem[0].c, ex_mem[0].pc, ex_mem[0].rs1_data, ex_mem[0].alu_result)
Mispredict == IsControl /\ Taken # ex_mem[0].predicted

Asked         == Decoded[0].branch \/ Decoded[0].jal
PredictTarget == Mask(if_id[0].pc + Decoded[0].imm)

-----------------------------------------------------------------------------
(* The clock edges.  The group in ID was fetched one group before pc, so a  *)
(* cut moves the program counter back by the lanes cut off.                 *)

Fetch(predicted) ==
    pc' = CASE Mispredict -> Target
            [] ~Mispredict /\ LoadUse -> pc
            [] ~Mispredict /\ ~LoadUse /\ predicted -> PredictTarget
            [] ~Mispredict /\ PartialSquash /\ ~predicted ->
                  Mask(pc - 4 * (num_lanes - SquashFrom))
            [] OTHER -> Mask(pc + 4 * num_lanes)

\* Mutant: the group fetched behind a cut one is kept.
KeepsStaleGroup(predicted) ==
    if_id' = CASE Mispredict -> Bubbles(FetchBubble)
               [] ~Mispredict /\ LoadUse -> if_id
               [] ~Mispredict /\ ~LoadUse /\ predicted -> Bubbles(FetchBubble)
               [] OTHER -> [i \in Lane |->
                     [valid |-> TRUE, pc |-> Mask(pc + 4 * i),
                      instr |-> Fetched(program, pc + 4 * i), predicted |-> FALSE]]

IF_ID(predicted) ==
    if_id' = CASE Mispredict \/ PartialSquash -> Bubbles(FetchBubble)
               [] ~Mispredict /\ LoadUse -> if_id
               [] ~Mispredict /\ ~LoadUse /\ ~PartialSquash /\ predicted -> Bubbles(FetchBubble)
               [] OTHER -> [i \in Lane |->
                     [valid |-> TRUE, pc |-> Mask(pc + 4 * i),
                      instr |-> Fetched(program, pc + 4 * i), predicted |-> FALSE]]

ID_EX(predicted) ==
    id_ex' = [i \in Lane |->
        IF Mispredict \/ ~LaneValid(i) \/ ~if_id[i].valid THEN DecodeBubble
        ELSE [valid |-> TRUE, pc |-> if_id[i].pc, c |-> Decoded[i],
              rs1_data |-> RegRead(WrittenRegs, Decoded[i].rs1),
              rs2_data |-> RegRead(WrittenRegs, Decoded[i].rs2),
              predicted |-> predicted /\ i = 0]]

EX_MEM ==
    ex_mem' = [i \in Lane |->
        IF Mispredict THEN ExecuteBubble
        ELSE [valid |-> id_ex[i].valid, pc |-> id_ex[i].pc, c |-> id_ex[i].c,
              alu_result |-> AluResult(i), rs1_data |-> Operand1(i),
              rs2_data |-> Operand2(i), predicted |-> id_ex[i].predicted]]

MEM_WB ==
    mem_wb' = [i \in Lane |->
        [valid |-> ex_mem[i].valid, pc |-> ex_mem[i].pc, c |-> ex_mem[i].c,
         alu_result |-> ex_mem[i].alu_result, mem_data |-> Loaded(i)]]

Cycle(predicted) ==
    /\ Fetch(predicted)
    /\ IF_ID(predicted)
    /\ ID_EX(predicted)
    /\ EX_MEM
    /\ MEM_WB
    /\ regs' = WrittenRegs
    /\ mem' = [word \in DOMAIN mem |-> MemView(word, Lane)]
    /\ UNCHANGED <<num_lanes, program>>

Next == \E predicted \in BOOLEAN : (predicted => Asked) /\ Cycle(predicted)

\* The runner calls CPU.tick in a loop: the clock does not stop.
Spec == Init /\ [][Next]_vars /\ WF_vars(Next)

-----------------------------------------------------------------------------
(* Properties.                                                              *)

\* The oldest group in flight starts at its first lane.
CommittedPC ==
    CASE ex_mem[0].valid                                        -> ex_mem[0].pc
      [] ~ex_mem[0].valid /\ id_ex[0].valid                     -> id_ex[0].pc
      [] ~ex_mem[0].valid /\ ~id_ex[0].valid /\ if_id[0].valid  -> if_id[0].pc
      [] OTHER                                                  -> pc

Oracle == INSTANCE SingleCycle WITH pc <- CommittedPC, regs <- WrittenRegs

Committed == [pc |-> CommittedPC, regs |-> WrittenRegs, mem |-> mem]

\* The oracle's state k instructions further.
Ahead(k) ==
    LET run[n \in 0..k] == IF n = 0 THEN Committed ELSE Oracle!After(run[n - 1])
    IN run[k]

\* A group leaves EX/MEM with the effect its valid lanes have one after the
\* other on the single-cycle machine, whatever was cut, stalled, forwarded,
\* squashed or guessed before.
CommitsInOrder ==
    [][Committed' = Ahead(Cardinality({i \in Lane : ex_mem[i].valid}))]_vars

\* Some instruction commits again and again: cutting and fetching again never
\* goes on for ever.
KeepsCommitting == []<>ex_mem[0].valid

\* The instruction reads no register but the zero register.
Independent(i) ==
    /\ i.opcode \in {"I_ALU", "LOAD", "STORE"}
    /\ i.rs1 = ZERO_REG
    /\ i.opcode = "STORE" => i.rs2 = ZERO_REG

\* Lanes are not wasted: where two groups of instructions need nothing of each
\* other, the second commits whole and in the cycle after the first.  Neither an
\* immediate that looks like a register nor loads and stores of one word may
\* cut or delay it.
FullRate ==
    [][(/\ ex_mem[0].valid
        /\ \A i \in 0..(2 * num_lanes - 1) :
              Independent(Fetched(program, ex_mem[0].pc + 4 * i)))
       => \A i \in Lane : ex_mem'[i].valid /\ ex_mem'[i].pc = Mask(ex_mem[i].pc + 4 * num_lanes)]_vars

-----------------------------------------------------------------------------
(* IF_ID fetches a later lane from an index that does not wrap around as the*)
(* program counter does (wide_imem.py:30), so the properties hold for the   *)
(* programs that stay below the end of the address space.                   *)

\* S holds the state at reset, every state the single-cycle machine running p goes on
\* to, and none at the last word of the address space.
StaysBelow(p, S) ==
    /\ [pc |-> 0, regs |-> InitialRegs, mem |-> InitialMem] \in S
    /\ \A s \in S : s.pc + 4 \in Word /\ Step(p, s) \in S
=============================================================================
