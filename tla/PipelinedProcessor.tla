------------------------- MODULE PipelinedProcessor -------------------------
(***************************************************************************)
(* The five-stage pipelines of the three instruction sets executing         *)
(* assembled programs (src/sim/isa/<isa>/presets/pipeline.py) as they are   *)
(* built by default: no prediction, branches resolved in MEM.  Pipeline is  *)
(* the RISC-V one with any predictor; here it is the wiring ARM and x86     *)
(* share with it and the flags, which are captured in EX and travel with    *)
(* the branch.  m is a machine as in Processor, st the stage registers.     *)
(***************************************************************************)
EXTENDS Processor

\* Cleared stage registers.  The NOP of IF/ID drives no signal that shows.
NoFlags       == [zero |-> FALSE, result |-> 0]
FetchBubble   == [valid |-> FALSE, pc |-> 0]
DecodeBubble  == [valid |-> FALSE, pc |-> 0, c |-> NoSignals, rs1_data |-> 0, rs2_data |-> 0]
ExecuteBubble == [valid |-> FALSE, pc |-> 0, c |-> NoSignals, alu_result |-> 0,
                  rs1_data |-> 0, rs2_data |-> 0, flags |-> NoFlags]
MemoryBubble  == [valid |-> FALSE, pc |-> 0, c |-> NoSignals, alu_result |-> 0, mem_data |-> 0]
EmptyStages   == [if_id |-> FetchBubble, id_ex |-> DecodeBubble, ex_mem |-> ExecuteBubble,
                  mem_wb |-> MemoryBubble]

-----------------------------------------------------------------------------
(* Operands.                                                                *)

Produces(isa, c, r) == c.reg_write /\ c.rd = r /\ r # ZeroReg(isa)
WrittenBack(st) == WriteBackValue(st.mem_wb.c, st.mem_wb.pc, st.mem_wb.alu_result,
                                  st.mem_wb.mem_data)

\* A read port of the register file, write_through.
ReadPort(isa, m, st, r) ==
    IF Produces(isa, st.mem_wb.c, r) THEN WrittenBack(st) ELSE RegisterAt(isa, m.regs, r)

\* Mutant: the register the zero register is on RISC-V is never forwarded.
ForwardedRISCVOnly(isa, st, r, read) ==
    CASE r = 0 -> read
      [] r # 0 /\ Produces(isa, st.ex_mem.c, r) -> st.ex_mem.alu_result
      [] OTHER -> IF Produces(isa, st.mem_wb.c, r) THEN WrittenBack(st) ELSE read

\* ForwardingUnit: the youngest producer wins.  EX/MEM has the ALU's result also
\* for a load.
Forwarded(isa, st, r, read) ==
    CASE Produces(isa, st.ex_mem.c, r) -> st.ex_mem.alu_result
      [] ~Produces(isa, st.ex_mem.c, r) /\ Produces(isa, st.mem_wb.c, r) -> WrittenBack(st)
      [] OTHER -> read

\* HazardDetector, with c in ID.  Register 0 counts as the zero register on every
\* instruction set.
LoadUse(c, st) ==
    st.id_ex.c.mem_read /\ st.id_ex.c.rd # 0 /\ st.id_ex.c.rd \in {c.rs1, c.rs2}

-----------------------------------------------------------------------------
(* What each stage passes on.                                               *)

InDecode(isa, image, st) ==
    IF st.if_id.valid THEN Decoded(isa, image, st.if_id.pc) ELSE NoSignals

DecodedEntry(isa, m, st, c) ==
    [valid |-> st.if_id.valid, pc |-> st.if_id.pc, c |-> c,
     rs1_data |-> ReadPort(isa, m, st, c.rs1), rs2_data |-> ReadPort(isa, m, st, c.rs2)]

Executed(m, e, op1, op2, result) ==
    [valid |-> e.valid, pc |-> e.pc, c |-> e.c, alu_result |-> result,
     rs1_data |-> op1, rs2_data |-> op2, flags |-> Flags(e.c, m.flags, result)]
WithOperands(isa, m, e, op1, op2) ==
    Executed(m, e, op1, op2, AluResult(isa, e.c, e.pc, op1, op2))
ExecutedEntry(isa, m, st) ==
    WithOperands(isa, m, st.id_ex, Forwarded(isa, st, st.id_ex.c.rs1, st.id_ex.rs1_data),
                                   Forwarded(isa, st, st.id_ex.c.rs2, st.id_ex.rs2_data))

MemoryEntry(m, e) ==
    [valid |-> e.valid, pc |-> e.pc, c |-> e.c, alu_result |-> e.alu_result,
     mem_data |-> WordIn(m.mem, e.alu_result)]

\* Nothing is predicted taken, so every redirect is a misprediction.
Mispredict(isa, e) == Redirects(isa, e.c, e.flags, e.alu_result)

-----------------------------------------------------------------------------
(* One clock edge.  flush and stall are the wires of that name, ex the      *)
(* entry of the instruction in EX.                                          *)

\* A redirect outranks a stall.
StagesAfter(isa, m, st, c, ex, flush, stall) ==
    [if_id  |-> CASE flush -> FetchBubble
                  [] ~flush /\ stall -> st.if_id
                  [] OTHER -> [valid |-> TRUE, pc |-> m.pc],
     id_ex  |-> IF flush \/ stall THEN DecodeBubble ELSE DecodedEntry(isa, m, st, c),
     ex_mem |-> IF flush THEN ExecuteBubble ELSE ex,
     mem_wb |-> MemoryEntry(m, st.ex_mem)]

\* The flags are latched for the instruction in EX, flushed or not.
MachineAfter(isa, image, m, st, ex, flush, stall) ==
    [pc    |-> CASE flush -> NextPC(isa, st.ex_mem.c, st.ex_mem.pc, st.ex_mem.rs1_data,
                                    st.ex_mem.flags, st.ex_mem.alu_result)
                 [] ~flush /\ stall -> m.pc
                 [] OTHER -> FallThrough(Decoded(isa, image, m.pc), m.pc),
     regs  |-> RegistersAfter(isa, m.regs, st.mem_wb.c, WrittenBack(st)),
     mem   |-> MemoryAfter(m.mem, st.ex_mem.c, st.ex_mem.alu_result, st.ex_mem.rs2_data),
     flags |-> ex.flags]

NextStages(isa, image, m, st) ==
    StagesAfter(isa, m, st, InDecode(isa, image, st), ExecutedEntry(isa, m, st),
                Mispredict(isa, st.ex_mem), LoadUse(InDecode(isa, image, st), st))
NextMachine(isa, image, m, st) ==
    MachineAfter(isa, image, m, st, ExecutedEntry(isa, m, st), Mispredict(isa, st.ex_mem),
                 LoadUse(InDecode(isa, image, st), st))
=============================================================================
