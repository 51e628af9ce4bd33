-------------------------- MODULE PipelineEntries ---------------------------
(***************************************************************************)
(* What the stage registers of the pipelined machines hold                  *)
(* (src/sim/components/pipeline/registers.py and, once per lane,            *)
(* src/sim/components/superscalar/wide_pipeline_regs.py).  A bubble is not  *)
(* an instruction but drives its ports.                                     *)
(***************************************************************************)
EXTENDS Datapath

\* Control signals of a cleared register: every field 0.
NoControl == [rd |-> 0, rs1 |-> 0, rs2 |-> 0, imm |-> 0, alu_op |-> "ADD",
              alu_src |-> FALSE, use_pc |-> FALSE, mem_read |-> FALSE,
              mem_write |-> FALSE, reg_write |-> FALSE, branch |-> FALSE,
              branch_cond |-> "NEVER", jal |-> FALSE, jalr |-> FALSE, wb_sel |-> "ALU"]

FetchBubble   == [valid |-> FALSE, pc |-> 0, instr |-> Nop, predicted |-> FALSE]
DecodeBubble  == [valid |-> FALSE, pc |-> 0, c |-> NoControl, rs1_data |-> 0,
                  rs2_data |-> 0, predicted |-> FALSE]
ExecuteBubble == [valid |-> FALSE, pc |-> 0, c |-> NoControl, alu_result |-> 0,
                  rs1_data |-> 0, rs2_data |-> 0, predicted |-> FALSE]
MemoryBubble  == [valid |-> FALSE, pc |-> 0, c |-> NoControl, alu_result |-> 0,
                  mem_data |-> 0]
=============================================================================
