---------------------------- MODULE RISCVCodeGen ----------------------------
(***************************************************************************)
(* The RISC-V backend (src/sim/compiler/codegen/riscv.py).  t0 is the       *)
(* accumulator, sp the frame pointer, ra the link.  WORD_BITS is the number *)
(* of iterations of the division routine, 32 in the code.                   *)
(***************************************************************************)
EXTENDS Emission

CONSTANT WORD_BITS

SLOT_SIZE      == 4
GLOBAL_LIMIT   == GLOBAL_REGION_TOP
SUPPORTS_CALLS == TRUE

x0 == 0
ra == 1
sp == 2
t0 == 5
t1 == 6
t2 == 7
t3 == 28
t4 == 29
t5 == 30
t6 == 31
a0 == 10
a1 == 11
a2 == 12

R(mn, rd, rs1, rs2)     == Line(mn, "", rd, rs1, rs2, 0, NoLabel)
I(mn, rd, rs1, imm)     == Line(mn, "", rd, rs1, 0, imm, NoLabel)
LW(rd, off, rs1)        == I("LW", rd, rs1, off)
SW(rs2, off, rs1)       == Line("SW", "", 0, rs1, rs2, off, NoLabel)
B(mn, rs1, rs2, label)  == Line(mn, "", 0, rs1, rs2, 0, label)
JAL(rd, label)          == Line("JAL", "", rd, 0, 0, 0, label)
MV(rd, rs1)             == I("ADDI", rd, rs1, 0)
RET                     == I("JALR", x0, ra, 0)
At(name)                == LabelLine(<<name, 0>>)
To(name)                == <<name, 0>>

Slot(slot) == slot * SLOT_SIZE
LoadT1(slot) == LW(t1, Slot(slot), sp)

\* emit_load_imm_reg: LUI rounds up when ADDI will subtract.
LoadImm(rd, value) ==
    LET low   == value % 4096
        carry == low >= 2048
        upper == (value \div 4096 + IF carry THEN 1 ELSE 0) % 1048576
        rest  == IF carry THEN low - 4096 ELSE low
    IN IF FitsSigned(value, 12) THEN <<I("ADDI", rd, x0, value)>>
       ELSE <<I("LUI", rd, 0, upper)>> \o IF rest = 0 THEN <<>> ELSE <<I("ADDI", rd, rd, rest)>>

EmitProgramPrologue(st) ==
    Emit(st, LoadImm(sp, STACK_TOP) \o
             <<JAL(ra, FuncLabel("main")), LabelLine(HaltLabel), JAL(x0, HaltLabel)>>)

EmitPrologue(st, ctx) ==
    LET fb == FrameSlots(st, ctx) * SLOT_SIZE
    IN Emit(IF STACK_TOP - fb < STACK_LIMIT THEN Fail(st) ELSE st,
            <<I("ADDI", sp, sp, -fb), SW(ra, 4, sp)>>)
EmitStoreParam(st, k, slot) == Emit(st, <<SW(a0 + k, Slot(slot), sp)>>)
\* Mutant: the frame is freed before ra is reloaded from it.
EmitEpilogueSwapped(st, ctx) ==
    Emit(st, <<I("ADDI", sp, sp, FrameSlots(st, ctx) * SLOT_SIZE), LW(ra, 4, sp)>>)
EmitEpilogue(st, ctx) ==
    Emit(st, <<LW(ra, 4, sp), I("ADDI", sp, sp, FrameSlots(st, ctx) * SLOT_SIZE)>>)
EmitReturn(st) == Emit(st, <<RET>>)

EmitArgument(st, k, slot) == Emit(st, <<LW(a0 + k, Slot(slot), sp)>>)
EmitCall(st, name)        == Emit(st, <<JAL(ra, FuncLabel(name)), MV(t0, a0)>>)

EmitLoadConst(st, value)       == Emit(st, LoadImm(t0, value))
EmitLoadSlot(st, slot)         == Emit(st, <<LW(t0, Slot(slot), sp)>>)
EmitStoreSlot(st, slot)        == Emit(st, <<SW(t0, Slot(slot), sp)>>)
EmitLoadSlotAddress(st, slot)  == Emit(st, <<I("ADDI", t0, sp, Slot(slot))>>)
EmitLoadAtAcc(st)              == Emit(st, <<LW(t0, 0, t0)>>)
EmitStoreAtSlotAddr(st, slot)  == Emit(st, <<LoadT1(slot), SW(t0, 0, t1)>>)
EmitScaleIndexWord(st)         == Emit(st, <<I("SLLI", t0, t0, 2)>>)
EmitAddSlotToAcc(st, slot)     == Emit(st, <<LoadT1(slot), R("ADD", t0, t1, t0)>>)
EmitSubAccFromSlot(st, slot)   == Emit(st, <<LoadT1(slot), R("SUB", t0, t1, t0)>>)
EmitNegate(st)                 == Emit(st, <<R("SUB", t0, x0, t0)>>)
EmitLogicalNot(st)             == Emit(st, <<I("SLTIU", t0, t0, 1)>>)

\* Left in t1, right in t2; <=, >= and == complement a 0/1 value.
EmitCompare(st, op, slot) ==
    Emit(st, <<LoadT1(slot), MV(t2, t0)>> \o
        CASE op = "<"  -> <<R("SLT", t0, t1, t2)>>
          [] op = ">"  -> <<R("SLT", t0, t2, t1)>>
          [] op = "<=" -> <<R("SLT", t0, t2, t1), I("SLTIU", t0, t0, 1)>>
          [] op = ">=" -> <<R("SLT", t0, t1, t2), I("SLTIU", t0, t0, 1)>>
          [] op = "==" -> <<R("SUB", t0, t1, t2), I("SLTIU", t0, t0, 1)>>
          [] op = "!=" -> <<R("SUB", t0, t1, t2), R("SLTU", t0, x0, t0)>>)
EmitShift(st, op, slot) ==
    Emit(st, <<LoadT1(slot), MV(t2, t0), R(IF op = "<<" THEN "SLL" ELSE "SRA", t0, t1, t2)>>)
EmitBitwise(st, op, slot) ==
    Emit(st, <<LoadT1(slot),
               R(CASE op = "&" -> "AND" [] op = "|" -> "OR" [] op = "^" -> "XOR", t0, t1, t0)>>)

EmitBranchIfFalse(st, label) == Emit(st, <<B("BEQ", t0, x0, label)>>)
EmitBranchIfTrue(st, label)  == Emit(st, <<B("BNE", t0, x0, label)>>)
EmitJump(st, label)          == Emit(st, <<JAL(x0, label)>>)
EmitMoveAccToReturn(st)      == Emit(st, <<MV(a0, t0)>>)
EmitZeroReturn(st)           == Emit(st, <<MV(a0, x0)>>)
EmitPrint(st)                == Emit(st, <<SW(t0, PRINT_ADDR, x0)>>)

\* The left operand in a0, the right one in a1.
CallRuntime(st, name, slot, result) ==
    Emit([st EXCEPT !.need = @ \union {name}],
         <<LW(a0, Slot(slot), sp), MV(a1, t0), JAL(ra, To(name)), MV(t0, result)>>)
EmitSoftMul(st, slot)            == CallRuntime(st, "__mul", slot, a0)
EmitSoftDiv(st, slot, remainder) == CallRuntime(st, "__divmod", slot, IF remainder THEN a1 ELSE a0)

-----------------------------------------------------------------------------
(* Runtime routines.                                                        *)

\* Shift and add: t1 product, t2 multiplicand, t3 multiplier.
MulRoutine ==
    <<At("__mul"), MV(t1, x0), MV(t2, a0), MV(t3, a1),
      At("__mul_loop"), B("BEQ", t3, x0, To("__mul_done")),
      I("ANDI", t4, t3, 1), B("BEQ", t4, x0, To("__mul_skip")), R("ADD", t1, t1, t2),
      At("__mul_skip"), I("SLLI", t2, t2, 1), I("SRLI", t3, t3, 1), JAL(x0, To("__mul_loop")),
      At("__mul_done"), MV(a0, t1), RET>>

\* Long division of absolute values, then signs: t5 quotient's, t6 remainder's.
DivmodRoutine ==
    <<At("__divmod"), B("BEQ", a1, x0, To("__dm_byzero")),
      R("SLT", t6, a0, x0), R("SLT", t5, a1, x0), R("XOR", t5, t5, t6),
      MV(t1, a0), B("BEQ", t6, x0, To("__dm_absdd")), R("SUB", t1, x0, t1),
      At("__dm_absdd"), MV(t2, a1), B("BGE", a1, x0, To("__dm_absdv")), R("SUB", t2, x0, t2),
      At("__dm_absdv"), MV(t3, x0), MV(t4, x0), I("ADDI", t0, x0, WORD_BITS),
      At("__dm_loop"), B("BEQ", t0, x0, To("__dm_fixsign")), I("ADDI", t0, t0, -1),
      I("SLLI", t4, t4, 1), R("SRL", a2, t1, t0), I("ANDI", a2, a2, 1), R("OR", t4, t4, a2),
      I("SLLI", t3, t3, 1), R("SLTU", a2, t4, t2), B("BNE", a2, x0, To("__dm_loop")),
      R("SUB", t4, t4, t2), I("ORI", t3, t3, 1), JAL(x0, To("__dm_loop")),
      At("__dm_fixsign"), MV(a0, t3), MV(a1, t4),
      B("BEQ", t5, x0, To("__dm_qpos")), R("SUB", a0, x0, a0),
      At("__dm_qpos"), B("BEQ", t6, x0, To("__dm_rpos")), R("SUB", a1, x0, a1),
      At("__dm_rpos"), RET,
      At("__dm_byzero"), MV(a0, x0), RET>>

EmitRuntime(st) ==
    Emit(st, (IF "__mul" \in st.need THEN MulRoutine ELSE <<>>)
             \o (IF "__divmod" \in st.need THEN DivmodRoutine ELSE <<>>))
Postprocess(lines) == lines

Base == INSTANCE CodeGen
Compile(program) == Base!Generate(program)
=============================================================================
