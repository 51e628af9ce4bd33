----------------------------- MODULE ARMCodeGen -----------------------------
(***************************************************************************)
(* The AArch64 backend (src/sim/compiler/codegen/arm.py): no shifts, no     *)
(* set-less-than, no stack pointer.  X9 is the accumulator, X28 the frame   *)
(* pointer, X30 the link; a move is an addition of XZR.                     *)
(***************************************************************************)
EXTENDS Emission

SLOT_SIZE      == 8
GLOBAL_LIMIT   == GLOBAL_REGION_TOP
SUPPORTS_CALLS == TRUE

FP == 28
ACC == 9
T1 == 10
T2 == 11
ZR == 31
X30 == 30
X0 == 0
X1 == 1
X2 == 2
X3 == 3
X4 == 4
X5 == 5
X6 == 6
X7 == 7

R(mn, rd, rn, rm)  == Line(mn, "", rd, rn, rm, 0, NoLabel)
I(mn, rd, rn, imm) == Line(mn, "imm", rd, rn, 0, imm, NoLabel)
MOVZ(rd, imm)      == I("MOVZ", rd, 0, imm)
MOV(rd, rn)        == R("ADD", rd, rn, ZR)
NEG(rd, rm)        == R("SUB", rd, ZR, rm)
CMP(rn, rm)        == R("CMP", 0, rn, rm)
LDR(rt, rn, off)   == I("LDR", rt, rn, off)
STR(rt, rn, off)   == I("STR", rt, rn, off)
RET                == R("RET", 0, X30, 0)
J(mn, rt, label)   == Line(mn, "", rt, 0, 0, 0, label)
BC(cond, label)    == Line("B.", cond, 0, 0, 0, 0, label)
At(name)           == LabelLine(<<name, 0>>)
To(name)           == <<name, 0>>

Slot(slot)         == slot * SLOT_SIZE
LoadT1(slot)       == LDR(T1, FP, Slot(slot))

\* emit_load_imm_reg: magnitude in one or two halves, then the sign.
LoadImm(rd, value) ==
    LET v    == IF value < 0 THEN -value ELSE value
        high == v \div 65536
    IN <<MOVZ(rd, v % 65536)>>
       \o (IF high = 0 THEN <<>> ELSE <<MOVZ(T2, high * 65536), R("ADD", rd, rd, T2)>>)
       \o (IF value < 0 THEN <<NEG(rd, rd)>> ELSE <<>>)

EmitProgramPrologue(st) ==
    Emit(st, LoadImm(FP, STACK_TOP) \o
             <<J("BL", 0, FuncLabel("main")), LabelLine(HaltLabel), J("B", 0, HaltLabel)>>)

EmitPrologue(st, ctx) ==
    LET fb == FrameSlots(st, ctx) * SLOT_SIZE
    IN Emit(IF STACK_TOP - fb < STACK_LIMIT THEN Fail(st) ELSE st,
            <<I("SUB", FP, FP, fb), STR(X30, FP, 8)>>)
EmitStoreParam(st, k, slot) == Emit(st, <<STR(X0 + k, FP, Slot(slot))>>)
EmitEpilogue(st, ctx) ==
    Emit(st, <<LDR(X30, FP, 8), I("ADD", FP, FP, FrameSlots(st, ctx) * SLOT_SIZE)>>)
EmitReturn(st) == Emit(st, <<RET>>)

EmitArgument(st, k, slot) == Emit(st, <<LDR(X0 + k, FP, Slot(slot))>>)
EmitCall(st, name)        == Emit(st, <<J("BL", 0, FuncLabel(name)), MOV(ACC, X0)>>)

EmitLoadConst(st, value)       == Emit(st, LoadImm(ACC, value))
EmitLoadSlot(st, slot)         == Emit(st, <<LDR(ACC, FP, Slot(slot))>>)
EmitStoreSlot(st, slot)        == Emit(st, <<STR(ACC, FP, Slot(slot))>>)
EmitLoadSlotAddress(st, slot)  == Emit(st, <<I("ADD", ACC, FP, Slot(slot))>>)
EmitLoadAtAcc(st)              == Emit(st, <<MOV(T1, ACC), LDR(ACC, T1, 0)>>)
EmitStoreAtSlotAddr(st, slot)  == Emit(st, <<LoadT1(slot), STR(ACC, T1, 0)>>)
EmitScaleIndexWord(st)         == Emit(st, [k \in 1..3 |-> R("ADD", ACC, ACC, ACC)])
EmitAddSlotToAcc(st, slot)     == Emit(st, <<LoadT1(slot), R("ADD", ACC, T1, ACC)>>)
EmitSubAccFromSlot(st, slot)   == Emit(st, <<LoadT1(slot), R("SUB", ACC, T1, ACC)>>)
EmitNegate(st)                 == Emit(st, <<NEG(ACC, ACC)>>)

\* Materialize 0, or 1 when the branch to the first label is taken.
ZeroOrOne(st, l, test) ==
    Emit(Numbered(st, l), test \o <<MOVZ(ACC, 0), J("B", 0, l[2]), LabelLine(l[1]), MOVZ(ACC, 1),
                                   LabelLine(l[2])>>)
EmitLogicalNot(st) ==
    LET l == NewLabels(st, <<"not0", "notend">>)
    IN ZeroOrOne(st, l, <<J("CBZ", ACC, l[1])>>)
ConditionName ==
    [op \in {"<", ">", "<=", ">=", "==", "!="} |->
        CASE op = "<"  -> "LT" [] op = ">"  -> "GT" [] op = "<=" -> "LE"
          [] op = ">=" -> "GE" [] op = "==" -> "EQ" [] op = "!=" -> "NE"]
EmitCompare(st, op, slot) ==
    LET l == NewLabels(st, <<"cmp_t", "cmp_e">>)
    IN ZeroOrOne(st, l, <<LoadT1(slot), MOV(T2, ACC), CMP(T1, T2), BC(ConditionName[op], l[1])>>)
EmitShift(st, op, slot) == Fail(st)
EmitBitwise(st, op, slot) ==
    Emit(st, <<LoadT1(slot),
               R(CASE op = "&" -> "AND" [] op = "|" -> "ORR" [] op = "^" -> "EOR", ACC, T1, ACC)>>)

EmitBranchIfFalse(st, label) == Emit(st, <<J("CBZ", ACC, label)>>)
EmitBranchIfTrue(st, label)  == Emit(st, <<J("CBNZ", ACC, label)>>)
EmitJump(st, label)          == Emit(st, <<J("B", 0, label)>>)
EmitMoveAccToReturn(st)      == Emit(st, <<MOV(X0, ACC)>>)
EmitZeroReturn(st)           == Emit(st, <<MOV(X0, ZR)>>)
EmitPrint(st)                == Emit(st, <<MOVZ(T1, PRINT_ADDR), STR(ACC, T1, 0)>>)

\* The left operand in X0, the right one in X1.
CallRuntime(st, name, slot, result) ==
    Emit([st EXCEPT !.need = @ \union {name}],
         <<LDR(X0, FP, Slot(slot)), MOV(X1, ACC), J("BL", 0, To(name)), MOV(ACC, result)>>)
EmitSoftMul(st, slot)            == CallRuntime(st, "__mul", slot, X0)
EmitSoftDiv(st, slot, remainder) == CallRuntime(st, "__divmod", slot, IF remainder THEN X1 ELSE X0)

-----------------------------------------------------------------------------
(* Runtime routines.                                                        *)

\* X2 collects |X1| copies of X0; X5 says the multiplier was negative.
MulRoutine ==
    <<At("__mul"), MOV(X2, ZR), MOV(X3, X0), MOV(X4, X1), MOVZ(X5, 0),
      CMP(X4, ZR), BC("GE", To("__mul_loop")), NEG(X4, X4), MOVZ(X5, 1),
      At("__mul_loop"), J("CBZ", X4, To("__mul_done")), R("ADD", X2, X2, X3),
      MOVZ(X6, 1), R("SUB", X4, X4, X6), J("B", 0, To("__mul_loop")),
      At("__mul_done"), MOV(X0, X2), J("CBZ", X5, To("__mul_ret")), NEG(X0, X0),
      At("__mul_ret"), RET>>

\* X2 = |dividend| is reduced by X3 = |divisor| while X4 counts; X6 and X7 are
\* the signs.
DivmodRoutine ==
    <<At("__divmod"), J("CBZ", X1, To("__dm_byzero")), MOVZ(X6, 0), MOVZ(X7, 0),
      CMP(X0, ZR), BC("GE", To("__dm_dd_pos")), MOVZ(X6, 1),
      At("__dm_dd_pos"), CMP(X1, ZR), BC("GE", To("__dm_dv_pos")), MOVZ(X7, 1),
      At("__dm_dv_pos"), MOV(X2, X0), J("CBZ", X6, To("__dm_abs_dd")), NEG(X2, X2),
      At("__dm_abs_dd"), MOV(X3, X1), J("CBZ", X7, To("__dm_abs_dv")), NEG(X3, X3),
      At("__dm_abs_dv"), MOV(X4, ZR),
      At("__dm_loop"), CMP(X2, X3), BC("LT", To("__dm_done")), R("SUB", X2, X2, X3),
      MOVZ(X5, 1), R("ADD", X4, X4, X5), J("B", 0, To("__dm_loop")),
      At("__dm_done"), MOV(X0, X4), MOV(X1, X2), R("EOR", X5, X6, X7),
      J("CBZ", X5, To("__dm_qpos")), NEG(X0, X0),
      At("__dm_qpos"), J("CBZ", X6, To("__dm_rpos")), NEG(X1, X1),
      At("__dm_rpos"), RET,
      At("__dm_byzero"), MOV(X0, ZR), MOV(X1, ZR), RET>>

EmitRuntime(st) ==
    Emit(st, (IF "__mul" \in st.need THEN MulRoutine ELSE <<>>)
             \o (IF "__divmod" \in st.need THEN DivmodRoutine ELSE <<>>))
Postprocess(lines) == lines

Base == INSTANCE CodeGen
Compile(program) == Base!Generate(program)
=============================================================================
