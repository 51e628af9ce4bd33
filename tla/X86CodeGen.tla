----------------------------- MODULE X86CodeGen -----------------------------
(***************************************************************************)
(* The IA-32 backend (src/sim/compiler/codegen/x86.py): one function, no    *)
(* calls, a frame at a fixed address, multiplication and division inline.   *)
(* EAX is the accumulator and the return value, EBP the frame pointer.      *)
(***************************************************************************)
EXTENDS Emission

SLOT_SIZE      == 4
X86_FRAME_BASE == 256
GLOBAL_LIMIT   == X86_FRAME_BASE
SUPPORTS_CALLS == FALSE
MAX_SLOT_DISP  == 124

EAX == 0
ECX == 1
EDX == 2
EBX == 3
EBP == 5
ESI == 6
EDI == 7

RR(mn, rd, rs2)  == Line(mn, "rr", rd, 0, rs2, 0, NoLabel)
RI(mn, rd, imm)  == Line(mn, "ri", rd, 0, 0, imm, NoLabel)
MOV(rd, rs2)     == RR("MOV", rd, rs2)
MOVI(rd, imm)    == RI("MOV", rd, imm)
LOAD(rd, base, off)    == Line("MOV", "load", rd, base, 0, off, NoLabel)
STORE(base, off, rs2)  == Line("MOV", "store", 0, base, rs2, off, NoLabel)
J(mn, label)     == Line(mn, "", 0, 0, 0, 0, label)
NOP              == J("NOP", NoLabel)

\* _slot_off raises outside the window of an 8-bit displacement.
Slot(slot)           == slot * SLOT_SIZE
\* Mutant: the displacement is taken for unsigned.
InWindowUnsigned(st, slot) == IF Slot(slot) > 255 THEN Fail(st) ELSE st
InWindow(st, slot)   == IF Slot(slot) > MAX_SLOT_DISP THEN Fail(st) ELSE st
LoadReg(rd, slot)    == LOAD(rd, EBP, Slot(slot))
EmitUsing(st, slot, lines) == Emit(InWindow(st, slot), lines)

EmitProgramPrologue(st)     == Emit(st, <<MOVI(EBP, X86_FRAME_BASE)>>)
EmitRuntime(st)             == Emit(st, <<LabelLine(HaltLabel), J("JMP", HaltLabel)>>)
EmitPrologue(st, ctx)       == InWindow(st, FrameSlots(st, ctx) - 1)
EmitStoreParam(st, k, slot) == Fail(st)
EmitEpilogue(st, ctx)       == st
EmitReturn(st)              == Emit(st, <<J("JMP", HaltLabel)>>)
EmitArgument(st, k, slot)   == Fail(st)
EmitCall(st, name)          == Fail(st)

EmitLoadConst(st, value)   == Emit(st, <<MOVI(EAX, value)>>)
EmitLoadSlot(st, slot)     == EmitUsing(st, slot, <<LoadReg(EAX, slot)>>)
EmitStoreSlot(st, slot)    == EmitUsing(st, slot, <<STORE(EBP, Slot(slot), EAX)>>)
EmitLoadSlotAddress(st, slot) ==
    EmitUsing(st, slot, <<MOV(EAX, EBP)>> \o
                        IF slot = 0 THEN <<>> ELSE <<RI("ADD", EAX, Slot(slot))>>)
EmitLoadAtAcc(st)          == Emit(st, <<MOV(ECX, EAX), LOAD(EAX, ECX, 0)>>)
EmitStoreAtSlotAddr(st, slot) ==
    EmitUsing(st, slot, <<LoadReg(ECX, slot), STORE(ECX, 0, EAX)>>)
EmitScaleIndexWord(st)     == Emit(st, <<RR("ADD", EAX, EAX), RR("ADD", EAX, EAX)>>)
EmitAddSlotToAcc(st, slot) == EmitUsing(st, slot, <<LoadReg(ECX, slot), RR("ADD", EAX, ECX)>>)
EmitSubAccFromSlot(st, slot) ==
    EmitUsing(st, slot, <<LoadReg(ECX, slot), RR("SUB", ECX, EAX), MOV(EAX, ECX)>>)
EmitNegate(st)             == Emit(st, <<MOVI(ECX, 0), RR("SUB", ECX, EAX), MOV(EAX, ECX)>>)

\* Materialize 0, or 1 when the branch to the first label is taken.
ZeroOrOne(st, l, test) ==
    Emit(Numbered(st, l), test \o <<MOVI(EAX, 0), J("JMP", l[2]), LabelLine(l[1]), MOVI(EAX, 1),
                                   LabelLine(l[2])>>)
EmitLogicalNot(st) ==
    LET l == NewLabels(st, <<"not_t", "not_e">>)
    IN ZeroOrOne(st, l, <<RI("CMP", EAX, 0), J("JE", l[1])>>)
Jcc == [op \in {"<", ">", "<=", ">=", "==", "!="} |->
           CASE op = "<"  -> "JL"  [] op = ">"  -> "JG" [] op = "<=" -> "JLE"
             [] op = ">=" -> "JGE" [] op = "==" -> "JE" [] op = "!=" -> "JNE"]
EmitCompare(st, op, slot) ==
    LET l == NewLabels(st, <<"cmp_t", "cmp_e">>)
    IN ZeroOrOne(InWindow(st, slot), l,
                 <<LoadReg(ECX, slot), MOV(EDX, EAX), RR("CMP", ECX, EDX), J(Jcc[op], l[1])>>)
EmitShift(st, op, slot) == Fail(st)
EmitBitwise(st, op, slot) ==
    EmitUsing(st, slot,
        <<LoadReg(ECX, slot),
          RR(CASE op = "&" -> "AND" [] op = "|" -> "OR" [] op = "^" -> "XOR", ECX, EAX),
          MOV(EAX, ECX)>>)

EmitBranchIfFalse(st, label) == Emit(st, <<RI("CMP", EAX, 0), J("JE", label)>>)
EmitBranchIfTrue(st, label)  == Emit(st, <<RI("CMP", EAX, 0), J("JNE", label)>>)
EmitJump(st, label)          == Emit(st, <<J("JMP", label)>>)
EmitMoveAccToReturn(st)      == st
EmitZeroReturn(st)           == Emit(st, <<MOVI(EAX, 0)>>)
EmitPrint(st)                == Emit(st, <<MOVI(ECX, PRINT_ADDR), STORE(ECX, 0, EAX)>>)

-----------------------------------------------------------------------------
(* Inline multiplication and division.                                      *)

\* rd becomes 0 - rs, by way of a scratch register.
NegateInto(rd, rs, scratch) == <<MOVI(scratch, 0), RR("SUB", scratch, rs), MOV(rd, scratch)>>

\* EBX collects |EDI| copies of ESI; ECX says the multiplier was negative.
EmitSoftMul(st, slot) ==
    LET bases == <<"mul_loop", "mul_done", "mul_pos", "mul_ret">>
        l     == NewLabels(st, bases)
    IN EmitUsing(Numbered(st, bases), slot,
        <<LoadReg(ESI, slot), MOV(EDI, EAX), MOVI(EBX, 0), MOVI(ECX, 0),
          RI("CMP", EDI, 0), J("JGE", l[1])>> \o NegateInto(EDI, EDI, EDX) \o <<MOVI(ECX, 1),
          LabelLine(l[1]), RI("CMP", EDI, 0), J("JE", l[2]), RR("ADD", EBX, ESI),
          RI("SUB", EDI, 1), J("JMP", l[1]),
          LabelLine(l[2]), MOV(EAX, EBX), RI("CMP", ECX, 0), J("JE", l[4])>>
        \o NegateInto(EAX, EAX, EDX) \o <<LabelLine(l[4]), LabelLine(l[3])>>)

\* ESI = |dividend| is reduced by EDI = |divisor| while ECX counts; EBX is the
\* sign of the dividend, EDX that of the quotient.
EmitSoftDiv(st, slot, remainder) ==
    LET bases  == <<"div_loop", "div_done", "div_bz", "div_end", "div_ddp", "div_dvp",
                    "div_absdd", "div_absdv", "div_qpos", "div_rpos">>
        l      == NewLabels(st, bases)
        result == IF remainder THEN ESI ELSE ECX
        sign   == IF remainder THEN EBX ELSE EDX
        fixed  == IF remainder THEN l[10] ELSE l[9]
    IN EmitUsing(Numbered(st, bases), slot,
        <<LoadReg(ESI, slot), MOV(EDI, EAX), RI("CMP", EDI, 0), J("JE", l[3]),
          MOVI(EBX, 0), RI("CMP", ESI, 0), J("JGE", l[5]), MOVI(EBX, 1), LabelLine(l[5]),
          MOVI(EAX, 0), RI("CMP", EDI, 0), J("JGE", l[6]), MOVI(EAX, 1), LabelLine(l[6]),
          MOV(EDX, EBX), RR("XOR", EDX, EAX), RI("CMP", EBX, 0), J("JE", l[7])>>
        \o NegateInto(ESI, ESI, EAX) \o <<LabelLine(l[7]),
          MOV(EAX, EDI), RI("CMP", EAX, 0), J("JGE", l[8])>>
        \o NegateInto(EDI, EDI, EAX) \o <<LabelLine(l[8]), MOVI(ECX, 0),
          LabelLine(l[1]), RR("CMP", ESI, EDI), J("JL", l[2]), RR("SUB", ESI, EDI),
          RI("ADD", ECX, 1), J("JMP", l[1]),
          LabelLine(l[2]), MOV(EAX, result), RI("CMP", sign, 0), J("JE", fixed)>>
        \o NegateInto(EAX, EAX, EDX) \o <<LabelLine(fixed), J("JMP", l[4]),
          LabelLine(l[3]), MOVI(EAX, 0), LabelLine(l[4])>>)

-----------------------------------------------------------------------------
(* The load-use peephole.                                                   *)

IsLoad(i) == i.mn = "MOV" /\ i.form = "load"

\* Mutant: the base of a memory operand is overlooked.
ReadsDirectly(i, r) ==
    \/ i.form \in {"rr", "store"} /\ i.rs2 = r
    \/ i.form \in {"rr", "ri"} /\ i.mn # "MOV" /\ i.rd = r

\* _reads_reg: a memory operand reads its base; the destination of a MOV is
\* not read, that of an ALU operation is.
ReadsReg(i, r) ==
    \/ i.form \in {"load", "store"} /\ i.rs1 = r
    \/ i.form \in {"rr", "store"} /\ i.rs2 = r
    \/ i.form \in {"rr", "ri"} /\ i.mn # "MOV" /\ i.rd = r

\* A NOP behind each load whose next instruction reads the loaded register.
Postprocess(lines) ==
    LET next(k)  == SelectInSubSeq(lines, k + 1, Len(lines), LAMBDA i : ~IsLabel(i))
        hazard(k) == IsLoad(lines[k]) /\ next(k) # 0 /\ ReadsReg(lines[next(k)], lines[k].rd)
    IN Joined([k \in DOMAIN lines |-> IF hazard(k) THEN <<lines[k], NOP>> ELSE <<lines[k]>>])

Base == INSTANCE CodeGen
Compile(program) == Base!Generate(program)
=============================================================================
