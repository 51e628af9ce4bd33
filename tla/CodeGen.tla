------------------------------ MODULE CodeGen -------------------------------
(***************************************************************************)
(* The ISA-independent code generator (src/sim/compiler/codegen/base.py):   *)
(* frames, the walk over the syntax tree, control flow.  The constant       *)
(* operators are the emit_ primitives a backend supplies; each takes the    *)
(* emission state and returns the next one.                                 *)
(***************************************************************************)
EXTENDS Emission

CONSTANTS SLOT_SIZE, GLOBAL_LIMIT, SUPPORTS_CALLS,
          EmitProgramPrologue(_), EmitRuntime(_), Postprocess(_),
          EmitPrologue(_, _), EmitStoreParam(_, _, _), EmitEpilogue(_, _), EmitReturn(_),
          EmitArgument(_, _, _), EmitCall(_, _),
          EmitLoadConst(_, _), EmitLoadSlot(_, _), EmitStoreSlot(_, _),
          EmitLoadSlotAddress(_, _), EmitLoadAtAcc(_), EmitStoreAtSlotAddr(_, _),
          EmitScaleIndexWord(_), EmitAddSlotToAcc(_, _), EmitSubAccFromSlot(_, _),
          EmitNegate(_), EmitLogicalNot(_), EmitCompare(_, _, _), EmitShift(_, _, _),
          EmitBitwise(_, _, _), EmitBranchIfFalse(_, _), EmitBranchIfTrue(_, _),
          EmitJump(_, _), EmitMoveAccToReturn(_), EmitZeroReturn(_), EmitPrint(_),
          EmitSoftMul(_, _), EmitSoftDiv(_, _, _)

MAX_ARGS == 8

-----------------------------------------------------------------------------
(* Names.                                                                   *)

\* _layout_globals: consecutive slots from address 0.
NoGlobals == [scalars |-> <<>>, arrays |-> <<>>, size |-> 0, redeclared |-> FALSE]
LayoutGlobal(layout, g) ==
    [layout EXCEPT ![IF g.is_array THEN "arrays" ELSE "scalars"] = (g.name :> layout.size) @@ @,
                   !.size = @ + SLOT_SIZE * (IF g.is_array THEN g.size ELSE 1),
                   !.redeclared = @ \/ g.name \in DOMAIN layout.scalars
                                                 \union DOMAIN layout.arrays]
LayoutGlobals(globals) == FoldLeft(LayoutGlobal, NoGlobals, globals)

\* _iter_decls: every declaration of a function, in the order of _children.
RECURSIVE Decls(_)
Decls(n) ==
    CASE n.node = "VarDecl" -> <<n>>
      [] n.node = "Block"   -> FlattenSeq([k \in DOMAIN n.statements |-> Decls(n.statements[k])])
      [] n.node = "If"      -> Decls(n.then_body) \o Decls(n.else_body)
      [] n.node = "While"   -> Decls(n.body)
      [] n.node = "For"     -> Decls(n.body) \o Decls(n.init)
      [] OTHER              -> <<>>

\* _prescan_decls: a second scalar of a name shares the slot of the first, a
\* second declaration by an array is an error.
Declared(ctx, name) == name \in DOMAIN ctx.vars \union DOMAIN ctx.arrays
Prescan(ctx, d) ==
    CASE d.is_array          -> [ctx EXCEPT !.arrays = (d.name :> ctx.next_slot) @@ @,
                                            !.next_slot = @ + d.size,
                                            !.redeclared = @ \/ Declared(ctx, d.name)]
      [] Declared(ctx, d.name) -> ctx
      [] OTHER               -> [ctx EXCEPT !.vars = (d.name :> ctx.next_slot) @@ @,
                                            !.next_slot = @ + 1]

\* Slots 0 and 1 hold the saved frame pointer and return address.
Context(fn, funcs, globals) ==
    LET params == [k \in 1..Len(fn.params) |-> VarDecl(fn.params[k], None)]
    IN FoldLeft(Prescan, [vars |-> <<>>, arrays |-> <<>>, next_slot |-> 2, redeclared |-> FALSE,
                          funcs |-> funcs, globals |-> globals],
                params \o Decls(fn.body))

-----------------------------------------------------------------------------
(* Expressions: the value ends in the accumulator.                          *)

RECURSIVE GenExpr(_, _, _)

GenLoadVar(name, ctx, st) ==
    CASE name \in DOMAIN ctx.vars            -> EmitLoadSlot(st, ctx.vars[name])
      [] name \in DOMAIN ctx.arrays          -> EmitLoadSlotAddress(st, ctx.arrays[name])
      [] name \in DOMAIN ctx.globals.scalars ->
            EmitLoadAtAcc(EmitLoadConst(st, ctx.globals.scalars[name]))
      [] name \in DOMAIN ctx.globals.arrays  -> EmitLoadConst(st, ctx.globals.arrays[name])
      [] OTHER                               -> Fail(st)

GenElementAddress(e, ctx, st) ==
    LET tmp  == TempSlot(ctx, st)
        base == EmitStoreSlot(GenExpr(e.array, ctx, PushTemp(st)), tmp)
    IN PopTemp(EmitAddSlotToAcc(EmitScaleIndexWord(GenExpr(e.index, ctx, base)), tmp))

GenAddressOf(operand, ctx, st) ==
    LET name == operand.name
    IN CASE operand.node = "Index"                -> GenElementAddress(operand, ctx, st)
         [] operand.node # "Var"                  -> Fail(st)
         [] name \in DOMAIN ctx.vars              -> EmitLoadSlotAddress(st, ctx.vars[name])
         [] name \in DOMAIN ctx.globals.scalars /\ name \notin DOMAIN ctx.arrays ->
               EmitLoadConst(st, ctx.globals.scalars[name])
         [] OTHER                                 -> GenLoadVar(name, ctx, st)

\* Store the value behind an address that `addressed` left in the accumulator.
StoreThrough(addressed, tmp, value, ctx) ==
    PopTemp(EmitStoreAtSlotAddr(GenExpr(value, ctx, EmitStoreSlot(addressed, tmp)), tmp))

GenAssign(e, ctx, st) ==
    LET target == e.target
        tmp    == TempSlot(ctx, st)
    IN CASE target.node = "Var" /\ target.name \in DOMAIN ctx.vars ->
               EmitStoreSlot(GenExpr(e.value, ctx, st), ctx.vars[target.name])
         [] target.node = "Var" /\ target.name \in DOMAIN ctx.globals.scalars ->
               StoreThrough(EmitLoadConst(PushTemp(st), ctx.globals.scalars[target.name]),
                            tmp, e.value, ctx)
         [] target.node = "Index" ->
               StoreThrough(GenElementAddress(target, ctx, PushTemp(st)), tmp, e.value, ctx)
         [] target.node = "Unary" /\ target.op = "*" ->
               StoreThrough(GenExpr(target.operand, ctx, PushTemp(st)), tmp, e.value, ctx)
         [] OTHER -> Fail(st)

GenUnary(e, ctx, st) ==
    CASE e.op = "-" -> EmitNegate(GenExpr(e.operand, ctx, st))
      [] e.op = "!" -> EmitLogicalNot(GenExpr(e.operand, ctx, st))
      [] e.op = "*" -> EmitLoadAtAcc(GenExpr(e.operand, ctx, st))
      [] e.op = "&" -> GenAddressOf(e.operand, ctx, st)
      [] OTHER      -> Fail(st)

EmitBinaryOp(op, left, st) ==
    CASE op = "+"               -> EmitAddSlotToAcc(st, left)
      [] op = "-"               -> EmitSubAccFromSlot(st, left)
      [] op = "*"               -> EmitSoftMul(st, left)
      [] op = "/"               -> EmitSoftDiv(st, left, FALSE)
      [] op = "%"               -> EmitSoftDiv(st, left, TRUE)
      [] op \in {"<<", ">>"}    -> EmitShift(st, op, left)
      [] op \in {"&", "|", "^"} -> EmitBitwise(st, op, left)
      [] OTHER                  -> EmitCompare(st, op, left)

\* && and ||: the second operand is skipped when the first one decides.
GenLogical(e, ctx, st) ==
    LET and == e.op = "&&"
        l   == NewLabels(st, IF and THEN <<"and_false", "and_end">> ELSE <<"or_true", "or_end">>)
        BranchOut(s) == IF and THEN EmitBranchIfFalse(s, l[1]) ELSE EmitBranchIfTrue(s, l[1])
        first == BranchOut(GenExpr(e.left, ctx, Numbered(st, l)))
        both  == BranchOut(GenExpr(e.right, ctx, first))
        value == EmitJump(EmitLoadConst(both, IF and THEN 1 ELSE 0), l[2])
    IN EmitLabel(EmitLoadConst(EmitLabel(value, l[1]), IF and THEN 0 ELSE 1), l[2])

GenBinary(e, ctx, st) ==
    LET tmp  == TempSlot(ctx, st)
        left == EmitStoreSlot(GenExpr(e.left, ctx, PushTemp(st)), tmp)
    IN IF e.op \in {"&&", "||"} THEN GenLogical(e, ctx, st)
       ELSE PopTemp(EmitBinaryOp(e.op, tmp, GenExpr(e.right, ctx, left)))

\* Both arms of a choice, each ending at `end`.
GenTernary(e, ctx, st) ==
    LET l    == NewLabels(st, <<"tern_else", "tern_end">>)
        cond == EmitBranchIfFalse(GenExpr(e.cond, ctx, Numbered(st, l)), l[1])
        then == EmitJump(GenExpr(e.then_expr, ctx, cond), l[2])
    IN EmitLabel(GenExpr(e.else_expr, ctx, EmitLabel(then, l[1])), l[2])

GenIncDec(e, ctx, st) ==
    LET update == Assign(e.target, Binary(e.op, e.target, Number(1)))
        tmp    == TempSlot(ctx, st)
        old    == EmitStoreSlot(PushTemp(GenExpr(e.target, ctx, st)), tmp)
    IN IF e.prefix THEN GenAssign(update, ctx, st)
       ELSE PopTemp(EmitLoadSlot(GenAssign(update, ctx, old), tmp))

\* Every argument is spilled before the first is loaded into its register.
Spill(ctx, st) == PushTemp(EmitStoreSlot(st, TempSlot(ctx, st)))
SpillArguments(args, ctx, st) ==
    Sequentially(st, args, LAMBDA s, arg : Spill(ctx, GenExpr(arg, ctx, s)))
LoadArguments(args, first, st) ==
    Sequentially(st, Indices(args), LAMBDA s, k : EmitArgument(s, k - 1, first + k - 1))

GenCall(e, ctx, st) ==
    LET n == Len(e.args)
    IN CASE e.name = "print" /\ e.name \notin DOMAIN ctx.funcs ->
               IF n = 1 THEN EmitPrint(GenExpr(e.args[1], ctx, st)) ELSE Fail(st)
         [] e.name \notin DOMAIN ctx.funcs \/ ~SUPPORTS_CALLS -> Fail(st)
         [] n # Len(ctx.funcs[e.name].params) \/ n > MAX_ARGS  -> Fail(st)
         [] OTHER -> EmitCall(PopTemps(LoadArguments(e.args, TempSlot(ctx, st),
                                                     SpillArguments(e.args, ctx, st)), n), e.name)

GenExpr(e, ctx, st) ==
    CASE st.failed           -> st
      [] e.node = "Number"  -> EmitLoadConst(st, e.value)
      [] e.node = "Var"     -> GenLoadVar(e.name, ctx, st)
      [] e.node = "Index"   -> EmitLoadAtAcc(GenElementAddress(e, ctx, st))
      [] e.node = "Assign"  -> GenAssign(e, ctx, st)
      [] e.node = "Unary"   -> GenUnary(e, ctx, st)
      [] e.node = "Binary"  -> GenBinary(e, ctx, st)
      [] e.node = "Call"    -> GenCall(e, ctx, st)
      [] e.node = "Ternary" -> GenTernary(e, ctx, st)
      [] e.node = "IncDec"  -> GenIncDec(e, ctx, st)

-----------------------------------------------------------------------------
(* Statements.                                                              *)

RECURSIVE GenStmt(_, _, _)

GenBlock(block, ctx, st) ==
    Sequentially(st, block.statements, LAMBDA s, stmt : GenStmt(stmt, ctx, s))

\* A list shorter than the array is completed with zeros.
GenArrayInit(d, ctx, st) ==
    LET element(k) == IF k <= Len(d.init_list) THEN d.init_list[k] ELSE Number(0)
    IN IF d.init_list = <<>> THEN st
       ELSE Sequentially(st, [k \in 1..d.size |-> k],
                LAMBDA s, k : GenAssign(Assign(Index(Var(d.name), Number(k - 1)), element(k)), ctx, s))

GenVarDecl(d, ctx, st) ==
    CASE d.is_array    -> GenArrayInit(d, ctx, st)
      [] d.init = None -> st
      [] OTHER         -> EmitStoreSlot(GenExpr(d.init, ctx, st), ctx.vars[d.name])

GenReturn(value, ctx, st) ==
    EmitReturn(EmitEpilogue(IF value = None THEN EmitZeroReturn(st)
                                            ELSE EmitMoveAccToReturn(GenExpr(value, ctx, st)),
                            ctx))

\* l: the labels of the else branch and of the end.
GenThen(s, l, ctx, st) ==
    GenBlock(s.then_body, ctx, EmitBranchIfFalse(GenExpr(s.cond, ctx, st),
                                                 IF s.else_body # None THEN l[1] ELSE l[2]))
GenElse(s, l, ctx, st) ==
    IF s.else_body = None THEN st
    ELSE GenBlock(s.else_body, ctx, EmitLabel(EmitJump(st, l[2]), l[1]))
GenIf(s, ctx, st) ==
    LET l == NewLabels(st, <<"else", "endif">>)
    IN EmitLabel(GenElse(s, l, ctx, GenThen(s, l, ctx, Numbered(st, l))), l[2])

\* Loops: a test that may be absent, and a body where `continue` and `break`
\* name the labels of this loop.
LoopTest(cond, out, ctx, st) ==
    IF cond = None THEN st ELSE EmitBranchIfFalse(GenExpr(cond, ctx, st), out)
WithLoops(st, loops) == [st EXCEPT !.loops = loops]
GenLoopBody(body, ctx, st, continue, break) ==
    WithLoops(GenBlock(body, ctx, WithLoops(st, Append(st.loops, <<continue, break>>))), st.loops)

GenWhile(s, ctx, st) ==
    LET l == NewLabels(st, <<"while", "endwhile">>)
        test == LoopTest(s.cond, l[2], ctx, EmitLabel(Numbered(st, l), l[1]))
    IN EmitLabel(EmitJump(GenLoopBody(s.body, ctx, test, l[1], l[2]), l[1]), l[2])

GenForInit(s, ctx, st) == IF s.init = None THEN st ELSE GenStmt(s.init, ctx, st)
GenForStep(s, ctx, st) == IF s.step = None THEN st ELSE GenExpr(s.step, ctx, st)
GenFor(s, ctx, st) ==
    LET l    == NewLabels(st, <<"for", "forstep", "endfor">>)
        test == LoopTest(s.cond, l[3], ctx, EmitLabel(GenForInit(s, ctx, Numbered(st, l)), l[1]))
        body == EmitLabel(GenLoopBody(s.body, ctx, test, l[2], l[3]), l[2])
    IN EmitLabel(EmitJump(GenForStep(s, ctx, body), l[1]), l[3])

GenStmt(s, ctx, st) ==
    CASE st.failed            -> st
      [] s.node = "VarDecl"  -> GenVarDecl(s, ctx, st)
      [] s.node = "ExprStmt" -> GenExpr(s.expr, ctx, st)
      [] s.node = "Block"    -> GenBlock(s, ctx, st)
      [] s.node = "Return"   -> GenReturn(s.value, ctx, st)
      [] s.node = "If"       -> GenIf(s, ctx, st)
      [] s.node = "While"    -> GenWhile(s, ctx, st)
      [] s.node = "For"      -> GenFor(s, ctx, st)
      [] s.node \in {"Break", "Continue"} ->
            IF st.loops = <<>> THEN Fail(st)
            ELSE EmitJump(st, st.loops[Len(st.loops)][IF s.node = "Continue" THEN 1 ELSE 2])

-----------------------------------------------------------------------------
(* Functions and the program.                                               *)

\* At the top of main; only explicit initializers are stored.
EmitGlobalInits(globals, ctx, st) ==
    LET stores(g) ==
          IF g.is_array
          THEN [k \in DOMAIN g.init_list |->
                   Assign(Index(Var(g.name), Number(k - 1)), g.init_list[k])]
          ELSE IF g.init = None THEN <<>> ELSE <<Assign(Var(g.name), g.init)>>
    IN Sequentially(st, FlattenSeq([k \in DOMAIN globals |-> stores(globals[k])]),
                    LAMBDA s, a : GenAssign(a, ctx, s))

EmitFunctionBody(fn, ctx, program, st) ==
    LET entry  == EmitPrologue(EmitLabel([st EXCEPT !.temp_in_use = 0], FuncLabel(fn.name)), ctx)
        params == Sequentially(IF Len(fn.params) > MAX_ARGS THEN Fail(entry) ELSE entry,
                      Indices(fn.params),
                      LAMBDA s, k : EmitStoreParam(s, k - 1, ctx.vars[fn.params[k]]))
        ready  == IF fn.name = "main" THEN EmitGlobalInits(program.globals, ctx, params) ELSE params
    IN EmitReturn(EmitEpilogue(EmitZeroReturn(GenBlock(fn.body, ctx, ready)), ctx))

\* _gen_function: the dry run finds max_temps, hence the size of the frame.
WithCode(st, code) == [st EXCEPT !.code = code]
GenFunction(fn, ctx, program, st) ==
    LET dry == EmitFunctionBody(fn, ctx, program, [st EXCEPT !.code = <<>>, !.max_temps = 0])
    IN IF ctx.redeclared THEN Fail(st)
       ELSE EmitFunctionBody(fn, ctx, program, WithCode(dry, st.code))

\* The functions by name; main comes first in the text.
Functions(program) ==
    LET fns == program.functions
    IN [name \in {fns[k].name : k \in DOMAIN fns} |->
           fns[CHOOSE k \in DOMAIN fns : fns[k].name = name]]
GenFunctions(program, funcs, globals) ==
    Sequentially(EmitProgramPrologue(InitialSt),
        <<funcs["main"]>> \o SelectSeq(program.functions, LAMBDA f : f.name # "main"),
        LAMBDA s, f : GenFunction(f, Context(f, funcs, globals), program, s))

\* The emitted lines; <<>> when a CompilerError is raised.
Finished(st) == IF st.failed THEN <<>> ELSE Postprocess(st.code)
Generate(program) ==
    LET funcs   == Functions(program)
        globals == LayoutGlobals(program.globals)
    IN IF \/ "main" \notin DOMAIN funcs
          \/ ~SUPPORTS_CALLS /\ Len(program.functions) > 1
          \/ globals.redeclared \/ globals.size > GLOBAL_LIMIT
       THEN <<>> ELSE Finished(EmitRuntime(GenFunctions(program, funcs, globals)))
=============================================================================
