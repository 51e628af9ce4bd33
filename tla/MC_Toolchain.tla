---------------------------- MODULE MC_Toolchain ----------------------------
(***************************************************************************)
(* Instance of Toolchain for TLC: Core-C programs that between them use     *)
(* every construct, compiled for every instruction set, and x86 texts whose *)
(* branches lie around the limit of their short form.                       *)
(***************************************************************************)
EXTENDS Toolchain, AST

\* Abbreviations.
Num(v)             == Number(v)
Set(name, value)   == ExprStmt(Assign(Var(name), value))
SetAt(name, i, v)  == ExprStmt(Assign(Index(Var(name), i), v))
At(name, i)        == Index(Var(name), i)
Show(e)            == ExprStmt(Call("print", <<e>>))
Plus(a, b)         == Binary("+", a, b)
Minus(a, b)        == Binary("-", a, b)
Incr(name)         == IncDec(Var(name), "+", FALSE)
Decr(name)         == IncDec(Var(name), "-", TRUE)
Main(body)         == Function("main", <<>>, Block(body))
Only(body)         == Program(<<Main(body)>>, <<>>)
a == Var("a")
b == Var("b")
i == Var("i")
j == Var("j")
n == Var("n")
s == Var("s")

-----------------------------------------------------------------------------
(* Arithmetic at the edges of the word.                                     *)

Operands(x, y) == <<VarDecl("a", Num(x)), VarDecl("b", Num(y))>>
ShowAll(ops)   == [k \in DOMAIN ops |-> Show(Binary(ops[k], a, b))]

Alu(x, y) == Only(Operands(x, y)
                  \o ShowAll(<<"+", "-", "&", "|", "^", "==", "!=", "<", "<=", ">", ">=">>)
                  \o <<Show(Unary("!", a)), Return(Unary("-", b))>>)
MulDiv(x, y) == Only(Operands(x, y) \o ShowAll(<<"*", "/", "%">>) \o <<Return(Minus(a, b))>>)
Shift(x, y)  == Only(Operands(x, y) \o ShowAll(<<"<<", ">>">>) \o <<Return(Num(0))>>)

-----------------------------------------------------------------------------
(* Control flow.                                                            *)

\* Nested loops, left and continued early; two declarations share `i`.
Loops == Only(<<
    VarDecl("s", Num(0)),
    For(VarDecl("i", Num(0)), Binary("<", i, Num(5)), Incr("i"), Block(<<
        If(Binary("==", i, Num(2)), Block(<<Continue>>), None),
        VarDecl("j", Num(0)),
        While(Num(1), Block(<<
            If(Binary(">=", j, i), Block(<<Break>>), None),
            If(Binary("==", j, Num(1)), Block(<<Set("j", Plus(j, Num(2))), Continue>>), None),
            Set("s", Plus(s, Plus(i, j))),
            ExprStmt(Incr("j"))>>)),
        If(Binary("&&", Binary(">", s, Num(6)), Binary(">", i, Num(3))), Block(<<Break>>),
           Block(<<Show(s)>>))>>)),
    For(VarDecl("i", Num(3)), None, Decr("i"), Block(<<
        If(Unary("!", i), Block(<<Return(s)>>), None),
        ExprStmt(Assign(s, Minus(s, i)))>>))>>)

\* Operands that are skipped must not count.
ShortCircuit == Only(Operands(0, 0) \o <<
    Show(Binary("&&", Incr("a"), Incr("b"))),
    Show(Binary("||", Incr("a"), Incr("b"))),
    Show(Binary("||", Binary("&&", b, a), Decr("b"))),
    Show(Ternary(Binary("<", a, b), Num(1), Ternary(Binary("==", a, Num(2)), Decr("a"), Num(3)))),
    Return(Plus(a, b))>>)

\* Right-nested operands: each level holds a temporary.
Nested == Only(Operands(9, 4) \o <<
    Return(Minus(a, Minus(b, Minus(Num(300), Minus(Binary("*", b, Num(3)), Minus(a, b))))))>>)

-----------------------------------------------------------------------------
(* Calls.                                                                   *)

Recursive(name, small, result) ==
    Function(name, <<"n">>, Block(<<If(Binary("<", n, Num(2)), Block(<<Return(small)>>), None),
                                    Return(result)>>))
Before(k, name) == Call(name, <<Minus(n, Num(k))>>)
Fib == Program(<<Main(<<Return(Call("fib", <<Num(4)>>))>>),
                 Recursive("fib", n, Plus(Before(1, "fib"), Before(2, "fib")))>>, <<>>)
Factorial == Program(<<Recursive("fact", Num(1), Binary("*", n, Before(1, "fact"))),
                       Main(<<Show(Call("fact", <<Num(5)>>)), Return(Num(0))>>)>>, <<>>)
Parity == Program(<<Recursive("even", Binary("==", n, Num(0)), Before(1, "odd")),
                    Recursive("odd", n, Before(1, "even")),
                    Main(<<Return(Plus(Call("even", <<Num(5)>>), Call("odd", <<Num(3)>>)))>>)>>, <<>>)

Eight == <<"p", "q", "r", "s", "t", "u", "v", "w">>
Weave == Program(<<
    Function("weave", Eight, Block(<<Return(
        Minus(Var("p"), Minus(Var("q"), Minus(Var("r"), Minus(Var("s"), Minus(Var("t"),
              Minus(Var("u"), Minus(Var("v"), Var("w")))))))))>>)),
    Function("twice", <<"n">>, Block(<<Set("n", Plus(n, n)), Return(n)>>)),
    Function("nothing", <<>>, Block(<<>>)),
    Main(<<Return(Call("weave", <<Num(1), Call("twice", <<Call("twice", <<Num(5)>>)>>), Num(3),
               Plus(Call("twice", <<Num(7)>>), Call("twice", <<Num(2)>>)), Num(5), Num(6),
               Call("nothing", <<>>), Num(8)>>))>>)>>, <<>>)

-----------------------------------------------------------------------------
(* Memory: globals, arrays, pointers.                                       *)

SomeGlobals == <<VarDecl("g", None), ArrayDecl("t", 3, <<Num(1), Num(2)>>), VarDecl("h", Num(3))>>
Globals == Program(<<Main(<<
    Set("g", Plus(Var("g"), Plus(Var("h"), At("t", Num(1))))),
    SetAt("t", Minus(Var("g"), Num(3)), Plus(Var("h"), Var("g"))),
    ExprStmt(IncDec(At("t", Num(0)), "+", FALSE)),
    Return(Plus(At("t", Num(2)), Var("g")))>>)>>, SomeGlobals)
SharedGlobals == Program(<<
    Function("bump", <<"n">>, Block(<<Set("h", Plus(Var("h"), n)), Return(Var("h"))>>)),
    Main(<<SetAt("t", Call("bump", <<Num(-2)>>), Call("bump", <<Num(4)>>)), Return(Var("h"))>>)>>,
    SomeGlobals)

Pointers == Only(<<
    VarDecl("a", Num(1)), ArrayDecl("v", 4, <<Num(4), Num(5)>>), VarDecl("b", Unary("&", a)),
    ExprStmt(Assign(Unary("*", b), Num(7))),
    Set("b", Unary("&", At("v", Num(1)))),
    SetAt("b", Num(1), Plus(Unary("*", b), a)),
    Show(At("v", Num(2))),
    Return(At("v", Num(3)))>>)

\* Bubble sort through pointers to the caller's array.
Sort == Program(<<
    Function("swap", <<"p", "q">>, Block(<<
        VarDecl("x", Unary("*", Var("p"))),
        ExprStmt(Assign(Unary("*", Var("p")), Unary("*", Var("q")))),
        ExprStmt(Assign(Unary("*", Var("q")), Var("x")))>>)),
    Function("sort", <<"v", "n">>, Block(<<
        For(VarDecl("i", Num(1)), Binary("<", i, n), Incr("i"), Block(<<
            For(VarDecl("j", Num(0)), Binary("<", j, Minus(n, i)), Incr("j"), Block(<<
                If(Binary(">", At("v", j), At("v", Plus(j, Num(1)))),
                   Block(<<ExprStmt(Call("swap", <<Unary("&", At("v", j)),
                                                   Unary("&", At("v", Plus(j, Num(1))))>>))>>),
                   None)>>))>>))>>)),
    Main(<<ArrayDecl("v", 3, <<Num(3), Num(-2), Num(1)>>),
           ExprStmt(Call("sort", <<Var("v"), Num(3)>>)),
           Show(At("v", Num(0))), Show(At("v", Num(1))), Return(At("v", Num(2)))>>)>>, <<>>)

-----------------------------------------------------------------------------
(* Programs a backend, or every backend, refuses.                           *)

StrayBreak == Only(<<Break>>)
Redeclared == Only(<<VarDecl("v", Num(1)), ArrayDecl("v", 2, <<>>), Return(Num(0))>>)
ManyGlobals == Program(<<Main(<<Return(Num(0))>>)>>, <<ArrayDecl("t", 600, <<>>)>>)
WrongArity == Program(<<Function("f", <<"n">>, Block(<<>>)), Main(<<Return(Call("f", <<>>))>>)>>, <<>>)

Named ==
    [alu_small |-> Alu(7, -3), alu_negative |-> Alu(-7, -7), alu_max |-> Alu(32767, 1),
     alu_min |-> Alu(-32768, -1), alu_edge |-> Alu(-32768, 1), alu_zero |-> Alu(0, 255),
     muldiv_pp |-> MulDiv(23, 7), muldiv_np |-> MulDiv(-23, 7), muldiv_pn |-> MulDiv(21, -7),
     muldiv_nn |-> MulDiv(-3, -7), muldiv_zero |-> MulDiv(0, 9),
     muldiv_wide |-> MulDiv(-32768, 3), muldiv_over |-> MulDiv(32767, -32768),
     shift |-> Shift(-5, 3), shift_wide |-> Shift(32767, 15),
     loops |-> Loops, short_circuit |-> ShortCircuit, nested |-> Nested, fib |-> Fib,
     factorial |-> Factorial, parity |-> Parity, weave |-> Weave, globals |-> Globals,
     shared_globals |-> SharedGlobals, pointers |-> Pointers, sort |-> Sort,
     stray_break |-> StrayBreak, redeclared |-> Redeclared,
     many_globals |-> ManyGlobals, wrong_arity |-> WrongArity]

\* Two slots are reserved in a frame, and two hold temporaries here.
Frame(slots) == LET last == slots - 5
                IN Only(<<ArrayDecl("v", slots - 4, <<>>), SetAt("v", Num(last), Num(6)),
                          Return(At("v", Num(last)))>>)
\* A branch over so many statements.
Over(count)  == Only(<<VarDecl("a", Num(1)),
                       If(Num(0), Block([k \in 1..count |-> Set("a", Plus(a, Num(1)))]), None),
                       Return(a)>>)

\* The largest frames, and the longest branch, that do without: x86's disp8; RISC-V's
\* ADDI; ARM's SUB, which takes 4096 bytes but not 4104; the stack, for slots of 8
\* and of 4 bytes; RISC-V's branch.
FrameLimit  == [slots |-> 32, imm12 |-> 511, imm24 |-> 512, half_stack |-> 7679, stack |-> 15358]
BranchLimit == 170
Frames == {"frame"} \X UNION {{limit, limit + 1} : limit \in Range(FrameLimit)}
Overs  == {"over"} \X {BranchLimit, BranchLimit + 1}

\* Every name is a tuple: those of the texts below have their distances in them.
Sources == {<<name>> : name \in DOMAIN Named}
MCPrograms == [p \in Sources \union Frames \union Overs |->
                  CASE p[1] = "frame" -> Frame(p[2])
                    [] p[1] = "over"  -> Over(p[2])
                    [] OTHER          -> Named[p[1]]]

NeedsOf(p) ==
    CASE p[1] \in {"shift", "shift_wide"} -> {"shift"}
      [] p[1] \in {"fib", "factorial", "parity", "weave", "shared_globals", "sort"} -> {"calls"}
      [] p[1] \in {"stray_break", "redeclared", "many_globals", "wrong_arity"} -> {"diagnosis"}
      [] p[1] = "frame" -> {need \in DOMAIN FrameLimit : p[2] > FrameLimit[need]}
      [] p[1] = "over" /\ p[2] > BranchLimit -> {"far"}
      [] OTHER -> {}
MCNeeds == [p \in DOMAIN MCPrograms |-> NeedsOf(p)]

-----------------------------------------------------------------------------
(* x86 texts.  JMP over JE: lengthening the one can push the other out.     *)

Nops(count)  == [k \in 1..count |-> X86C!NOP]
Branch(mn, target) == X86C!J(mn, <<target, 0>>)
LabelAt(name)  == LabelLine(<<name, 0>>)
Halt         == <<LabelAt("halt"), Branch("JMP", "halt")>>

Forward(x, y) == <<Branch("JE", "near"), Branch("JMP", "far")>> \o Nops(x) \o <<LabelAt("near")>>
                 \o Nops(y) \o <<LabelAt("far")>> \o Halt
Backward(x, y) == <<Branch("JMP", "top"), LabelAt("back"), Branch("JMP", "halt"), LabelAt("top"),
                    Branch("JNE", "out")>> \o Nops(x) \o <<Branch("JE", "back")>> \o Nops(y)
                  \o <<LabelAt("out"), Branch("JMP", "back")>> \o Halt

-----------------------------------------------------------------------------
(* Texts for the pipelines: three instructions that depend on each other    *)
(* through registers, memory and flags.                                     *)

\* <<set-up, instructions, a branch on the flags, an instruction behind it>>.
ARMSet == [setup  |-> <<ARMC!MOVZ(1, 3), ARMC!MOVZ(2, 9), ARMC!STR(2, 31, 0)>>,
           instrs |-> <<ARMC!R("CMP", 0, 1, 2), ARMC!BC("LT", <<"end", 0>>), ARMC!R("SUBS", 1, 2, 1),
                        ARMC!LDR(2, 1, 0), ARMC!STR(1, 2, 0), ARMC!J("CBZ", 2, <<"end", 0>>)>>,
           test   |-> <<ARMC!BC("LT", <<"halt", 0>>), ARMC!MOVZ(3, 7)>>,
           halt   |-> <<ARMC!J("B", 0, <<"halt", 0>>)>>]
X86Set == [setup  |-> <<X86C!MOVI(1, 3), X86C!MOVI(2, 9), X86C!STORE(7, 0, 2)>>,
           instrs |-> <<X86C!RR("CMP", 1, 2), Branch("JL", "end"), X86C!RR("SUB", 1, 2),
                        X86C!LOAD(2, 1, 0), X86C!STORE(2, 0, 1), X86C!MOV(1, 2)>>,
           test   |-> <<Branch("JL", "halt"), X86C!MOVI(3, 7)>>,
           halt   |-> <<Branch("JMP", "halt")>>]
SetOf == [arm |-> ARMSet, x86 |-> X86Set]

\* t = <<kind, isa, which instructions>>: a "joined" text tests the flags behind
\* the label its branches lead to.
Mixed(t) ==
    SetOf[t[2]].setup \o [k \in DOMAIN t[3] |-> SetOf[t[2]].instrs[t[3][k]]]
    \o <<LabelAt("end")>> \o (IF t[1] = "joined" THEN SetOf[t[2]].test ELSE <<>>)
    \o <<LabelAt("halt")>> \o SetOf[t[2]].halt

Distances == {"forward", "backward"} \X (122..127) \X {0, 1, 3}
Mixes(kind, width) == {kind} \X {"arm", "x86"} \X [1..3 -> 1..width]
MCTexts == [t \in Distances \union Mixes("mixed", 6) \union Mixes("joined", 3) |->
               CASE t[1] = "forward"  -> Forward(t[2], t[3])
                 [] t[1] = "backward" -> Backward(t[2], t[3])
                 [] OTHER             -> Mixed(t)]

-----------------------------------------------------------------------------

Single  == [alu |-> 1, load |-> 1, store |-> 1, branch |-> 1]
Classic == [alu |-> 3, load |-> 4, store |-> 4, branch |-> 3]
Costing(costs) == [kind |-> "configurable", costs |-> costs]
Pipelined      == [kind |-> "pipeline", costs |-> Single]

Job(isa, name, models) == [isa |-> isa, name |-> name, models |-> models]
\* Repeated addition would exceed the cap; the difference of the operands overflows.
RISCVOnly == {<<"muldiv_wide">>, <<"muldiv_over">>, <<"alu_edge">>}
Compared  == {<<"loops">>, <<"muldiv_np">>, <<"globals">>}
Models(name) == IF name \in Compared THEN <<Costing(Single), Costing(Classic), Pipelined>>
                ELSE <<Pipelined>>
MCJobs ==
    {Job(isa, name, Models(name)) : isa \in ISAs, name \in DOMAIN MCPrograms \ RISCVOnly}
    \union {Job("riscv", name, <<Costing(Single), Costing(Classic), Pipelined>>) : name \in RISCVOnly}
    \union {Job("x86", name, <<>>) : name \in Distances}
    \union {Job(t[2], t, <<Pipelined>>) : t \in Mixes("mixed", 6)}

\* A branch that takes as long as the API admits: 64 cycles.
SlowBranch   == [Single EXCEPT !.branch = 64]
SlowJobs == {Job(isa, <<"loops">>, <<Costing(SlowBranch)>>) : isa \in ISAs}

\* A wrong-path instruction that sets flags, before a branch that reads them.
JoinedJobs == {Job(t[2], t, <<Pipelined>>) : t \in Mixes("joined", 3)}
=============================================================================
