----------------------------- MODULE CSemantics -----------------------------
(***************************************************************************)
(* What a Core-C program means: an evaluator over the syntax tree, with     *)
(* two's complement integers of XLEN bits and left-to-right evaluation.     *)
(* The reference compiled programs are compared with; it models no code.    *)
(*                                                                          *)
(* s: memory cells, the bindings in scope, what was printed, the value of   *)
(* the last expression and how control leaves a statement.  A pointer is    *)
(* the number of a cell.                                                    *)
(***************************************************************************)
EXTENDS AST, SequencesExt, Bitwise, TLC

CONSTANT XLEN

Wrap(v)     == ((v + 2^(XLEN - 1)) % 2^XLEN) - 2^(XLEN - 1)
Unsigned(v) == v % 2^XLEN
Truth(p)    == IF p THEN 1 ELSE 0
Quotient(a, b) ==
    LET abs(v) == IF v < 0 THEN -v ELSE v
    IN IF (a < 0) = (b < 0) THEN abs(a) \div abs(b) ELSE -(abs(a) \div abs(b))

BinaryOp(op, a, b) ==
    CASE op = "+"  -> Wrap(a + b)      [] op = "-"  -> Wrap(a - b)
      [] op = "*"  -> Wrap(a * b)
      [] op = "/"  -> Wrap(Quotient(a, b))
      [] op = "%"  -> Wrap(a - b * Quotient(a, b))
      [] op = "<<" -> Wrap(a * 2^b)    [] op = ">>" -> a \div 2^b
      [] op = "&"  -> Wrap(Unsigned(a) & Unsigned(b))
      [] op = "|"  -> Wrap(Unsigned(a) | Unsigned(b))
      [] op = "^"  -> Wrap(Unsigned(a) ^^ Unsigned(b))
      [] op = "==" -> Truth(a = b)     [] op = "!=" -> Truth(a # b)
      [] op = "<"  -> Truth(a < b)     [] op = "<=" -> Truth(a <= b)
      [] op = ">"  -> Truth(a > b)     [] op = ">=" -> Truth(a >= b)

Value(s, v)      == [s EXCEPT !.value = v]
Store(s, cell, v) == [s EXCEPT !.cells[cell] = v, !.value = v]
StoreLeft(s)      == Store(s, s.left, s.value)
StoreAt(cell, s)  == Store(s, cell, s.value)
Bind(s, name, size, is_array) ==
    [s EXCEPT !.env = (name :> [cell |-> Len(s.cells) + 1, is_array |-> is_array]) @@ @,
              !.cells = @ \o [k \in 1..size |-> 0]]

Sequentially(s, items, Do(_, _)) ==
    LET after[k \in 0..Len(items)] == IF k = 0 THEN s ELSE Do(after[k - 1], items[k])
    IN after[Len(items)]
Indices(seq) == [k \in DOMAIN seq |-> k]

-----------------------------------------------------------------------------
RECURSIVE Eval(_, _, _), Exec(_, _, _)

\* The value of e, after another one whose value is kept as s.left.
Second(e, s, program) == [Eval(e, s, program) EXCEPT !.left = s.value]
Both(first, second, s, program) == Second(second, Eval(first, s, program), program)

\* The cell a variable, an element or a dereference denotes, as s.value.
Sum(s) == Value(s, s.left + s.value)
Locate(e, s, program) ==
    CASE e.node = "Var"   -> Value(s, s.env[e.name].cell)
      [] e.node = "Index" -> Sum(Both(e.array, e.index, s, program))
      [] e.node = "Unary" -> Eval(e.operand, s, program)

Content(s)           == Value(s, s.cells[s.value])
Variable(binding, s) == Value(s, IF binding.is_array THEN binding.cell ELSE s.cells[binding.cell])
Prefixed(op, s)      == Value(s, IF op = "-" THEN Wrap(-s.value) ELSE Truth(s.value = 0))
Arithmetic(op, s)    == Value(s, BinaryOp(op, s.left, s.value))
AsTruth(s)           == Value(s, Truth(s.value # 0))
Printed(s)           == [s EXCEPT !.console = Append(@, s.value)]
Stepped(e, s) ==
    LET old == s.cells[s.value]
        new == BinaryOp(e.op, old, 1)
    IN Value(Store(s, s.value, new), IF e.prefix THEN new ELSE old)
\* s is the state after the operand on the left.
Logical(e, s, program) ==
    IF (e.op = "&&") = (s.value = 0) THEN Value(s, Truth(e.op = "||"))
                                     ELSE AsTruth(Eval(e.right, s, program))
Choice(e, s, program) == Eval(IF s.value # 0 THEN e.then_expr ELSE e.else_expr, s, program)

\* A call: parameters are fresh variables over the globals, and the caller's
\* variables are in scope again afterwards.
FunctionNamed(name, program) ==
    program.functions[CHOOSE k \in DOMAIN program.functions : program.functions[k].name = name]
Collected(before, s) == [s EXCEPT !.args = Append(before.args, s.value)]
Arguments(args, s, program) ==
    Sequentially([s EXCEPT !.args = <<>>], args,
                 LAMBDA t, arg : Collected(t, Eval(arg, t, program)))
Parameters(params, s) ==
    Sequentially([s EXCEPT !.env = s.globals], Indices(params),
                 LAMBDA t, k : Store(Bind(t, params[k], 1, FALSE), Len(t.cells) + 1, s.args[k]))
Returned(before, s) ==
    [s EXCEPT !.env = before.env, !.leaves = "no",
              !.value = IF s.leaves = "return" THEN @ ELSE 0]
Enter(fn, s, program) == Exec(fn.body, Value(Parameters(fn.params, s), 0), program)
Called(e, s, program) ==
    Returned(s, Enter(FunctionNamed(e.name, program), Arguments(e.args, s, program), program))

Eval(e, s, program) ==
    CASE e.node = "Number" -> Value(s, e.value)
      [] e.node = "Var" -> Variable(s.env[e.name], s)
      [] e.node = "Index" \/ (e.node = "Unary" /\ e.op = "*") -> Content(Locate(e, s, program))
      [] e.node = "Unary" /\ e.op = "&" -> Locate(e.operand, s, program)
      [] e.node = "Unary" /\ e.op \in {"-", "!"} -> Prefixed(e.op, Eval(e.operand, s, program))
      [] e.node = "Binary" /\ e.op \in {"&&", "||"} -> Logical(e, Eval(e.left, s, program), program)
      [] e.node = "Binary" /\ e.op \notin {"&&", "||"} ->
            Arithmetic(e.op, Both(e.left, e.right, s, program))
      [] e.node = "Assign" -> StoreLeft(Second(e.value, Locate(e.target, s, program), program))
      [] e.node = "IncDec" -> Stepped(e, Locate(e.target, s, program))
      [] e.node = "Ternary" -> Choice(e, Eval(e.cond, s, program), program)
      [] e.node = "Call" /\ e.name = "print" -> Printed(Eval(e.args[1], s, program))
      [] e.node = "Call" /\ e.name # "print" -> Called(e, s, program)

\* One statement; `leaves` is "break", "continue" or "return" when it ends early.
RECURSIVE Loop(_, _, _)
Optional(e, s, program) == IF e = None THEN Value(s, 1) ELSE Eval(e, s, program)
Again(loop, s, program) ==
    CASE s.leaves = "break"  -> [s EXCEPT !.leaves = "no"]
      [] s.leaves = "return" -> s
      [] OTHER -> Loop(loop, Optional(loop.step, [s EXCEPT !.leaves = "no"], program), program)
Iterate(loop, s, program) ==
    IF s.value = 0 THEN s ELSE Again(loop, Exec(loop.body, s, program), program)
Loop(loop, s, program) == Iterate(loop, Optional(loop.cond, s, program), program)

RECURSIVE Statements(_, _, _, _, _)
Statements(list, first, last, s, program) ==
    CASE s.leaves # "no" \/ first > last -> s
      [] first = last -> Exec(list[first], s, program)
      [] OTHER -> LET middle == (first + last) \div 2
                  IN Statements(list, middle + 1, last,
                                Statements(list, first, middle, s, program), program)

Branch(stmt, s, program) == Exec(IF s.value # 0 THEN stmt.then_body ELSE stmt.else_body, s, program)
\* The new variable's cells start at `cell`.
Initialized(stmt, cell, s, program) ==
    CASE stmt.is_array -> Sequentially(s, Indices(stmt.init_list),
                 LAMBDA t, k : StoreAt(cell + k - 1, Eval(stmt.init_list[k], t, program)))
      [] stmt.init = None -> s
      [] OTHER -> StoreAt(cell, Eval(stmt.init, s, program))

Exec(stmt, s, program) ==
    CASE stmt.node = "None"     -> s
      [] stmt.node = "ExprStmt" -> Eval(stmt.expr, s, program)
      [] stmt.node = "Block"    ->
            Statements(stmt.statements, 1, Len(stmt.statements), s, program)
      [] stmt.node = "If"       -> Branch(stmt, Eval(stmt.cond, s, program), program)
      [] stmt.node = "While"    -> Loop(For(None, stmt.cond, None, stmt.body), s, program)
      [] stmt.node = "For"      -> Loop(stmt, Exec(stmt.init, s, program), program)
      [] stmt.node = "Return"   ->
            [(IF stmt.value = None THEN Value(s, 0) ELSE Eval(stmt.value, s, program))
                EXCEPT !.leaves = "return"]
      [] stmt.node \in {"Break", "Continue"} ->
            [s EXCEPT !.leaves = IF stmt.node = "Break" THEN "break" ELSE "continue"]
      [] stmt.node = "VarDecl" ->
            Initialized(stmt, Len(s.cells) + 1,
                        Bind(s, stmt.name, IF stmt.is_array THEN stmt.size ELSE 1, stmt.is_array),
                        program)

-----------------------------------------------------------------------------
\* Globals are set up before main runs, in their own scope.
Start == [cells |-> <<>>, env |-> <<>>, globals |-> <<>>, console |-> <<>>,
          value |-> 0, left |-> 0, args |-> <<>>, leaves |-> "no"]
Outcome(done, globals) == [result |-> done.value, console |-> done.console,
                           globals |-> SubSeq(done.cells, 1, globals)]
RunMain(s, program) ==
    Outcome(Called(Call("main", <<>>), [s EXCEPT !.globals = s.env], program), Len(s.cells))
Meaning(program) ==
    RunMain(Sequentially(Start, program.globals, LAMBDA s, g : Exec(g, s, program)), program)
=============================================================================
