-------------------------------- MODULE AST ---------------------------------
(***************************************************************************)
(* The Core-C abstract syntax tree (src/sim/compiler/ast.py): one           *)
(* constructor per node class, without source lines.                        *)
(***************************************************************************)
EXTENDS Integers, Sequences

None == [node |-> "None"]

Number(value)              == [node |-> "Number", value |-> value]
Var(name)                  == [node |-> "Var", name |-> name]
Index(array, index)        == [node |-> "Index", array |-> array, index |-> index]
Unary(op, operand)         == [node |-> "Unary", op |-> op, operand |-> operand]
Binary(op, left, right)    == [node |-> "Binary", op |-> op, left |-> left, right |-> right]
Assign(target, value)      == [node |-> "Assign", target |-> target, value |-> value]
Ternary(cond, then, else)  ==
    [node |-> "Ternary", cond |-> cond, then_expr |-> then, else_expr |-> else]
IncDec(target, op, prefix) == [node |-> "IncDec", target |-> target, op |-> op, prefix |-> prefix]
Call(name, args)           == [node |-> "Call", name |-> name, args |-> args]

VarDecl(name, init) ==
    [node |-> "VarDecl", name |-> name, init |-> init, is_array |-> FALSE]
\* An array without an initializer list has init_list = <<>>.
ArrayDecl(name, size, init_list) ==
    [node |-> "VarDecl", name |-> name, size |-> size, init_list |-> init_list,
     is_array |-> TRUE]
ExprStmt(expr)             == [node |-> "ExprStmt", expr |-> expr]
If(cond, then, else)       ==
    [node |-> "If", cond |-> cond, then_body |-> then, else_body |-> else]
While(cond, body)          == [node |-> "While", cond |-> cond, body |-> body]
For(init, cond, step, body) ==
    [node |-> "For", init |-> init, cond |-> cond, step |-> step, body |-> body]
Return(value)              == [node |-> "Return", value |-> value]
Break                      == [node |-> "Break"]
Continue                   == [node |-> "Continue"]
Block(statements)          == [node |-> "Block", statements |-> statements]

Function(name, params, body) == [name |-> name, params |-> params, body |-> body]
Program(functions, globals)  == [functions |-> functions, globals |-> globals]
=============================================================================
