------------------------------ MODULE Emission ------------------------------
(***************************************************************************)
(* What the code generator carries from one emitted line to the next        *)
(* (src/sim/compiler/codegen/base.py: CodeGenBase, FunctionContext).        *)
(*                                                                          *)
(* st: `code` emitted so far, temporaries in use and their maximum, the     *)
(* label counter, the enclosing loops as <<continue, break>>, the runtime   *)
(* routines called, and whether a CompilerError was raised.                 *)
(* ctx: slots of scalars, arrays and parameters of the function, the first  *)
(* free slot, addresses of globals, all functions.                          *)
(***************************************************************************)
EXTENDS Encoding, AST, TLC

STACK_TOP   == 65528
STACK_LIMIT == 4096
PRINT_ADDR  == 2040
GLOBAL_REGION_TOP == 2032

InitialSt == [code |-> <<>>, temp_in_use |-> 0, max_temps |-> 0, labels |-> 0,
              loops |-> <<>>, need |-> {}, failed |-> FALSE]

\* Do(st, item) for one item after the other, by halves, until one of them fails.
Sequentially(st, items, Do(_, _)) ==
    LET RECURSIVE Run(_, _, _)
        Run(s, first, last) ==
            CASE s.failed \/ first > last -> s
              [] first = last -> Do(s, items[first])
              [] OTHER -> LET middle == (first + last) \div 2
                          IN Run(Run(s, first, middle), middle + 1, last)
    IN Run(st, 1, Len(items))
Indices(seq) == [k \in DOMAIN seq |-> k]

\* raise CompilerError
Fail(st)        == [st EXCEPT !.failed = TRUE]
Emit(st, lines) == [st EXCEPT !.code = @ \o lines]
EmitLabel(st, label) == Emit(st, <<LabelLine(label)>>)

\* new_label, for several labels at once.
NewLabels(st, bases) == [k \in DOMAIN bases |-> <<bases[k], st.labels + k>>]
Numbered(st, bases)  == [st EXCEPT !.labels = @ + Len(bases)]

\* push_temp and pop_temp: temporaries lie above the fixed slots.
TempSlot(ctx, st) == ctx.next_slot + st.temp_in_use
PushTempInPlace(st) == [st EXCEPT !.max_temps = 1]   \* mutant: one slot for all
PushTemp(st) ==
    [st EXCEPT !.temp_in_use = @ + 1,
               !.max_temps = IF st.temp_in_use + 1 > @ THEN st.temp_in_use + 1 ELSE @]
PopTemps(st, n) == [st EXCEPT !.temp_in_use = @ - n]
PopTemp(st)     == PopTemps(st, 1)
FixedSlots(st, ctx) == ctx.next_slot
FrameSlots(st, ctx) == ctx.next_slot + st.max_temps

FuncLabel(name) == <<"func_" \o name, 0>>
HaltLabel       == <<"halt", 0>>
=============================================================================
