----------------------------- MODULE Toolchain ------------------------------
(***************************************************************************)
(* From Core-C source to a row of results, as the API's comparison runs it  *)
(* (src/api/app.py /compare): compile, assemble (on x86 with branch         *)
(* relaxation), then build and clock one machine after the other until its  *)
(* architectural state has settled (src/sim/runner_v2.py), first the        *)
(* single-cycle machine as the reference, then the models asked for.        *)
(*                                                                          *)
(* A job is one instruction set's part of a request: a program or a text,   *)
(* and the models to compare, each the five-stage pipeline or a             *)
(* configurable machine with its cycle costs.                               *)
(***************************************************************************)
EXTENDS PipelinedProcessor, Assembler, FiniteSetsExt, Functions

CONSTANTS Programs,        \* Core-C programs by name: syntax trees
          Texts,           \* assembly texts by name, for programs written by hand
          Needs,           \* what the program of that name needs from a backend
          Jobs,            \* set of [isa, name, models]: models lists [kind, costs]
          WORD_BITS,       \* 32 in the code; XLEN here
          MAX_AUTO_CYCLES  \* cap on the cycles of one run

\* Besides the assembler's; phase is further "build", "run", "settled" and "done".
VARIABLES
    pc, regs, mem, flags,
    elapsed,   \* CycleBudgetController._elapsed
    stages,    \* stage registers of the pipeline
    cycles,    \* cycles run
    streak,    \* consecutive cycles without an architectural change
    console,   \* values stored to PRINT_ADDR, oldest first
    calls,     \* history: return address and frame pointer of the active calls
    loaded,    \* history: register the last instruction loaded, or NoRegister
    meaning,   \* history: what the language says of the program, or NoMeaning
    row,       \* 0 for the reference run, then the index of the model
    reference, \* final state of the reference run and its cycles, or NoReference
    table      \* the entries reported so far
machine == <<pc, regs, mem, flags, elapsed, stages>>
watch   == <<cycles, streak>>
history == <<console, calls, loaded>>
\* Jobs stay what they are.
request == <<job, meaning>>
assembly == <<text, wide, layout, image>>
report  == <<row, reference, table>>
vars    == <<request, phase, assembly, machine, watch, history, report>>

RVC  == INSTANCE RISCVCodeGen
ARMC == INSTANCE ARMCodeGen
X86C == INSTANCE X86CodeGen
C    == INSTANCE CSemantics

MultiplyWindow == 32
STABLE_WINDOW == 64
NoRegister == -1
NoReference == <<>>
NoMeaning   == <<>>

-----------------------------------------------------------------------------
(* The text of a job.                                                       *)

\* compile_c: one backend per instruction set.
Compiled(isa, prog) ==
    CASE isa = "riscv" -> RVC!Compile(prog)
      [] isa = "arm"   -> ARMC!Compile(prog)
      [] isa = "x86"   -> X86C!Compile(prog)

IsSource   == job.name \in DOMAIN Needs
HasMeaning == IsSource /\ "diagnosis" \notin Needs[job.name]

Machine == [pc |-> pc, regs |-> regs, mem |-> mem, flags |-> flags]

Init ==
    /\ job \in Jobs
    /\ IF IsSource THEN \E program \in {Programs[job.name]} :
                          /\ text = Compiled(job.isa, program)
                          /\ meaning = IF HasMeaning THEN C!Meaning(program) ELSE NoMeaning
                   ELSE text = Texts[job.name] /\ meaning = NoMeaning
    /\ phase = IF text = <<>> THEN "error" ELSE "layout"
    /\ Unplaced
    /\ LET m == Reset(job.isa)
       IN pc = m.pc /\ regs = m.regs /\ mem = m.mem /\ flags = m.flags
    /\ elapsed = 0
    /\ stages = EmptyStages
    /\ cycles = 0
    /\ streak = 0
    /\ console = <<>>
    /\ calls = <<>>
    /\ loaded = NoRegister
    /\ row = 0
    /\ reference = NoReference
    /\ table = <<>>

-----------------------------------------------------------------------------
(* Assembling.                                                              *)

Assemble ==
    /\ Place \/ Relax \/ Encode
    /\ UNCHANGED <<meaning, machine, watch, history, report>>

\* A new machine for every run.
Build ==
    /\ phase \in {"assembled", "build"}
    /\ phase' = "run"
    /\ LET m == Reset(job.isa)
       IN pc' = m.pc /\ regs' = m.regs /\ mem' = m.mem /\ flags' = m.flags
    /\ elapsed' = 0 /\ stages' = EmptyStages /\ cycles' = 0 /\ streak' = 0
    /\ console' = <<>> /\ calls' = <<>> /\ loaded' = NoRegister
    /\ text' = <<>> /\ wide' = {} /\ layout' = <<>>
    /\ UNCHANGED <<request, image, report>>

-----------------------------------------------------------------------------
(* Clock cycles.                                                            *)

Now == Decoded(job.isa, image, pc)

ClassOf(c) ==
    CASE c.mem_read                  -> "load"
      [] c.mem_write                 -> "store"
      [] c.branch \/ c.jal \/ c.jalr -> "branch"
      [] OTHER                       -> "alu"
Costs == IF row = 0 THEN [class \in {"alu", "load", "store", "branch"} |-> 1]
                   ELSE job.models[row].costs
Overlaps == row > 0 /\ job.models[row].kind = "pipeline"
LastCycleLate(c) == elapsed >= Costs[ClassOf(c)]
LastCycle(c) == elapsed + 1 >= Costs[ClassOf(c)]

\* run_simulation: stop when the signature has been the same for the window, or
\* at the cap.  There is no signature before the first cycle.
Watched ==
    /\ cycles' = cycles + 1
    /\ streak' = IF cycles > 0 /\ regs' = regs /\ mem' = mem THEN streak + 1 ELSE 0
    /\ phase' = IF streak' >= STABLE_WINDOW \/ cycles' = MAX_AUTO_CYCLES THEN "settled" ELSE "run"

\* The instruction is held: the fetch unit stalls, the write enables are off, but
\* not that of the flags.
Hold ==
    /\ phase = "run"
    /\ ~Overlaps
    /\ ~LastCycle(Now)
    /\ elapsed' = elapsed + 1
    /\ flags' = Flags(Now, flags, Result(job.isa, Now, Machine))
    /\ UNCHANGED <<request, assembly, pc, regs, mem, stages, history, report>>
    /\ Watched

\* Frame pointer and link register of the calling conventions; x86 has no calls.
FrameReg == CASE job.isa = "riscv" -> RVC!sp [] job.isa = "arm" -> ARMC!FP [] job.isa = "x86" -> X86C!EBP
LinkReg  == CASE job.isa = "riscv" -> RVC!ra [] job.isa = "arm" -> ARMC!X30 [] job.isa = "x86" -> NoRegister
IsCall(c) == c.jal /\ c.reg_write /\ c.rd = LinkReg

\* Values stored to the console word reach the console in the order of the stores.
Shown(c, addr, value) ==
    IF c.mem_write /\ addr = RVC!PRINT_ADDR THEN Append(console, value) ELSE console

Tick ==
    /\ phase = "run"
    /\ ~Overlaps
    /\ LET c    == Now
           next == After(job.isa, image, Machine)
           addr == Result(job.isa, c, Machine)
       IN /\ LastCycle(c)
          /\ pc' = next.pc /\ regs' = next.regs /\ mem' = next.mem /\ flags' = next.flags
          /\ elapsed' = 0
          /\ console' = Shown(c, addr, RegisterAt(job.isa, regs, c.rs2))
          /\ calls' = CASE IsCall(c) -> Append(calls, [return_to |-> FallThrough(c, pc),
                                                       frame |-> regs[FrameReg]])
                        [] c.jalr /\ calls # <<>> -> Front(calls)
                        [] OTHER -> calls
          /\ loaded' = IF c.mem_read /\ c.reg_write THEN c.rd ELSE NoRegister
          /\ UNCHANGED <<request, assembly, stages, report>>
          /\ Watched

\* A cycle of the pipeline.
Clock ==
    /\ phase = "run"
    /\ Overlaps
    /\ stages' = NextStages(job.isa, image, Machine, stages)
    /\ LET next == NextMachine(job.isa, image, Machine, stages)
       IN pc' = next.pc /\ regs' = next.regs /\ mem' = next.mem /\ flags' = next.flags
    /\ console' = Shown(stages.ex_mem.c, stages.ex_mem.alu_result, stages.ex_mem.rs2_data)
    /\ UNCHANGED <<request, assembly, elapsed, calls, loaded, report>>
    /\ Watched

-----------------------------------------------------------------------------
(* Results.                                                                 *)

\* _final_arch: registers and the words that are not zero.
FinalArch == [regs |-> regs, mem |-> Restrict(mem, {w \in DOMAIN mem : mem[w] # 0})]
Completed == cycles < MAX_AUTO_CYCLES
SettlePoint == IF Completed THEN cycles - STABLE_WINDOW ELSE MAX_AUTO_CYCLES

Report ==
    /\ phase = "settled"
    /\ IF row = 0
       THEN /\ reference' = IF Completed THEN [arch |-> FinalArch, cycles |-> SettlePoint]
                            ELSE NoReference
            /\ table' = table
       ELSE /\ reference' = reference
            /\ table' = Append(table, [completed |-> Completed, cycles |-> SettlePoint,
                                       diverges |-> /\ Completed /\ reference # NoReference
                                                    /\ FinalArch # reference.arch])
    /\ IF row < Len(job.models) THEN row' = row + 1 /\ phase' = "build"
                                ELSE row' = row /\ phase' = "done"
    /\ UNCHANGED <<request, assembly, machine, watch, history>>

Next == Assemble \/ Build \/ Hold \/ Tick \/ Clock \/ Report

\* One thread runs the request to its end.
Spec == Init /\ [][Next]_vars /\ WF_vars(Next)

-----------------------------------------------------------------------------
(* Properties.                                                              *)

TypeOK ==
    /\ phase \in {"layout", "encode", "assembled", "build", "run", "settled", "done",
                 "error"}
    /\ \A k \in DOMAIN text : WellFormed(job.isa, text[k])
    /\ wide \subseteq DOMAIN text
    /\ pc \in 0..(2^XLEN - 1)
    /\ regs \in [0..(NumRegs(job.isa) - 1) -> 0..(2^XLEN - 1)]
    /\ DOMAIN mem \subseteq 0..(MEM_WORDS - 1)
    /\ \A a \in DOMAIN mem : mem[a] \in 0..(2^XLEN - 1)
    /\ phase = "run" => elapsed < Max({Costs[class] : class \in DOMAIN Costs})
    /\ cycles \in 0..MAX_AUTO_CYCLES
    /\ streak \in 0..STABLE_WINDOW
    /\ LET words == {stages.id_ex.rs1_data, stages.id_ex.rs2_data, stages.ex_mem.alu_result,
                     stages.ex_mem.rs2_data, stages.mem_wb.mem_data}
       IN words \subseteq 0..(2^XLEN - 1)

Executes  == phase = "run" /\ ~Overlaps /\ LastCycle(Now)
SlotSize  == CASE job.isa = "riscv" -> RVC!SLOT_SIZE [] job.isa = "arm" -> ARMC!SLOT_SIZE
               [] job.isa = "x86" -> X86C!SLOT_SIZE

\* The settled machine holds what the source program means: the value main
\* returns, the values printed in order, and the globals.
ReturnReg == CASE job.isa = "riscv" -> RVC!a0 [] job.isa = "arm" -> ARMC!X0 [] job.isa = "x86" -> X86C!EAX
ResultsAgree ==
    phase = "settled" /\ IsSource =>
        /\ regs[ReturnReg] = Wrapped(meaning.result)
        /\ console = [k \in DOMAIN meaning.console |-> Wrapped(meaning.console[k])]
        /\ \A k \in DOMAIN meaning.globals :
              WordIn(mem, (k - 1) * SlotSize) = Wrapped(meaning.globals[k])

\* The oldest instruction that has not passed MEM.
OldestPC ==
    CASE stages.ex_mem.valid                           -> stages.ex_mem.pc
      [] ~stages.ex_mem.valid /\ stages.id_ex.valid    -> stages.id_ex.pc
      [] ~stages.ex_mem.valid /\ ~stages.id_ex.valid /\ stages.if_id.valid -> stages.if_id.pc
      [] OTHER                                         -> pc

\* The runner takes a quiet machine for a finished one (runner_v2.py:28): when
\* it stops, the program really is in its idle spin.
StableMeansHalted ==
    phase = "settled" =>
        LET c == Decoded(job.isa, image, OldestPC) IN c.jal /\ c.imm = 0

\* The models of an instruction set agree with its reference: stalls, forwarding,
\* squashed instructions and flags in flight change timing, never results.  Timing
\* stays between the cheapest and the dearest instruction for each one up to the
\* last that changed anything; in the pipeline a redirect costs three cycles, and
\* the last result needs four to be written back.
Cheapest(model) == IF model.kind = "pipeline" THEN 1 ELSE Min({model.costs[k] : k \in DOMAIN model.costs})
Dearest(model)  == IF model.kind = "pipeline" THEN 4 ELSE Max({model.costs[k] : k \in DOMAIN model.costs})
Drain(model)    == IF model.kind = "pipeline" THEN 4 ELSE 0
ModelsAgree ==
    \A r \in DOMAIN table :
        /\ ~table[r].diverges
        /\ table[r].completed /\ reference # NoReference =>
              /\ reference.cycles * Cheapest(job.models[r]) <= table[r].cycles
              /\ table[r].cycles <=
                    reference.cycles * Dearest(job.models[r]) + Drain(job.models[r])

\* A program is refused by exactly the backends that cannot run it, and where the
\* code refuses it.  The compiler turns away what its backend lacks, a frame beyond
\* x86's displacement or beyond the stack included (_check_frame, _slot_off).  A
\* frame beyond the immediate of the prologue or the epilogue on RISC-V and ARM, and
\* a conditional branch beyond RISC-V's reach, compile: the assembler refuses them,
\* and nothing else that was compiled.
Lacks == [riscv |-> {"stack"}, arm |-> {"shift", "half_stack"},
          x86 |-> {"calls", "shift", "slots"}]
OutOfReach == [riscv |-> {"imm12", "far"}, arm |-> {"imm24"}, x86 |-> {}]
RefusesOnlyUnsupported ==
    IsSource =>
        LET needs    == Needs[job.name]
            lacking  == needs \intersect (Lacks[job.isa] \union {"diagnosis"}) # {}
            tooLarge == needs \intersect OutOfReach[job.isa] # {}
        IN /\ lacking <=> phase = "error" /\ text = <<>>
           /\ phase = "error" /\ ~lacking => tooLarge
           /\ phase = "done" => ~tooLarge

\* A function returns to the instruction behind its call, with the frame pointer
\* of its caller, however deep the recursion.
FramesAreDisciplined ==
    [][Executes /\ Now.jalr =>
          /\ calls # <<>>
          /\ pc' = calls[Len(calls)].return_to
          /\ regs'[FrameReg] = calls[Len(calls)].frame]_vars

\* Compiled code stores only to its globals, the console word and frames in use:
\* never below the frame pointer, where the next call would overwrite it.
GlobalBytes == Len(meaning.globals) * SlotSize
StoresHitLiveMemory ==
    [][Executes /\ IsSource /\ Now.mem_write =>
          LET addr == Result(job.isa, Now, Machine)
          IN \/ addr < GlobalBytes
             \/ addr = RVC!PRINT_ADDR
             \/ /\ addr >= regs[FrameReg]
                /\ addr < (IF job.isa = "x86"
                            THEN X86C!X86_FRAME_BASE + X86C!MAX_SLOT_DISP + X86C!SLOT_SIZE
                            ELSE RVC!STACK_TOP)]_vars

\* Registers whose value the instruction uses, not merely names.
Uses(c) ==
    IF c.jal \/ c.branch \/ ~(c.reg_write \/ c.mem_write \/ c.sets_flags) THEN {}
    ELSE (IF c.alu_op = "PASS" THEN {} ELSE {c.rs1})
         \union (IF c.alu_src /\ ~c.mem_write THEN {} ELSE {c.rs2})

\* The x86 pipeline does not hold back the user of a word still being loaded
\* (hazard_detector.py:30), so compiled code never has one behind its load.
NoUseBehindLoad ==
    phase = "run" /\ job.isa = "x86" /\ IsSource => loaded \notin Uses(Now)

\* Relaxation converges and every program either is refused or settles before the
\* cap.
Completes == <>(\/ phase = "error"
                \/ phase = "done" /\ Completed /\ \A r \in DOMAIN table : table[r].completed)
=============================================================================
