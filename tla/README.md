# TLA+ models of the architecture simulator

The repository simulates small processors cycle by cycle: three instruction sets
(RISC-V, ARM, x86), each on several execution models (single cycle, multicycle,
five-stage pipeline, superscalar with two or more lanes, out of order), built from components
that are wired by port name and clocked together. Around the simulator stand
assemblers, a C compiler, an HTTP API and a browser front end.

The correctness statement of the whole is in the repository's README: every
execution model commits the registers and memory of the single-cycle machine.
That is a refinement, and it is what the machine modules of this project are
about. The second statement is about the way to such a machine: a Core-C program,
compiled and assembled for any of the three instruction sets and run until the
machine is quiet, has computed what the language says. That is `Toolchain`.

## Inventory

State is what `rising_edge` changes; operations are `evaluate` (combinational)
and `rising_edge` (the clock edge); components interact only through wires.

| Component | State | Operations | What makes it correct |
| --- | --- | --- | --- |
| Component framework (`component/`) | ports, wires, evaluation order | `CPU.tick`: settle in order, propagate, clock | every edge sees settled inputs of the same cycle |
| Datapath parts (`components/alu`, `branch`, `regfile`, `memory`, `writeback`, `isa/*/decoder_component.py`) | registers, memory | decode, ALU, branch resolution, read/write ports | arithmetic modulo the word size, zero register, precedence of redirects |
| Single-cycle machine | pc, registers, memory | one instruction per tick | it is the oracle |
| Pipeline (`components/pipeline`) | four stage registers | stall, flush, forward | the oracle's states, whatever overlaps |
| Predictors and BTB (`components/branch/predictors`) | counters, targets, history | predict, update | change timing, never results |
| Superscalar (`components/superscalar`) | stage registers by lane | group cutting, partial squash, multi-port memory | the oracle's states, a group at a time; no lane wasted |
| Multicycle, cycle budgets (`components/multicycle`) | phase, latches, counters | one phase per tick | each instruction writes once |
| Reorder buffer (`components/ooo/rob.py`) | entries, head, tail, count | dispatch, complete, commit, flush | a FIFO: commit order is program order |
| Reservation station (`components/ooo/reservation_station.py`) | slots, age counter | issue, snoop, select, flush | oldest runnable first, no lost wake-up |
| Register alias table (`components/ooo/rat.py`) | map register -> tag | lookup, allocate, free, flush | names the youngest in-flight writer |
| Out-of-order machine (`isa/*/presets/ooo.py`) | the three above, registers, memory, pc | one tick | the oracle's states, progress |
| ARM and x86 variants | flags, variable-length fetch | flags commit in order | the oracle's states |
| Runner (`runner_v2.py`) | streak, previous signature | tick until quiet | does not settle while the program lives |
| Assemblers (`assembler/`) | label table, long branches | pass 1, relaxation, pass 2 | labels resolve to final addresses; decoding an encoded line gives it back |
| Compiler (`compiler/codegen`) | slots, temporaries, labels, loops, runtime routines needed | dry run, emission, x86 peephole | the machine computes what the source means; frames do not overlap |
| Compiler front (`lexer.py`, `parser.py`), harness | tokens, constants / none | parse, dispatch | |
| API (`api/app.py`) | none between requests; one comparison's reference and rows | handlers | rows are comparable, settle points exact |
| UI | displayed topology, cycle cursor, timer | handlers, playback | the last answer shown is the last asked |

Hard behaviours: many components change on one edge and each must have read the
state before it; instructions complete out of order, are renamed, woken by
broadcasts and squashed; fixed-size tables fill up; stalls, redirects and
predictions compete for the program counter. `PROJECT.json` lists the hazards
at their lines.

## Modules

| Module | Models | Notes |
| --- | --- | --- |
| `Datapath` | decoder, ALU, branch unit, register file, memories, write-back | operators only; `Step` composes them into one instruction, the step of `SingleCycle` |
| `SingleCycle` | `presets/single_cycle.py` | the oracle, one action `Tick` |
| `CommitQueue` | what `rob.py` promises | abstract bounded FIFO |
| `ReorderBuffer` | `rob.py` | implements `CommitQueue` |
| `IssueEntry` | entries of `reservation_station.py` | snooping, load ordering |
| `IssueQueue` | what the station promises | abstract list, oldest runnable leaves |
| `ReservationStation` | `reservation_station.py` | slots and age stamps, implements `IssueQueue` |
| `RegisterAliasTable` | `rat.py` | composed in `OutOfOrder` |
| `OutOfOrder` | `presets/ooo.py` | composes the three tables with the datapath, implements `SingleCycle` |
| `PipelineEntries` | `pipeline/registers.py`, `wide_pipeline_regs.py` | what a cleared stage register drives |
| `Pipeline` | `presets/pipeline.py`, `components/pipeline`, the BTB of `predictors/base.py` | implements `SingleCycle`; predictor direction left open |
| `Superscalar` | `presets/superscalar.py`, `components/superscalar` | any number of lanes; a group is several steps of `SingleCycle` |
| `Multicycle` | `presets/multicycle.py`, `controller.py` | one action per phase, implements `SingleCycle` |
| `CycleBudget` | `presets/single_cycle.py` with costs (`presets/configurable.py`), `budget_controller.py` | commit or hold, implements `SingleCycle` |
| `FetchDecodeExecute` | `presets/configurable.py` | the two above clocked together |
| `AST` | `compiler/ast.py` | syntax trees as records |
| `Emission` | `CodeGenBase`, `FunctionContext` of `codegen/base.py` | what is carried from line to line |
| `CodeGen` | `codegen/base.py` | the walk over the tree; the backend's `emit_` primitives are constant operators |
| `RISCVCodeGen`, `ARMCodeGen`, `X86CodeGen` | `codegen/<isa>.py` | the primitives, runtime routines, x86 peephole; each instantiates `CodeGen` |
| `CSemantics` | the language the compiler's docs and tests describe | reference meaning of a program, by evaluation of its tree |
| `Encoding` | `assembler/base.py` | lines, ranges, words of fields |
| `RISCVEncoding`, `ARMEncoding`, `X86Encoding` | `assembler/<isa>.py`, `isa/<isa>/decoder_component.py` | encoder and decoder, bit by bit, side by side |
| `Assembler` | `assembler/base.py`, `assembler/x86.py` | the two passes and the relaxation between them, as actions |
| `Processor` | `isa/<isa>/presets/single_cycle.py` with fetch, flags, branch unit, memories | the machine on assembled words and bytes, over `Datapath` |
| `PipelinedProcessor` | `isa/<isa>/presets/pipeline.py` without a predictor, with `components/pipeline` and the flags in flight | five stages over `Processor`, all three instruction sets |
| `Toolchain` | `api/app.py` `/compare`, `runner_v2.py`, `budget_controller.py` | composes all of the above: assemble, relax, build, tick, report |
| `Datapath_proofs` | | lemmas about `Datapath` and `PipelineEntries`: ranges, classes of control signals, bubbles |
| `<module>_proofs` | | theorems about `ReorderBuffer`, `ReservationStation`, `FetchDecodeExecute`, `Pipeline`, `Superscalar`, `OutOfOrder`, `Assembler` |
| `MC_*` | | instances for TLC |

**How a tick becomes an action.** `CPU.tick` evaluates every component in a
fixed order, propagates all wires once more and then calls every `rising_edge`.
No component writes a state another one reads between those edges, so the
combinational phase is a set of operators over the unprimed state and the edge
is one action. A component module exports its edge as an action with the input
ports as parameters (`ROB!RisingEdge(d, c)`), and a machine conjoins the edges
with the outputs of the others as arguments, which is what the wires do. An
undriven port is `NoInput`. A port wired to nothing keeps 0 (so
`complete_branch_taken` in the out-of-order machine is always `FALSE`).

**Data.** A word is a number modulo `2^XLEN`; an instruction is a record of its
fields, decoded by the model of the decoder. Bit-level extraction of fields is
left out, but the decoder drives `rd`, `rs1` and `rs2` for every opcode, so the
constructors keep that an immediate shows up on unused register ports: it is
what creates false dependencies.

In the tool chain an instruction is what the assembler makes of it: a 32-bit word
or its bytes, which the model of the decoder takes apart again. A line of
assembly is a record of mnemonic, operand form, register numbers, immediate and
label; a label is a name with the number `new_label` gave it. Memory is the
words ever written.

**The tool chain.** A job is what one instruction set contributes to a request:
a program, or an assembly text, and the execution models to compare: the
pipeline, or the configurable machine with its cycle costs. `Init` compiles; `Place` is pass 1, `Relax` makes the branches that
do not fit long and goes back, `Encode` is pass 2; `Build` makes a machine;
`Tick` and `Hold` are clock cycles of a machine whose `CycleBudgetController`
commits or holds, `Clock` is a cycle of the pipeline, each with the runner's watch
on the state after it; `Report` closes a row. The reference run is row 0, the
single-cycle machine, whose architectural state and cycles the other rows are
compared with. One compilation is
one operator, because nothing else happens while it runs; one pass, one cycle
and one row are steps, because the properties look in between. Compiled program,
symbol table and image are variables, so a machine never depends on anything but
the image.

**Build parameters.** What `build` fixes for the life of a machine, the prediction
stage of the pipeline and the number of lanes, is a variable that `Init` chooses
and no step changes. `Programs` is then a function from that parameter to the
programs run under it.

**Committed state.** A refinement to `SingleCycle` maps its `pc` to the address
of the oldest instruction in flight, and its registers and memory to what is
written up to there: in the pipelines the result on its way through MEM/WB
counts as written, in the out-of-order machine the register file itself does.
The superscalar machine commits a group at once, so `CommitsInOrder` says that
each of its steps is as many oracle steps as lanes leave EX/MEM valid.

## Runs

| Run | Instance | Shows |
| --- | --- | --- |
| `reorder_buffer` | 3 slots, 3 kinds of op, 2 values, every input each cycle | types, one window, FIFO refinement |
| `reservation_station` | 3 slots, 2 tags, 5 stamps, every input | slots with stamps are a list |
| `out_of_order` | 8 + 4 entries as in the code; all 4-instruction programs over 7 instructions with memory operands and over 6 with branches, all 6-instruction ones of store, load, accumulate | oracle refinement, youngest-writer renaming, no lost instruction or wake-up, room at every dispatch and no renaming to a spent result (the hypotheses of the proofs), stores commit, the machine keeps committing |
| `pipeline` | prediction in ID and IF, 4 BTB entries; all 4-instruction programs over 5 instructions, 3-instruction ones over 8 or 9 | oracle refinement under every predictor, bubbles are inert, a stall lasts one cycle |
| `multicycle` | all 3-instruction programs over 7 instructions, 4 cost profiles | oracle refinement of both machines, lockstep under the classic profile, both keep committing |
| `superscalar` | 2 lanes, 4 instructions out of 7 (5 independent ones out of 4); 4 lanes, 5 instructions out of 5 | groups commit in order, keep committing, at full rate when independent |
| `toolchain` | 41 Core-C programs for three instruction sets, eleven of them with the largest frames and branches each backend takes and the smallest it refuses, single-cycle and pipelined, some of them also configurable with costs; 216 texts of three dependent instructions each for ARM and x86, pipelined; 36 x86 texts whose branches lie 120 to 135 bytes away | compiled code computes what `CSemantics` says (result, console, globals), a program is refused by exactly the backends that cannot run it, by the compiler or, for frames and branches beyond an immediate of RISC-V or ARM, by the assembler only, frames and stores are disciplined, the x86 code never uses a word still being loaded, layout and image agree, branches reach their labels, relaxation converges and lengthens nothing needlessly, the configurable machines and the pipelines agree with the reference, within their costs and within the stalls and redirects of the code, a settled program has ended, everything completes |
| `toolchain_costs` | a branch cost of 64 | **violation**: the program is declared finished in its first loop |
| `toolchain_flags` | an ARM and an x86 text that test flags where two paths join | **violation**: the pipeline tests the flags of an instruction it squashed |
| `ooo_orphan` | 13 instructions, 7 of them free | **violation**: an operand renamed to a result already broadcast waits until the tag is reused and takes the wrong value |
| `ooo_overflow` | 12 instructions | **violation**: instruction dropped by a full station blocks the head |
| `pipeline_indirect` | prediction in IF, an indirect jump in a loop | **violation**: a wrong target with the right direction goes unnoticed |

Bounds. The out-of-order runs keep the code's table sizes. Programs are bounded
in length and instruction set, not in execution: each ends in the idle spin
compiled programs return into (two of them, because a branch may skip one), so a
run covers the whole infinite behaviour of each program. A word has five bits
(six in `ooo_orphan`): addresses reach eight instructions, values wrap, comparisons change sign. Four
instructions over three dependent registers and two memory words already produce
every pair of producer and consumer, older and younger store, taken and untaken
branch; three fill EX, MEM and WB with a chain and a fourth is squashed or held;
the orphan needs seven
instructions and six more that reuse its tag, the overflow twelve. The four BTB entries
alias among eight words. The reorder buffer run has three slots so that the
window wraps with head, tail and middle distinct. Five age stamps fill the three
slots and reuse two of them, which is where slot order and age order part.

The tool chain runs with words of 16 bits where the code has 32: comparison
by subtraction, wrapping and the extremes of a word happen as with 32, and the
multiplication and division routines, whose loops grow with their operands, end
within the cap. Instruction words keep 32 bits. `WORD_BITS` is the width at which
the runtime routines and immediates are cut, equal to `XLEN`. Addresses reach
65532 as in the code (`STACK_TOP`), so frames, globals and the console word lie
where they lie there. The cap is the code's 10000 cycles (`MAX_AUTO_CYCLES`), the
window its 64. The programs use, between them, every statement and operator:
nested loops left and continued early, operands that are skipped, right-nested
expressions (temporaries), recursion, mutual recursion, calls as arguments of
calls with eight arguments, globals, arrays, pointers into the frame of a caller,
and arithmetic on both sides of every edge of the word. 122 to 127 NOPs between
two branches put each on either side of the limit of its short form, alone and
through the other's growth; both directions are tried. The texts of three
instructions take each place from loads, stores, arithmetic, comparisons and
branches over the same registers, so every pair of producer and consumer meets at
distance one and two. A pipelined row may take at most four cycles per instruction
of the reference and four to fill: a stall costs one cycle, a redirect three. The
cycle counts of the model equal the code's where both were run (recursive
Fibonacci: 228 and 335 on RISC-V, 249 and 383 on ARM). Each program is one
execution: what is explored is the product of programs, instruction sets and
costs, not interleavings.

Excluded programs. Some instructions are kept out of the passing runs because
the code departs from the single-cycle machine on them; the violation runs show
them: an indirect jump under prediction in IF (`pipeline_indirect`), and the programs long enough for `ooo_orphan` and
`ooo_overflow`. A linking jump under prediction in IF is kept out for the reason
given under the disagreements. The ARM and x86 texts of `toolchain` load no
register 0 and test no flags where two paths join (`toolchain_flags`). A jump that keeps its return address commits the ALU result on
the out-of-order machine (`presets/ooo.py:168`); `tests/test_api_compile.py:193`
calls that a known limit, so `out_of_order` has jumps without a link register
only. In `superscalar` nothing branches back from address 0: a group that starts
below the end of the address space does not wrap around it
(`wide_imem.py:30`), the single-cycle fetch does; an `ASSUME` of `MC_Superscalar` has
TLC check that no program of the run gets to the last word.
`alu_edge` (comparison of -32768 with 1) and the divisions whose repeated
subtraction would pass the cap run on RISC-V only; see the disagreements.

Fairness. `Spec` of each machine has weak fairness of its clock edge: the runner
calls `CPU.tick` in a loop without condition (`runner_v2.py`), so the clock does
not stop before the requested number of cycles. `Toolchain` has weak fairness of
its next-state relation, because one thread runs a request to its end. Nothing
else is assumed; what a
predictor answers is free in every cycle, and component specifications have no
fairness.

## Proofs

TLC checks the instances above. The theorems below hold for every value of the
constants: every program, width of a word, number of registers, memory, table
size and, where there is one, every answer of the predictor.

| Module | Theorem | Statement |
| --- | --- | --- |
| `ReorderBuffer_proofs` | `TypeCorrect`, `WindowCorrect` | `Spec => []TypeOK`, `Spec => []WindowInv` |
| | `CommitsInOrder` | `Spec => ImplementsCommitQueue` |
| `ReservationStation_proofs` | `TypeCorrect` | `Spec => []TypeOK` |
| | `KeepsIssueOrder` | `Spec => ImplementsIssueQueue` |
| `FetchDecodeExecute_proofs` | `TypeCorrect`, `LockstepCorrect` | `Spec => []TypeOK`, `Spec => []InLockstep` |
| | `MulticycleRefines`, `BudgetRefines` | each machine implements `SingleCycle` |
| `Pipeline_proofs` | `TypeCorrect`, `SquashesCompletely` | `Spec => []TypeOK`, `Spec => []OnlyValidInstructionsWrite` |
| | `NeverStallsTwice` | `Spec => StallsOnce` |
| | `Refines` | `TargetsFixed => (Spec => ImplementsOracle)` |
| `Superscalar_proofs` | `TypeCorrect` | `Spec => []TypeOK` |
| | `GroupsCommitInOrder`, `CommitsUnlessWrapped` | `CommitsInOrder` in every step of a group fetched in place; in behaviours that have no others |
| | `CommitsBelowTheEnd` | `BelowTheEnd => (Spec => CommitsInOrder)` |
| | `RunsAtFullRate`, `FullRateBelowTheEnd` | `Spec /\ []FreeBelowTheEnd => FullRate`; `BelowTheEnd => (Spec => FullRate)` |
| `OutOfOrder_proofs` | `TypeCorrect` | `Spec => []TypeOK` |
| | `AliasCorrect`, `StationCorrect` | `Spec /\ []RoomAtDispatch => []AliasIsYoungestWriter`, `=> []StationHoldsUnexecuted` |
| | `OperandsCorrect` | the same with `[]RenamesToUnexecuted`, `=> []OperandsHaveProducers` |
| | `Refines` | for programs that link nothing, the same `=> ImplementsOracle` |
| | `NeverOverruns`, `NeverOrphans`, `RefinesInOrder` | for programs with no load directly behind a store the two conditions hold, and the machine implements `SingleCycle` |
| | `BlocksNeverOverrun`, `BlocksKeepOrder` | for programs whose stretches between branches fit the structures, `Spec => []RoomAtDispatch` and what follows from it |
| `Assembler_proofs` | `PassesAgree` | `AssemblerSpec => []LayoutMatchesImage` |
| | `NoneIsLongInVain`, `FewestLongBranches` | `AssemblerSpec => []LongOnlyWhenNeeded`; the long branches are the least set that suffices |
| | `BranchesAreRight` | `AssemblerSpec => [](Spanned => BranchesReachTheirLabels)` |

`ImplementsOracle` is the safety half of the refinement, `Init /\ [][Next]_vars` of
`SingleCycle` on the committed state; the other half, its fairness, is
`KeepsCommitting` (`BothKeepCommitting`), which TLC checks.

**Assumptions.** `DatapathAssumption`: at least one register, a word of three bits
or more (an address must reach the next instruction and wrap), some memory.
`PowersOfTwo` is arithmetic: exponentiation is opaque to the provers, and TLC
evaluates the assumption for the widths of the runs. The others say that sizes are
positive, programs consist of instructions and markers like `NoInput` are no
data. `PipelineAssumption` also has `ZERO_REG = 0`: the hazard detector looks for
register 0 (`hazard_detector.py:30`), so elsewhere the pipeline is wrong (see the
disagreements). `SuperscalarAssumption` has it because a bubble decodes to an
instruction that reads and writes register 0, which must not count as a dependency.

**Datapath.** Every operand, result and address is a word (`AluType`,
`NextPCType`, ...). The bitwise operations are one recursive function, `BitAnd`.
That such a function exists and meets its equation is shown by building it up from
small operands (`BitAndDefined`); induction is the well-foundedness of the numbers
(`LeastElement`, `NatByInduction`), applied to a set, because the library's induction theorems take
an operator.

**Reorder buffer.** `WindowInv`: tail is head plus count modulo the size and a slot
is valid exactly when it is among the count slots from head. With `TypeOK` it is
inductive; the lemmas unfold the modulus into a case distinction (`WrapSum`,
`WrapDifference`, `DistanceIs`). The FIFO is then the window read from head.

**Reservation station.** The list is the occupied slots ordered by stamp. What is
needed besides types is `StampInv`, that occupied slots carry distinct stamps below
`age_counter`: a slot's place in the list is the number of older ones, so removing
one slot and stamping another is removing and appending an element.

**Multicycle and cycle budgets.** `MInv` says for each phase what the latches hold:
the instruction at `pc_latch`, its control and operands, its result. `Synchronous`
ties the two machines together: under the classic costs their states are equal and
the elapsed cycles are the number of the phase.

**Pipeline.** Four invariants, none inductive alone. `PathInv`: each stage holds
the instruction its predecessor predicts. `PredictionInv`: only direct jumps and
branches are predicted, in ID with nothing behind them. `DataInv`: what was read in
ID is what the register file holds a cycle later, what left EX was computed from
the committed registers, and nothing directly behind a load uses what it loads.
`BtbInv`: the buffer holds targets that never change. `TargetsFixed` says that
programs predicted in IF have no indirect jump and no jump that keeps its return
address: on the former the machine fails (`pipeline_indirect`), the latter is
under the disagreements. Prediction in ID needs no hypothesis.

**Out of order.** `RoomAtDispatch` (an instruction is only dispatched when buffer and
station have room) and `RenamesToUnexecuted` (no source is renamed to a result
that was already broadcast) are not invariants of the machine: they fail in
`ooo_overflow` and `ooo_orphan`, and the code has no check that would keep them. The
theorems are about the behaviours in which they hold, and say that these are the only
two ways to go wrong. The `out_of_order` run checks both as invariants of its programs,
and two theorems discharge them for classes of programs. `NeverOverruns` and
`NeverOrphans`: only a load that waits for an older store is ever overtaken, and the
store has left when the second instruction behind it could execute. Without a load
directly behind a store the machine holds one instruction in the station and one
about to commit (`Flows`), however loads and stores are mixed otherwise.
`BlocksNeverOverrun`: a branch resolves at the head of an empty buffer, so what is in
flight was dispatched since the last one; `Ranks` bounds that by a rank that grows
along every path, and programs whose longest such stretch fits buffer and station
have room at every dispatch (`Bounded`). They may still rename to a spent result:
`ooo_orphan` is such a program.
The invariant under them is `DataInv`: aliases and station agree with program order
(`Healthy`), each entry describes the instruction at its address (`Described`),
each operand is its committed value, its producer's value or waits for a producer
that has yet to broadcast (`StationRight`), and each finished entry holds what its
instruction computes in program order (`ResultsRight`); `PathRight` says that the
entries are the instructions of one path to `pc`. `LinksNothing` excludes jumps that
keep their return address, which commit the ALU's result (`presets/ooo.py:168`), and
indirect jumps, whose operand is read without waiting for it
(`branch/unit.py:72`).

**Superscalar.** The invariants are those of the pipeline, by lane. `TypeInv` also
says that lanes without an instruction have no effect. `PathInv`: a group in ID is
whole; one that was issued has no gap, needs nothing of itself, has a jump only
alone in its first lane (`Issues`, which is what the cut is for, `Cut`), and goes
on where the last instruction's prediction leads, although the program counter had
moved on by a whole group. `DataInv`: operands are those of the registers behind the
older groups. When a group leaves EX/MEM, `LaneCommits` shows lane by lane that
registers, memory and program counter behind n + 1 lanes are the single-cycle
machine's step from those behind n; `Ahead`, a recursive function, is then evaluated
by induction over the lanes (`AheadIs`). `FetchedInPlace` is the hypothesis of these
steps: the index of a later lane does not wrap around the address space
(`wide_imem.py:30`) while the program counter does, so a group across the end is not
what the single-cycle machine executes. `BelowTheEnd` discharges it from the programs
alone: with each of them, the single-cycle machine running from reset never executes the
last word of the address space (`StaysBelow`: some set of states holds the one at reset,
is closed under `Step` and has no program counter there). The invariant `OnPath` keeps
the committed state in that set; lane by lane `LanesOnPath` finds each lane's state in
it as well, hence its address and the next below the end, hence the lane fetched in
place. Groups on a wrong path may still reach over the end; they do not commit. In the
same way `FreeOnPath` discharges `FreeBelowTheEnd`, the counterpart for `FullRate`: two
independent groups in a row do not reach over the end, because the single-cycle machine
would go through them. That the programs of the `superscalar` run meet the hypothesis is
an `ASSUME` of `MC_Superscalar` (`ProgramsStayBelow`), which TLC evaluates by running
each of them on `Step` until a state repeats. `RateInv` says that
independent groups are issued whole with their successor right behind them.

**Assembler.** `AssemblerSpec` is pass 1, relaxation and pass 2 on any text of any of
the three instruction sets. Its actions are the ones `Toolchain` takes in `Assemble`,
and its hypothesis on the lines, `WellFormed`, is a conjunct of `Toolchain`'s `TypeOK`,
so the run shows that every text the compiler makes meets it. `Toolchain` itself is out of
the provers' reach because it composes the recursive code generator. The invariants:
`Loaded` (the text stays what it was), `Relaxed` (each long line was found too far at a moment when
some of the others were long and it was not; the layout is pass 1's for the present ones)
and `Imaged` (the image is what pass 2 writes from the layout).
`Bytes` sums by halves; `BytesAreDifferences` turns it into a running sum, `Before`,
and `BetweenGrows` says that distances only grow as branches do. From that a branch
that did not fit once never fits again with its neighbours longer (`StaysTooFar`), which
makes the final set the least fixed point (`FewestLongBranches`), and, its own growth not
counted, leaves none long in vain. For `PassesAgree` each encoder is taken apart by
mnemonic and form (`X86Emits`, `RISCVEmits`, `ARMEmits`): what it emits is as long as
the estimate, and the decoder, whose cases must be shown exclusive
(`X86DecodeIs`), steps by as many bytes; `FlattenIs` finds each line's bytes in the
image at the offset pass 1 gave it.
For `BranchesAreRight` the encoders are read backwards: a packed word is a recursive
function of its fields (`PackIs`), shifting and masking divide it (`ShiftedBack`,
`FieldAt`, `Above`), and each format's displacement comes out as it went in
(`RISCVBranchIs`, `ARMBCondIs`, `X86BranchIs`, ...); `ARMClass` shows from the top eight
bits that the decoder takes the class the encoder meant. `Spanned` is the one hypothesis.
RISC-V refuses a displacement that its field cannot hold. ARM masks that of `B.cond` and
`CBZ` to 19 bits (`src/sim/assembler/arm.py`) and x86 writes 32, neither with a check, so
beyond 2^18 lines of ARM or 2^28 of x86 a branch may lead elsewhere; up to there it
cannot. The programs of `Toolchain` are far shorter.

Only model-checked: liveness (`KeepsCommitting`, `BothKeepCommitting`, `StoresCommit`,
`Completes`), which is beyond TLAPS, as is `ENABLED`; and what the tool chain promises
beyond its assembler, because the modules of the compiler and of `CSemantics`, which
`Toolchain` composes, walk over trees and lines with recursive operators, which the
provers cannot use.

## Disagreements met on the way

Beside those the violation runs show, reading the code against its comments and
the instance against `CSemantics` turned up these; the programs of the passing
runs avoid them, and each is a place a change of the code should come back to.

- `components/branch/unit.py:57` takes `a < b` for `signed(a - b) < 0`. When the
  subtraction overflows the comparison is wrong on ARM and x86; RISC-V uses `SLT`.
- `codegen/base.py:294`: initialisers of globals are generated inside `main`, so
  one whose name `main` also declares is stored to the local.
- Division on ARM and x86 subtracts the divisor until the rest is smaller, by
  absolute values: the smallest integer, which has none, leaves at once.
- `codegen/riscv.py:316` says a division by zero leaves the dividend as the
  remainder; the routine leaves 0 (`:371`), as on ARM and x86.
- `codegen/riscv.py:55` speaks of an emitted guard against deep recursion; none is
  emitted, and `codegen/base.py:16` says so. The recursion of the runs is shallow.
- RISC-V and ARM frames beyond an immediate compile, up to the limit of the stack, and
  are refused only by the assembler (from 512 slots on, on ARM from 513 except at
  multiples of 4096 bytes), and so is a conditional branch on RISC-V over more than
  4096 bytes. `RefusesOnlyUnsupported` says so, with programs on both sides of each limit.
- `codegen/base.py:561`: `x++` and compound assignments generate the target two
  or three times, so a call in it is made as often.
- A program that stores the same values for a whole window of cycles (33 equal
  stores of two cycles each) is declared finished; compiled loops change a counter.
- A run that settles in the very last cycle of the cap is reported unfinished by
  `/compare`.
- `hazard_detector.py:30` never holds back an instruction behind a load into
  register 0, which is an ordinary register on ARM and x86: the pipeline computes
  with the loaded address instead. `codegen/x86.py:70` knows of a case on x86 and
  says that RISC-V and ARM pipelines forward correctly.
- `forwarding_unit.py:59` forwards the ALU result of a linking jump, not the
  return address. Only prediction in IF brings the first instruction of the
  callee close enough behind its jump to see it.
- In the single-cycle ARM machine `CBZ` and `CBNZ` overwrite the latched flags.
- x86 `RET` jumps to the address in ESP; no compiled program has one.

## Plan

Done: the tables of the out-of-order machine, the out-of-order machine,
pipeline, superscalar, multicycle and configurable machine, all for RISC-V, each
against `SingleCycle`; code generator, assemblers, decoders, single-cycle,
configurable and pipelined machine (without a predictor) of all three instruction
sets, runner and comparison, in `Toolchain`. Next, in order:

1. ARM and x86 on the out-of-order and superscalar machines: the in-order commit
   of condition flags (`committed_flags.py`, `branch_flag_mux.py`), as further
   models of a `Toolchain` job.
2. ARM and x86 pipelines with prediction, the predictor answering freely as in
   `Pipeline`; then the predictor tables (`bimodal.py`, `gshare.py`): counters
   saturate, history follows resolved branches only.
3. Component framework (settle order); UI state machine; parser.
4. Proofs: counter bounds of the predictors, once they are modelled; programs that
   keep return addresses on a pipeline with prediction in IF stay open until
   `forwarding_unit.py:59` is settled.

## Not modelled

Lexer and parser: a program is its syntax tree. The splitting of assembly lines
into operands and the spelling of registers and numbers: a line is a record.
Source maps, symbol tables for display and the other API handlers carry no state
from one step to the next. The harness is a library and a command line around
the same calls. Cheat sheets, UI drawing, topology export and `get_state` snapshots carry no
control state. The legacy simulator (`sim/cpu.py`, `sim/execution`, `sim/core`
except `signals.py`) is superseded by the component framework. `appctl.py` only
starts and stops a process.
