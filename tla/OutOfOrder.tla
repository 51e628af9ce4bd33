----------------------------- MODULE OutOfOrder -----------------------------
(***************************************************************************)
(* The out-of-order RISC-V machine (src/sim/isa/riscv/presets/ooo.py): the  *)
(* reorder buffer, the register alias table and the reservation station     *)
(* wired to one ALU, the register file and the data memory.                 *)
(*                                                                          *)
(* CPU.tick first settles the combinational outputs in evaluation order and *)
(* then clocks every component with them, so one cycle is one action: Tick  *)
(* conjoins the clock edges of the components, all reading the outputs that *)
(* the definitions below compute from the state before the edge.            *)
(***************************************************************************)
EXTENDS Datapath, Sequences

CONSTANTS Programs,  \* functions from word index to instruction
          ROB_SIZE,  \* 8 in the code
          RS_SIZE,   \* 4 in the code
          NoTag,     \* alias of a register without an in-flight writer
          NoInput    \* a port that is not driven this cycle

VARIABLES program,   \* InstructionMemory._program
          pc,        \* SimpleFetch._pc
          regs,      \* StandardRegisterFile.regs
          mem,       \* DataMemory._mem
          entries, head, tail, count,   \* ReorderBuffer
          alias,     \* RegisterAliasTable._map
          waiting    \* ReservationStation, in issue order
rob_vars == <<entries, head, tail, count>>
vars == <<program, pc, regs, mem, entries, head, tail, count, alias, waiting>>

\* What dispatch writes into a reorder buffer entry.
Descriptor == [rd : Reg, pc : Word, is_branch : BOOLEAN, is_load : BOOLEAN,
               is_store : BOOLEAN, store_data_reg : Reg, reg_write : BOOLEAN]
NoDescriptor == [rd |-> 0, pc |-> 0, is_branch |-> FALSE, is_load |-> FALSE,
                 is_store |-> FALSE, store_data_reg |-> 0, reg_write |-> FALSE]

\* What issue writes into a reservation station entry besides its operands.
IssueOps == [alu_op : AluOp, imm : Word, alu_src : BOOLEAN, is_load : BOOLEAN]

ROB == INSTANCE ReorderBuffer WITH Ops <- Descriptor, NoOp <- NoDescriptor,
                                   Values <- Word, Zero <- 0
RAT == INSTANCE RegisterAliasTable WITH Regs <- Reg, Tags <- 0..(ROB_SIZE - 1),
                                        ZeroReg <- ZERO_REG
RS  == INSTANCE IssueQueue WITH Values <- Word, Issues <- {}

ASSUME OutOfOrderAssumption ==
    /\ ROB_SIZE \in Nat \ {0}
    /\ RS_SIZE \in Nat \ {0}
    /\ \A p \in Programs : \A w \in DOMAIN p : p[w] \in Instruction
    /\ NoTag \notin 0..(ROB_SIZE - 1)
    /\ NoInput \notin Descriptor \cup RS!Pending \cup RS!Broadcast \cup ROB!Completion
                         \cup [rd : Reg, tag : 0..(ROB_SIZE - 1)]

TypeOK ==
    /\ pc \in Word
    /\ regs \in [Reg -> Word]
    /\ mem \in [0..(MEM_WORDS - 1) -> Word]
    /\ ROB!TypeOK
    /\ RAT!TypeOK
    /\ RS!TypeOK

Init ==
    /\ program \in Programs
    /\ pc = 0
    /\ regs = InitialRegs
    /\ mem = InitialMem
    /\ ROB!Init
    /\ RAT!Init
    /\ RS!Init

-----------------------------------------------------------------------------
(* Fetch and decode.                                                        *)

Current  == Decode(Fetched(program, pc))
Dispatch == Current.reg_write \/ Current.mem_write      \* dispatch_gate

-----------------------------------------------------------------------------
(* Commit: the head of the reorder buffer, if it is ready.                  *)

Retiring   == entries[head]
CommitsReg == ROB!commit_en /\ Retiring.op.reg_write
CommitsMem == ROB!commit_en /\ Retiring.op.is_store
Commit     == IF CommitsReg THEN [rd |-> Retiring.op.rd, tag |-> head] ELSE NoInput

\* A register read port; a value committed this cycle is written through.
Read(r) ==
    IF CommitsReg /\ r = Retiring.op.rd /\ r # ZERO_REG
    THEN Retiring.value
    ELSE RegRead(regs, r)

-----------------------------------------------------------------------------
(* Execute: the oldest runnable instruction of the reservation station.     *)

Sel    == RS!Selected(ROB!store_pending_mask, head)
Exec   == waiting[Sel]
\* Mutant: a difference that is not cut to the width of a word.
Unmasked == IF Exec.op.alu_op = "SUB" THEN Exec.src1.val - Exec.src2.val
            ELSE Alu(Exec.op.alu_op, Exec.src1.val,
                     IF Exec.op.alu_src THEN Exec.op.imm ELSE Exec.src2.val)
Result == Alu(Exec.op.alu_op, Exec.src1.val,
              IF Exec.op.alu_src THEN Exec.op.imm ELSE Exec.src2.val)
Loaded == mem[MemIndex(Result)]

Cdb == IF Sel = 0 THEN NoInput
       ELSE [tag   |-> Exec.rob_tag,
             value |-> IF Exec.op.is_load THEN Loaded ELSE Result]

\* Mutant: the load unit does not report to the reorder buffer.
CompleteNoLoad == IF Sel = 0 \/ Exec.op.is_load THEN NoInput
                  ELSE [tag |-> Exec.rob_tag, value |-> Result, mem_value |-> Loaded,
                        branch_taken |-> FALSE]

\* complete_branch_taken is left unwired, its port stays 0.
Complete == IF Sel = 0 THEN NoInput
            ELSE [tag |-> Exec.rob_tag, value |-> Result, mem_value |-> Loaded,
                  branch_taken |-> FALSE]

-----------------------------------------------------------------------------
(* Rename and issue.                                                        *)

Source(r) ==
    LET t == RAT!Lookup(r, Commit)
    IN [ready |-> t = NoTag, tag |-> IF t = NoTag THEN 0 ELSE t, val |-> Read(r)]

\* pc_src: a PC-relative instruction takes the PC in place of rs1.
FirstSource ==
    IF Current.use_pc THEN [ready |-> TRUE, tag |-> 0, val |-> pc] ELSE Source(Current.rs1)

DispatchOp ==
    IF Dispatch
    THEN [rd |-> Current.rd, pc |-> pc, is_branch |-> Current.branch,
          is_load |-> Current.mem_read, is_store |-> Current.mem_write,
          store_data_reg |-> Current.rs2, reg_write |-> Current.reg_write]
    ELSE NoInput

\* rs2 is looked up even by an instruction that uses an immediate.
Issue ==
    IF Dispatch
    THEN [op |-> [alu_op |-> Current.alu_op, imm |-> Current.imm,
                  alu_src |-> Current.alu_src, is_load |-> Current.mem_read],
          src1 |-> FirstSource, src2 |-> Source(Current.rs2), rob_tag |-> ROB!dispatch_tag]
    ELSE NoInput

\* The alias table allocates for every register write, room in the buffer or not.
Alloc == IF Current.reg_write THEN [rd |-> Current.rd, tag |-> ROB!dispatch_tag] ELSE NoInput

-----------------------------------------------------------------------------
(* Branches: held, and fetch with them, until the reorder buffer is empty;  *)
(* jumps redirect at once.                                                  *)

NeverStalled == FALSE   \* mutant: branches resolve at once
Stalled == Current.branch /\ ~ROB!empty

BranchResult ==
    Alu(Current.alu_op, IF Current.use_pc THEN pc ELSE Read(Current.rs1),
        IF Current.alu_src THEN Current.imm ELSE Read(Current.rs2))

-----------------------------------------------------------------------------
(* One clock cycle.                                                         *)

Tick ==
    /\ ROB!RisingEdge(DispatchOp, Complete)
    /\ IF ROB!flush
       THEN RAT!Flush /\ RS!Flush
       ELSE RAT!Advance(Commit, Alloc) /\ RS!Advance(Sel, Cdb, Issue)
    /\ regs' = RegWrite(regs, CommitsReg, Retiring.op.rd, Retiring.value)
    /\ mem' = MemWrite(mem, CommitsMem, Retiring.value, Read(Retiring.op.store_data_reg))
    /\ pc' = IF Stalled THEN pc ELSE NextPC(Current, pc, Read(Current.rs1), BranchResult)
    /\ UNCHANGED program

Next == Tick

\* The runner calls CPU.tick in a loop: the clock does not stop.
Spec == Init /\ [][Next]_vars /\ WF_vars(Next)

-----------------------------------------------------------------------------
(* Properties.                                                              *)

Slot == 0..(ROB_SIZE - 1)
Position(s) == ROB!Position(s)
InFlight == {s \in Slot : entries[s].valid}
Writes(s, r) == entries[s].valid /\ entries[s].op.reg_write /\ entries[s].op.rd = r

\* A register's alias names its youngest in-flight writer, and a register
\* without alias has none: what a dispatched instruction waits for is the value
\* program order gives it.  (rat.py: commit clears only its own tag.)
AliasIsYoungestWriter ==
    \A r \in Reg \ {ZERO_REG} :
        LET writers == {s \in Slot : Writes(s, r)}
        IN IF alias[r] = NoTag
           THEN writers = {}
           ELSE /\ alias[r] \in writers
                /\ \A s \in writers : Position(s) <= Position(alias[r])

\* Exactly the in-flight instructions that are not completed sit in the
\* reservation station, once each and in program order.
Unexecuted == {s \in InFlight : ~entries[s].ready}
StationHoldsUnexecuted ==
    /\ Unexecuted = {waiting[i].rob_tag : i \in DOMAIN waiting}
    /\ \A i, j \in DOMAIN waiting :
          i < j => Position(waiting[i].rob_tag) < Position(waiting[j].rob_tag)

\* An unresolved operand waits for an older instruction that has yet to
\* broadcast.  Were the broadcast over, the operand would be orphaned: nothing
\* wakes it until the tag is reused by an unrelated instruction.
OperandsHaveProducers ==
    \A i \in DOMAIN waiting : \A src \in {waiting[i].src1, waiting[i].src2} :
        ~src.ready =>
            /\ src.tag \in Unexecuted
            /\ Position(src.tag) < Position(waiting[i].rob_tag)

\* Nothing in the code provides for the two cases these exclude: an instruction
\* dispatched without room is lost (ooo_overflow), a source renamed to a result
\* already broadcast is orphaned (ooo_orphan).  In their absence the machine is
\* proved correct, for every program.
RoomAtDispatch ==
    Dispatch => /\ ROB!CountAfterCommit < ROB_SIZE
                /\ Len(IF Sel = 0 THEN waiting ELSE RS!Without(Sel)) < RS_SIZE
RenamesToUnexecuted ==
    Dispatch => \A src \in {FirstSource, Source(Current.rs2)} :
                    ~src.ready => src.tag \in Unexecuted

\* Committed state: the program counter of the oldest instruction in flight.
CommittedPC == IF ROB!empty THEN pc ELSE Retiring.op.pc

Oracle == INSTANCE SingleCycle WITH pc <- CommittedPC

\* Committed registers and memory go through exactly the states of the
\* single-cycle machine, one instruction after the other.
ImplementsOracle == Oracle!Init /\ [][Oracle!Next]_(Oracle!vars)

\* ... and keep going while it does.
KeepsCommitting == Oracle!Fairness

\* The older store a load waits for reaches the head and commits: no slot holds
\* a store for ever.
StoresCommit ==
    \A s \in Slot : []<>~(entries[s].valid /\ entries[s].op.is_store)
=============================================================================
