--------------------------- MODULE MC_OutOfOrder ----------------------------
(***************************************************************************)
(* Instances of OutOfOrder for TLC.  A run checks every program of LENGTH   *)
(* instructions over a small instruction set, followed by the idle spin     *)
(* compiled programs return into (twice, for a jump over the first).        *)
(***************************************************************************)
EXTENDS OutOfOrder, TLC

CONSTANT LENGTH

Spin == Branch("BEQ", 0, 0, 0)

ProgramsOver(n, S) ==
    {[w \in 0..(n + 1) |-> IF w >= n THEN Spin ELSE p[w]] : p \in [0..(n - 1) -> S]}

-----------------------------------------------------------------------------
(* Instruction sets.  Memory has two words; registers are x0..x3.           *)

\* Register dependencies, loads, stores to two words, an address in a register.
MemorySet == {IAlu("ADD", 1, 0, 5), IAlu("ADD", 1, 1, 3), RType("SUB", 2, 1, 2),
              Load(2, 0, 0), Load(1, 2, 4), Store(1, 0, 0), Store(2, 1, 4)}

\* Branches both ways, a jump, and arithmetic that feeds them.
ControlSet == {IAlu("ADD", 1, 1, 1), Auipc(2, 8), Store(2, 0, 0), Jal(0, 8),
               Branch("BNE", 1, 2, 8), Branch("BLT", 1, 2, -4)}

\* A store and loads that wait for it, and an accumulator that is its own
\* producer and consumer.
StoreLoadSet == {Store(1, 0, 0), Load(2, 0, 0), IAlu("ADD", 1, 1, 3)}

\* LENGTH bounds the programs with memory operands and with branches; the
\* station fills up only after two more.
MCPrograms == UNION {ProgramsOver(LENGTH, MemorySet), ProgramsOver(LENGTH, ControlSet),
                     ProgramsOver(LENGTH + 2, StoreLoadSet)}

\* Long enough for an instruction renamed to a producer that has executed and
\* is kept from committing by a load; the additions behind it reuse the tag of
\* that producer.
OrphanPrograms ==
    LET n == LENGTH + 3
    IN {[w \in 0..(n + 7) |-> CASE w < n          -> p[w]
                                [] w \in n..(n + 5) -> IAlu("ADD", 3, 0, 4)
                                [] OTHER           -> Spin] : p \in [0..(n - 1) -> StoreLoadSet]}

\* Four rounds of a store and a load that waits for it, then any mix of the two.
OverflowPrograms ==
    LET n == LENGTH + 8
        mixes == [8..(n - 1) -> {Store(0, 0, 0), Load(2, 0, 0)}]
    IN {[w \in 0..n |->
           CASE w = n         -> Spin
             [] w < 8         -> IF w % 2 = 0 THEN Store(0, 0, 0) ELSE Load(2, 0, 0)
             [] OTHER         -> p[w]] : p \in mixes}
=============================================================================
