--------------------------- MODULE Datapath_proofs ---------------------------
(***************************************************************************)
(* Lemmas about the operators of Datapath and the entries of the stage       *)
(* registers: which values the ALU, the write-back multiplexer, the register *)
(* file and the program counter can take, for every width of a word, and     *)
(* that a bubble changes nothing.                                            *)
(***************************************************************************)
EXTENDS PipelineEntries, TLAPS, WellFoundedInduction

-----------------------------------------------------------------------------
(* Natural numbers.                                                         *)

\* A nonempty set of natural numbers has a smallest element: what induction is
\* made of here.
LEMMA LeastElement ==
    ASSUME NEW T \in SUBSET Nat, T # {}
    PROVE  \E m \in T : \A k \in T : m <= k
<1>1. \E m \in T : \A k \in T : ~(<<k, m>> \in OpToRel(<, Nat))
  BY WFMin, NatLessThanWellFounded
<1>2. \A m, k \in Nat : <<k, m>> \in OpToRel(<, Nat) <=> k < m
  BY DEF OpToRel
<1>3. PICK m \in T : \A k \in T : ~(<<k, m>> \in OpToRel(<, Nat))
  BY <1>1
<1>4. ASSUME NEW k \in T PROVE m <= k
  <2>1. k \in Nat /\ m \in Nat
    OBVIOUS
  <2>2. ~(k < m)
    BY <1>2, <1>3, <2>1
  <2> QED BY <2>1, <2>2
<1> QED BY <1>4

\* Induction over an interval of numbers.
LEMMA NatByInduction ==
    ASSUME NEW S, 0 \in S, NEW top \in Nat, \A n \in 0..(top - 1) : n \in S => n + 1 \in S
    PROVE  0..top \subseteq S
<1> DEFINE T == {n \in 0..top : n \notin S}
<1>1. SUFFICES ASSUME T # {} PROVE FALSE
  OBVIOUS
<1>2. PICK m \in T : \A k \in T : m <= k
  <2>1. T \in SUBSET Nat
    OBVIOUS
  <2> HIDE DEF T
  <2> QED BY <1>1, <2>1, LeastElement
<1>3. m # 0 /\ m - 1 \in 0..(top - 1) /\ m - 1 \notin T
  BY <1>2
<1>4. m - 1 \in S
  BY <1>3
<1>5. m - 1 + 1 = m
  BY <1>2
<1> QED BY <1>2, <1>3, <1>4, <1>5

-----------------------------------------------------------------------------
(* Words.                                                                   *)

LEMMA PowerType == \A n \in 0..XLEN : 2 ^ n \in Nat \ {0}
<1> DEFINE S == {n \in 0..XLEN : 2 ^ n \in Nat \ {0}}
<1>1. XLEN \in Nat
  BY DatapathAssumption
<1>2. 0 \in S
  BY <1>1, PowersOfTwo
<1>3. \A n \in 0..(XLEN - 1) : n \in S => n + 1 \in S
  BY <1>1, PowersOfTwo
<1>4. 0..XLEN \subseteq S
  <2> HIDE DEF S
  <2> QED BY <1>1, <1>2, <1>3, NatByInduction
<1> QED BY <1>4

\* A word has at least two values, both halves of its range the same size.
LEMMA WordsType == WORDS \in Nat /\ WORDS > 1
<1>1. XLEN \in Nat /\ XLEN - 1 \in 0..(XLEN - 1) /\ XLEN - 1 \in 0..XLEN /\ (XLEN - 1) + 1 = XLEN
  BY DatapathAssumption
<1>2. 2 ^ XLEN = 2 * 2 ^ (XLEN - 1)
  BY <1>1, PowersOfTwo
<1>3. 2 ^ (XLEN - 1) \in Nat \ {0}
  BY <1>1, PowerType
<1> QED BY <1>2, <1>3 DEF WORDS

LEMMA MaskType == ASSUME NEW v \in Int PROVE Mask(v) \in Word
BY WordsType DEF Mask, Word

LEMMA MaskWord == ASSUME NEW v \in Word PROVE Mask(v) = v
BY WordsType DEF Mask, Word

\* Addresses may be reduced at any point of a sum.
LEMMA MaskPeriod == ASSUME NEW x \in Int, NEW k \in Int PROVE Mask(x + WORDS * k) = Mask(x)
<1>1. ASSUME NEW y \in Int, NEW q \in Int, NEW r \in 0..(WORDS - 1), y = WORDS * q + r
      PROVE  y % WORDS = r
  BY <1>1, WordsType
<1>2. PICK q \in Int, r \in 0..(WORDS - 1) : x = (WORDS * q) + r /\ r = x % WORDS
  <2>1. (x % WORDS) \in 0..(WORDS - 1) /\ x \div WORDS \in Int
    BY WordsType
  <2>2. x = (WORDS * (x \div WORDS)) + (x % WORDS)
    BY WordsType
  <2> QED BY <2>1, <2>2
<1>3. x + WORDS * k = WORDS * (q + k) + r
  BY <1>2, WordsType
<1>4. x + WORDS * k \in Int /\ q + k \in Int
  BY WordsType
<1> QED BY <1>1, <1>2, <1>3, <1>4 DEF Mask

LEMMA MaskSum == ASSUME NEW x \in Int, NEW y \in Int PROVE Mask(Mask(x) + y) = Mask(x + y)
<1>1. PICK q \in Int, r \in Int : x = (WORDS * q) + r /\ r = Mask(x)
  <2>1. (x % WORDS) \in Int /\ x \div WORDS \in Int
    BY WordsType
  <2>2. x = (WORDS * (x \div WORDS)) + (x % WORDS)
    BY WordsType
  <2> QED BY <2>1, <2>2 DEF Mask
<1>2. PICK s \in Int : s = r + y
  BY <1>1
<1>3. Mask(s + WORDS * q) = Mask(s)
  BY MaskPeriod
<1>4. s + WORDS * q = x + y
  BY <1>1, <1>2, WordsType
<1> QED BY <1>1, <1>2, <1>3, <1>4

-----------------------------------------------------------------------------
(* The bitwise operations.  BitAnd is defined by recursion; that a function  *)
(* of that kind exists is shown by building it up from small operands.       *)

BitAndStep(f, a, b) == IF a = 0 THEN 0 ELSE (a % 2) * (b % 2) + 2 * f[a \div 2][b \div 2]

LEMMA Halves ==
    ASSUME NEW a \in Nat
    PROVE  /\ a \div 2 \in Nat /\ a % 2 \in {0, 1} /\ a = 2 * (a \div 2) + (a % 2)
           /\ a # 0 => a \div 2 < a
OBVIOUS

LEMMA HalfOfWord == ASSUME NEW a \in Word PROVE a \div 2 \in Word
BY Halves, WordsType DEF Word

\* The product of two bits is a bit.
LEMMA StepType ==
    ASSUME NEW f \in [Word -> [Word -> Nat]], NEW a \in Word, NEW b \in Word
    PROVE  BitAndStep(f, a, b) \in Nat
<1>1. f[a \div 2][b \div 2] \in Nat
  BY HalfOfWord
<1>2. a % 2 \in {0, 1} /\ b % 2 \in {0, 1}
  BY Halves DEF Word
<1>3. (a % 2) * (b % 2) \in Nat
  BY <1>2
<1> QED BY <1>1, <1>3 DEF BitAndStep

LEMMA BitAndDefined == \A a, b \in Word : BitAnd[a][b] = BitAndStep(BitAnd, a, b)
<1> DEFINE P(n) == \E g \in [Word -> [Word -> Nat]] :
                      \A a, b \in Word : a < n => g[a][b] = BitAndStep(g, a, b)
           S == {n \in Nat : P(n)}
<1>1. 0 \in S
  <2> DEFINE g == [a \in Word |-> [b \in Word |-> 0]]
  <2>1. g \in [Word -> [Word -> Nat]]
    OBVIOUS
  <2>2. \A a \in Word : ~(a < 0)
    BY DEF Word
  <2> HIDE DEF g
  <2>3. P(0)
    BY <2>1, <2>2
  <2> QED BY <2>3
<1>2. ASSUME NEW n \in 0..(WORDS - 1), n \in S
      PROVE  n + 1 \in S
  <2>1. n \in Word /\ n \in Nat /\ P(n)
    BY <1>2, WordsType DEF Word
  <2>2. PICK g \in [Word -> [Word -> Nat]] :
           \A a, b \in Word : a < n => g[a][b] = BitAndStep(g, a, b)
    BY <2>1
  <2> DEFINE h == [a \in Word |-> [b \in Word |-> IF a = n THEN BitAndStep(g, a, b) ELSE g[a][b]]]
  <2>3. h \in [Word -> [Word -> Nat]]
    BY <2>2, StepType
  <2>4. ASSUME NEW a \in Word, NEW b \in Word
        PROVE  h[a][b] = IF a = n THEN BitAndStep(g, a, b) ELSE g[a][b]
    OBVIOUS
  <2> HIDE DEF h
  <2>5. ASSUME NEW a \in Word, NEW b \in Word, a < n + 1
        PROVE  h[a][b] = BitAndStep(h, a, b)
    <3>1. h[a][b] = BitAndStep(g, a, b)
      <4>1. a = n \/ a < n
        BY <2>1, <2>5 DEF Word
      <4> QED BY <2>2, <2>4, <4>1
    <3>2. CASE a = 0
      BY <3>1, <3>2 DEF BitAndStep
    <3>3. CASE a # 0
      <4>1. a \div 2 \in Word /\ b \div 2 \in Word
        BY HalfOfWord
      <4>2. a \div 2 # n
        <5>1. a \in Nat /\ n \in Nat /\ a \div 2 < a /\ a \div 2 \in Nat
          BY <2>1, <3>3, Halves DEF Word
        <5> QED BY <5>1, <2>5
      <4>3. h[a \div 2][b \div 2] = g[a \div 2][b \div 2]
        BY <4>1, <4>2, <2>4
      <4> QED BY <3>1, <4>3 DEF BitAndStep
    <3> QED BY <3>2, <3>3
  <2>6. P(n + 1)
    BY <2>3, <2>5
  <2>7. n + 1 \in Nat
    BY <2>1
  <2> HIDE DEF P
  <2> QED BY <2>6, <2>7
<1>3. WORDS \in S
  <2> HIDE DEF S
  <2>1. 0..WORDS \subseteq S
    BY <1>1, <1>2, WordsType, NatByInduction
  <2> QED BY <2>1, WordsType
<1>4. PICK g \in [Word -> [Word -> Nat]] :
         \A a, b \in Word : a < WORDS => g[a][b] = BitAndStep(g, a, b)
  BY <1>3
<1>5. \A a, b \in Word : g[a][b] = BitAndStep(g, a, b)
  <2>1. \A a \in Word : a < WORDS
    BY WordsType DEF Word
  <2> QED BY <1>4, <2>1
<1>6. g = [a \in Word |-> [b \in Word |-> BitAndStep(g, a, b)]]
  BY <1>4, <1>5
<1>7. BitAnd = [a \in Word |-> [b \in Word |-> BitAndStep(BitAnd, a, b)]]
  BY <1>6 DEF BitAnd, BitAndStep
<1>8. ASSUME NEW a \in Word, NEW b \in Word
      PROVE  BitAnd[a][b] = BitAndStep(BitAnd, a, b)
  <2> DEFINE r(x, y) == BitAndStep(BitAnd, x, y)
  <2>1. BitAnd = [x \in Word |-> [y \in Word |-> r(x, y)]]
    BY <1>7
  <2> HIDE DEF r
  <2>2. BitAnd[a][b] = r(a, b)
    BY <2>1
  <2> QED BY <2>2 DEF r
<1> QED BY <1>8

\* The conjunction of two numbers of n bits is at most either, and what is left of
\* their sum, the disjunction, has n bits.
LEMMA BitAndBounds ==
    \A n \in 0..XLEN : \A a, b \in Word :
        a < 2 ^ n /\ b < 2 ^ n =>
            /\ BitAnd[a][b] \in Nat
            /\ BitAnd[a][b] <= a /\ BitAnd[a][b] <= b
            /\ a + b - BitAnd[a][b] < 2 ^ n
<1> DEFINE Q(n, a, b) == /\ BitAnd[a][b] \in Nat
                         /\ BitAnd[a][b] <= a /\ BitAnd[a][b] <= b
                         /\ a + b - BitAnd[a][b] < 2 ^ n
           S == {n \in 0..XLEN : \A a, b \in Word : a < 2 ^ n /\ b < 2 ^ n => Q(n, a, b)}
<1>1. XLEN \in Nat
  BY DatapathAssumption
<1>2. 0 \in S
  <2>1. ASSUME NEW a \in Word, NEW b \in Word, a < 2 ^ 0, b < 2 ^ 0
        PROVE  Q(0, a, b)
    <3>1. a = 0 /\ b = 0
      BY <2>1, PowersOfTwo DEF Word
    <3>2. BitAnd[a][b] = 0
      BY <3>1, BitAndDefined DEF BitAndStep
    <3> QED BY <3>1, <3>2, PowersOfTwo
  <2> HIDE DEF Q
  <2> QED BY <1>1, <2>1
<1>3. ASSUME NEW n \in 0..(XLEN - 1), n \in S
      PROVE  n + 1 \in S
  <2>1. 2 ^ (n + 1) = 2 * 2 ^ n /\ 2 ^ n \in Nat /\ n + 1 \in 0..XLEN
    BY <1>1, PowersOfTwo, PowerType
  <2>2. ASSUME NEW a \in Word, NEW b \in Word, a < 2 ^ (n + 1), b < 2 ^ (n + 1)
        PROVE  Q(n + 1, a, b)
    <3> DEFINE a2 == a \div 2
               b2 == b \div 2
               p == 2 ^ n
               c == BitAnd[a2][b2]
    <3>1. a \in Nat /\ b \in Nat
      BY DEF Word
    <3>2. /\ a2 \in Nat /\ a % 2 \in {0, 1} /\ a = 2 * a2 + (a % 2)
          /\ b2 \in Nat /\ b % 2 \in {0, 1} /\ b = 2 * b2 + (b % 2)
      BY <3>1, Halves
    <3>3. a2 \in Word /\ b2 \in Word
      BY HalfOfWord
    <3>4. a2 < p /\ b2 < p
      BY <2>1, <2>2, <3>2
    <3>5. Q(n, a2, b2)
      BY <1>3, <3>3, <3>4
    <3>6. BitAnd[a][b] = BitAndStep(BitAnd, a, b)
      BY BitAndDefined
    <3>7. CASE a = 0
      <4>1. BitAnd[a][b] = 0
        BY <3>6, <3>7 DEF BitAndStep
      <4> QED BY <4>1, <3>1, <3>7, <2>2, <2>1
    <3>8. CASE a # 0
      <4>1. BitAnd[a][b] = (a % 2) * (b % 2) + 2 * c
        BY <3>6, <3>8 DEF BitAndStep
      <4>2. c \in Nat /\ c <= a2 /\ c <= b2 /\ a2 + b2 - c < p /\ p \in Nat /\ 2 ^ (n + 1) = 2 * p
        BY <2>1, <3>5
      <4>3. a2 \in Nat /\ b2 \in Nat
        BY <3>2
      <4> HIDE DEF a2, b2, c, p
      <4>4. \A r, s \in {0, 1} :
               a = 2 * a2 + r /\ b = 2 * b2 + s /\ BitAnd[a][b] = r * s + 2 * c => Q(n + 1, a, b)
        <5> SUFFICES ASSUME NEW r \in {0, 1}, NEW s \in {0, 1},
                            a = 2 * a2 + r, b = 2 * b2 + s, BitAnd[a][b] = r * s + 2 * c
                     PROVE  Q(n + 1, a, b)
          OBVIOUS
        <5>1. r * s = IF r = 1 /\ s = 1 THEN 1 ELSE 0
          OBVIOUS
        <5> QED BY <4>2, <4>3, <5>1
      <4> HIDE DEF Q
      <4> QED BY <3>2, <4>1, <4>4
    <3> QED BY <3>7, <3>8
  <2> HIDE DEF Q
  <2> QED BY <2>1, <2>2
<1>4. 0..XLEN \subseteq S
  <2> HIDE DEF S
  <2> QED BY <1>1, <1>2, <1>3, NatByInduction
<1> QED BY <1>4

LEMMA BitAndType ==
    ASSUME NEW a \in Word, NEW b \in Word
    PROVE  /\ BitAnd[a][b] \in Word
           /\ a + b - BitAnd[a][b] \in Word
           /\ a + b - 2 * BitAnd[a][b] \in Word
<1>1. /\ a \in Nat /\ b \in Nat /\ a < 2 ^ XLEN /\ b < 2 ^ XLEN
      /\ XLEN \in 0..XLEN /\ 2 ^ XLEN \in Nat
  BY WordsType, DatapathAssumption DEF Word, WORDS
<1>2. /\ BitAnd[a][b] \in Nat /\ BitAnd[a][b] <= a /\ BitAnd[a][b] <= b
      /\ a + b - BitAnd[a][b] < 2 ^ XLEN
  BY <1>1, BitAndBounds
<1>3. Word = 0..(2 ^ XLEN - 1)
  BY DEF Word, WORDS
<1> DEFINE c == BitAnd[a][b]
           p == 2 ^ XLEN
<1>4. c \in Nat /\ c <= a /\ c <= b /\ a + b - c < p /\ p \in Nat /\ a < p /\ b < p
  BY <1>1, <1>2
<1> HIDE DEF c, p
<1>5. c \in 0..(p - 1) /\ a + b - c \in 0..(p - 1) /\ a + b - 2 * c \in 0..(p - 1)
  BY <1>1, <1>4
<1> QED BY <1>3, <1>5 DEF c, p

-----------------------------------------------------------------------------
(* The ALU and what follows it.                                             *)

LEMMA AluType ==
    ASSUME NEW op \in AluOp, NEW a \in Word, NEW b \in Word
    PROVE  Alu(op, a, b) \in Word
<1> DEFINE scale == 2 ^ (b % XLEN)
           signed == ToSigned(a)
<1>1. a \in Int /\ b \in Int /\ a >= 0 /\ b >= 0
  BY WordsType DEF Word
<1>2. scale \in Nat \ {0}
  <2>1. XLEN \in Nat /\ XLEN > 0
    BY DatapathAssumption
  <2>2. b % XLEN \in 0..XLEN
    BY <1>1, <2>1
  <2> QED BY <2>2, PowerType
<1>3. 0 \in Word /\ 1 \in Word
  BY WordsType DEF Word
<1>4. CASE op \in {"ADD", "SUB"}
  BY <1>1, <1>4, MaskType DEF Alu
<1>5. CASE op \in {"AND", "OR", "XOR"}
  BY <1>5, BitAndType DEF Alu
<1>6. CASE op \in {"SLT", "SLTU", "PASS"}
  BY <1>3, <1>6 DEF Alu
<1>7. CASE op = "SLL"
  <2>1. a * scale \in Int
    BY <1>1, <1>2
  <2> HIDE DEF scale
  <2>2. Mask(a * scale) \in Word
    BY <2>1, MaskType
  <2> QED BY <1>7, <2>2 DEF Alu, scale
<1>8. CASE op = "SRL"
  <2> HIDE DEF scale
  <2>1. a \div scale \in 0..a
    BY <1>1, <1>2
  <2>2. a \div scale \in Word
    BY <1>1, <2>1, WordsType DEF Word
  <2> QED BY <1>8, <2>2 DEF Alu, scale
<1>9. CASE op = "SRA"
  <2>1. signed \in Int
    BY <1>1, WordsType DEF ToSigned
  <2> HIDE DEF scale, signed
  <2>2. signed \div scale \in Int
    BY <1>2, <2>1
  <2>3. Mask(signed \div scale) \in Word
    BY <2>2, MaskType
  <2> QED BY <1>9, <2>3 DEF Alu, scale, signed
<1> QED BY <1>4, <1>5, <1>6, <1>7, <1>8, <1>9 DEF AluOp

\* What the decoder drives for an instruction.
Control ==
    [rd : Reg, rs1 : Reg, rs2 : Reg, imm : Word, alu_op : AluOp, alu_src : BOOLEAN,
     use_pc : BOOLEAN, mem_read : BOOLEAN, mem_write : BOOLEAN, reg_write : BOOLEAN,
     branch : BOOLEAN, branch_cond : {"EQ", "NEQ", "LT", "GE", "NEVER"}, jal : BOOLEAN,
     jalr : BOOLEAN, wb_sel : {"ALU", "MEMORY", "PC4"}]

LEMMA DecodeType == ASSUME NEW i \in Instruction PROVE Decode(i) \in Control
<1>1. /\ i.rd \in Reg /\ i.rs1 \in Reg /\ i.rs2 \in Reg /\ i.imm \in Word
      /\ i.fn \in AluOp \cup BranchFn
      /\ i.opcode = "BRANCH" <=> i.fn \in BranchFn
  BY DEF Instruction
<1>2. i.opcode = "BRANCH" => BranchAluOp(i.fn) \in AluOp /\ BranchCond(i.fn) \in {"EQ", "NEQ", "LT", "GE"}
  BY <1>1 DEF BranchFn, BranchAluOp, BranchCond, AluOp
<1>3. i.opcode # "BRANCH" => i.fn \in AluOp
  BY <1>1
<1> QED BY <1>1, <1>2, <1>3 DEF Decode, Control

\* Which control signals go together.
LEMMA DecodeClasses ==
    ASSUME NEW i \in Instruction, NEW c, c = Decode(i)
    PROVE  /\ c.mem_read => ~c.mem_write /\ c.reg_write
           /\ c.mem_read <=> c.wb_sel = "MEMORY"
           /\ c.mem_write => ~c.reg_write
           /\ c.mem_read \/ c.mem_write => ~c.branch /\ ~c.jal /\ ~c.jalr
           /\ c.branch => ~c.reg_write /\ ~c.jal /\ ~c.jalr
           /\ c.jal \/ c.jalr <=> c.wb_sel = "PC4"
           /\ c.jal \/ c.jalr => c.reg_write
           /\ ~(c.jal /\ c.jalr)
BY DEF Decode, Instruction, Opcode

LEMMA NopType == Nop \in Instruction
<1>1. NREGS \in Nat /\ NREGS > 0
  BY DatapathAssumption
<1>2. 0 % NREGS = 0 /\ Mask(0) \in Word
  BY <1>1, MaskType
<1>3. 0 \in Reg
  BY <1>1 DEF Reg
<1>4. Nop = [opcode |-> "I_ALU", fn |-> "ADD", rd |-> 0, rs1 |-> 0, rs2 |-> 0, imm |-> Mask(0)]
  BY <1>2 DEF Nop, IAlu
<1> QED BY <1>2, <1>3, <1>4 DEF Instruction, Opcode, AluOp, BranchFn

LEMMA FetchedType ==
    ASSUME NEW program, \A w \in DOMAIN program : program[w] \in Instruction, NEW pc
    PROVE  Fetched(program, pc) \in Instruction
BY NopType DEF Fetched

LEMMA NextPCType ==
    ASSUME NEW c \in Control, NEW pc \in Word, NEW rs1 \in Word, NEW result \in Word
    PROVE  NextPC(c, pc, rs1, result) \in Word
<1>1. pc \in Int /\ rs1 \in Int /\ c.imm \in Int
  BY WordsType DEF Word, Control
<1>2. Mask(pc + c.imm) \in Word /\ Mask(pc + 4) \in Word /\ Mask(rs1 + c.imm) \in Word
  BY <1>1, MaskType
<1>3. \A x \in Word : 2 * (x \div 2) \in Word
  BY WordsType DEF Word
<1> QED BY <1>2, <1>3 DEF NextPC

LEMMA WriteBackType ==
    ASSUME NEW c \in Control, NEW x \in Word, NEW y \in Word, NEW pc \in Word
    PROVE  WriteBack(c, x, y, pc) \in Word
<1>1. pc \in Int
  BY WordsType DEF Word
<1>2. Mask(pc + 4) \in Word
  BY <1>1, MaskType
<1> QED BY <1>2 DEF WriteBack, Control

LEMMA RegReadType ==
    ASSUME NEW regs \in [Reg -> Word], NEW r \in Reg
    PROVE  RegRead(regs, r) \in Word
BY WordsType DEF RegRead, Word

LEMMA RegWriteType ==
    ASSUME NEW regs \in [Reg -> Word], NEW wen, NEW rd \in Reg, NEW v \in Word
    PROVE  RegWrite(regs, wen, rd, v) \in [Reg -> Word]
BY DEF RegWrite

Mem == [0..(MEM_WORDS - 1) -> Word]

LEMMA MemIndexType == ASSUME NEW a \in Word PROVE MemIndex(a) \in 0..(MEM_WORDS - 1)
<1>1. a \in Nat /\ MEM_WORDS \in Nat \ {0}
  BY WordsType, DatapathAssumption DEF Word
<1>2. a \div 4 \in Nat
  BY <1>1
<1> QED BY <1>1, <1>2 DEF MemIndex

LEMMA MemReadType ==
    ASSUME NEW mem \in Mem, NEW a \in Word
    PROVE  mem[MemIndex(a)] \in Word
BY MemIndexType DEF Mem

LEMMA MemWriteType ==
    ASSUME NEW mem \in Mem, NEW wen, NEW a \in Word, NEW v \in Word
    PROVE  MemWrite(mem, wen, a, v) \in Mem
BY MemIndexType DEF MemWrite, Mem

LEMMA ResultType ==
    ASSUME NEW c \in Control, NEW pc \in Word, NEW a \in Word, NEW b \in Word
    PROVE  ResultOf(c, pc, a, b) \in Word
<1>1. c.alu_op \in AluOp /\ c.imm \in Word
  BY DEF Control
<1> QED BY <1>1, AluType DEF ResultOf

LEMMA InitialType == InitialRegs \in [Reg -> Word] /\ InitialMem \in Mem /\ 0 \in Word
BY WordsType DEF InitialRegs, InitialMem, Mem, Word

-----------------------------------------------------------------------------
(* Bubbles.                                                                 *)

\* What the stage registers hold.
FetchEntry   == [valid : BOOLEAN, pc : Word, instr : Instruction, predicted : BOOLEAN]
DecodeEntry  == [valid : BOOLEAN, pc : Word, c : Control, rs1_data : Word, rs2_data : Word,
                 predicted : BOOLEAN]
ExecuteEntry == [valid : BOOLEAN, pc : Word, c : Control, alu_result : Word,
                 rs1_data : Word, rs2_data : Word, predicted : BOOLEAN]
MemoryEntry  == [valid : BOOLEAN, pc : Word, c : Control, alu_result : Word, mem_data : Word]

\* Control signals that change nothing.
Quiet(c) == /\ ~c.mem_read /\ ~c.mem_write /\ ~c.branch /\ ~c.jal /\ ~c.jalr
            /\ c.reg_write => c.rd = ZERO_REG

LEMMA NoControlType == NoControl \in Control /\ Quiet(NoControl)
BY InitialType, DatapathAssumption DEF NoControl, Control, Quiet, Reg, AluOp

LEMMA BubbleTypes ==
    /\ FetchBubble \in FetchEntry /\ DecodeBubble \in DecodeEntry
    /\ ExecuteBubble \in ExecuteEntry /\ MemoryBubble \in MemoryEntry
<1>1. 0 \in Word
  BY InitialType
<1> QED BY <1>1, NopType, NoControlType
        DEF FetchBubble, DecodeBubble, ExecuteBubble, MemoryBubble, FetchEntry, DecodeEntry,
            ExecuteEntry, MemoryEntry

LEMMA AddressType == ASSUME NEW a \in Word, NEW d \in Word PROVE Mask(a + d) \in Word /\ Mask(a + 4) \in Word
<1>1. a + d \in Int /\ a + 4 \in Int
  BY WordsType DEF Word
<1> QED BY <1>1, MaskType

LEMMA NopQuiet == ASSUME ZERO_REG = 0 PROVE Quiet(Decode(Nop))
<1>1. 0 % NREGS = 0
  BY DatapathAssumption
<1> QED BY <1>1 DEF Nop, IAlu, Decode, Quiet
=============================================================================
