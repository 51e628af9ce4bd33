-------------------------- MODULE Assembler_proofs ---------------------------
(***************************************************************************)
(* What the two passes and the relaxation promise of every text.            *)
(***************************************************************************)
EXTENDS Assembler, TLAPS, WellFoundedInduction, SequenceTheorems

-----------------------------------------------------------------------------
(* Induction over an interval of numbers.                                   *)

\* A nonempty set of natural numbers has a smallest element.
LEMMA LeastElement ==
    ASSUME NEW T \in SUBSET Nat, T # {}
    PROVE  \E m \in T : \A k \in T : m <= k
<1>1. \E m \in T : \A k \in T : ~(<<k, m>> \in OpToRel(<, Nat))
  BY WFMin, NatLessThanWellFounded
<1>2. \A m, k \in Nat : <<k, m>> \in OpToRel(<, Nat) <=> k < m
  BY DEF OpToRel
<1>3. PICK m \in T : \A k \in T : ~(<<k, m>> \in OpToRel(<, Nat))
  BY <1>1
<1>4. ASSUME NEW k \in T PROVE m <= k
  <2>1. k \in Nat /\ m \in Nat
    OBVIOUS
  <2>2. ~(k < m)
    BY <1>2, <1>3, <2>1
  <2> QED BY <2>1, <2>2
<1> QED BY <1>4

\* Induction over 0..top.
LEMMA NatByInduction ==
    ASSUME NEW S, 0 \in S, NEW top \in Nat, \A n \in 0..(top - 1) : n \in S => n + 1 \in S
    PROVE  0..top \subseteq S
<1> DEFINE T == {n \in 0..top : n \notin S}
<1>1. SUFFICES ASSUME T # {} PROVE FALSE
  OBVIOUS
<1>2. PICK m \in T : \A k \in T : m <= k
  <2>1. T \in SUBSET Nat
    OBVIOUS
  <2> HIDE DEF T
  <2> QED BY <1>1, <2>1, LeastElement
<1>3. m # 0 /\ m - 1 \in 0..(top - 1) /\ m - 1 \notin T
  BY <1>2
<1>4. m - 1 \in S
  BY <1>3
<1>5. m - 1 + 1 = m
  BY <1>2
<1> QED BY <1>2, <1>3, <1>4, <1>5

-----------------------------------------------------------------------------
(* Powers of two.                                                           *)

LEMMA Powers ==
    /\ 2^0 = 1 /\ 2^1 = 2 /\ 2^2 = 4 /\ 2^3 = 8
    /\ 2^4 = 16 /\ 2^5 = 32 /\ 2^6 = 64 /\ 2^7 = 128
    /\ 2^8 = 256 /\ 2^9 = 512 /\ 2^10 = 1024 /\ 2^11 = 2048
    /\ 2^12 = 4096 /\ 2^13 = 8192 /\ 2^14 = 16384 /\ 2^15 = 32768
    /\ 2^16 = 65536 /\ 2^17 = 131072 /\ 2^18 = 262144 /\ 2^19 = 524288
    /\ 2^20 = 1048576 /\ 2^21 = 2097152 /\ 2^22 = 4194304 /\ 2^23 = 8388608
    /\ 2^24 = 16777216 /\ 2^25 = 33554432 /\ 2^26 = 67108864 /\ 2^27 = 134217728
    /\ 2^28 = 268435456 /\ 2^29 = 536870912 /\ 2^30 = 1073741824
<1>1. 2^0 = 1 /\ 2^1 = 2 /\ 2^2 = 4 /\ 2^3 = 8
  BY PowersOfTwo
<1>2. 2^4 = 16 /\ 2^5 = 32 /\ 2^6 = 64 /\ 2^7 = 128
  BY PowersOfTwo, <1>1
<1>3. 2^8 = 256 /\ 2^9 = 512 /\ 2^10 = 1024 /\ 2^11 = 2048
  BY PowersOfTwo, <1>2
<1>4. 2^12 = 4096 /\ 2^13 = 8192 /\ 2^14 = 16384 /\ 2^15 = 32768
  BY PowersOfTwo, <1>3
<1>5. 2^16 = 65536 /\ 2^17 = 131072 /\ 2^18 = 262144 /\ 2^19 = 524288
  BY PowersOfTwo, <1>4
<1>6. 2^20 = 1048576 /\ 2^21 = 2097152 /\ 2^22 = 4194304 /\ 2^23 = 8388608
  BY PowersOfTwo, <1>5
<1>7. 2^24 = 16777216 /\ 2^25 = 33554432 /\ 2^26 = 67108864 /\ 2^27 = 134217728
  BY PowersOfTwo, <1>6
<1>8. 2^28 = 268435456 /\ 2^29 = 536870912 /\ 2^30 = 1073741824
  BY PowersOfTwo, <1>7
<1> QED BY <1>1, <1>2, <1>3, <1>4, <1>5, <1>6, <1>7, <1>8

-----------------------------------------------------------------------------
(* Pass 1: addresses are sums of sizes.                                     *)

\* Bytes of one line.
Own(isa, txt, w, k) == IF IsLabel(txt[k]) THEN 0 ELSE SizeAt(isa, txt[k], k \in w)

\* Bytes before line k, as pass 1 counts them.
Before(isa, txt, w, k) == Bytes(isa, txt, w)[<<1, k - 1>>]

LEMMA SizeType ==
    \A isa, i : \A long \in BOOLEAN : SizeAt(isa, i, long) \in 1..6
BY DEF SizeAt, X86!EstimatedSize

LEMMA OwnType ==
    \A isa, txt, w, k : Own(isa, txt, w, k) \in 0..6 /\ (~IsLabel(txt[k]) => Own(isa, txt, w, k) >= 1)
<1> SUFFICES ASSUME NEW isa, NEW txt, NEW w, NEW k
             PROVE  Own(isa, txt, w, k) \in 0..6 /\ (~IsLabel(txt[k]) => Own(isa, txt, w, k) >= 1)
  OBVIOUS
<1>1. SizeAt(isa, txt[k], k \in w) \in 1..6
  <2>1. (k \in w) \in BOOLEAN
    OBVIOUS
  <2> QED BY <2>1, SizeType
<1> QED BY <1>1 DEF Own

\* There is a function of running totals.
LEMMA Totals ==
    ASSUME NEW isa, NEW txt, NEW w, NEW n \in Nat
    PROVE  \E f \in [0..n -> Nat] :
              f[0] = 0 /\ \A k \in 1..n : f[k] = f[k - 1] + Own(isa, txt, w, k)
<1> DEFINE Upto(f, m) == f[0] = 0 /\ \A k \in 1..m : f[k] = f[k - 1] + Own(isa, txt, w, k)
           S == {m \in 0..n : \E f \in [0..n -> Nat] : Upto(f, m)}
<1>1. 0 \in S
  <2> DEFINE f == [k \in 0..n |-> 0]
  <2>1. f \in [0..n -> Nat] /\ Upto(f, 0) /\ 0 \in 0..n
    OBVIOUS
  <2> HIDE DEF f, Upto
  <2> QED BY <2>1
<1>2. ASSUME NEW m \in 0..(n - 1), m \in S PROVE m + 1 \in S
  <2>1. PICK f \in [0..n -> Nat] : Upto(f, m)
    BY <1>2
  <2>2. m \in Nat /\ m + 1 \in 0..n /\ m \in 0..n /\ f[m] \in Nat
    OBVIOUS
  <2>3. Own(isa, txt, w, m + 1) \in Nat
    BY OwnType
  <2> DEFINE g == [f EXCEPT ![m + 1] = f[m] + Own(isa, txt, w, m + 1)]
  <2>4. g \in [0..n -> Nat]
    BY <2>2, <2>3
  <2>5. g[m + 1] = f[m] + Own(isa, txt, w, m + 1) /\ \A k \in 0..m : g[k] = f[k]
    BY <2>2
  <2> HIDE DEF g
  <2>6. g[0] = 0
    BY <2>1, <2>2, <2>5
  <2>7. ASSUME NEW k \in 1..(m + 1) PROVE g[k] = g[k - 1] + Own(isa, txt, w, k)
    <3>1. CASE k = m + 1
      <4>1. k - 1 = m /\ m \in 0..m
        BY <3>1, <2>2
      <4> QED BY <3>1, <4>1, <2>5
    <3>2. CASE k # m + 1
      <4>1. k \in 1..m /\ k \in 0..m /\ k - 1 \in 0..m
        BY <3>2, <2>2
      <4> QED BY <4>1, <2>1, <2>5
    <3> QED BY <3>1, <3>2
  <2>8. Upto(g, m + 1)
    BY <2>6, <2>7
  <2> HIDE DEF Upto
  <2> QED BY <2>2, <2>4, <2>8
<1>3. n \in S
  <2> HIDE DEF S
  <2>1. 0..n \subseteq S
    BY <1>1, <1>2, NatByInduction
  <2> QED BY <2>1
<1> QED BY <1>3

\* The equation of the recursion that sums by halves.
HalvesOf(isa, txt, w, b, span) ==
    CASE span[1] > span[2] -> 0
      [] span[1] = span[2] /\ IsLabel(txt[span[1]])  -> 0
      [] span[1] = span[2] /\ ~IsLabel(txt[span[1]]) ->
            SizeAt(isa, txt[span[1]], span[1] \in w)
      [] OTHER -> b[<<span[1], (span[1] + span[2]) \div 2>>]
                  + b[<<(span[1] + span[2]) \div 2 + 1, span[2]>>]
Spans(txt) == (1..Len(txt) + 1) \X (0..Len(txt))

LEMMA BytesIsChosen ==
    \A isa, txt, w :
        Bytes(isa, txt, w) = CHOOSE b : b = [span \in Spans(txt) |-> HalvesOf(isa, txt, w, b, span)]
BY DEF Bytes, HalvesOf, Spans

\* The two halves of a span of two lines or more.
LEMMA HalfSpans ==
    ASSUME NEW n \in Nat, NEW x \in 1..n, NEW y \in 1..n, x < y
    PROVE  LET m == (x + y) \div 2
           IN /\ m \in Nat /\ x <= m /\ m < y
              /\ <<x, m>> \in (1..n + 1) \X (0..n) /\ <<m + 1, y>> \in (1..n + 1) \X (0..n)
<1> DEFINE m == (x + y) \div 2
<1>1. m \in Int /\ 2 * m <= x + y /\ x + y < 2 * m + 2
  OBVIOUS
<1> HIDE DEF m
<1>2. m \in Nat /\ x <= m /\ m < y
  BY <1>1
<1>3. x \in 1..n + 1 /\ m \in 0..n /\ m + 1 \in 1..n + 1 /\ y \in 0..n
  BY <1>2
<1>4. <<x, m>> \in (1..n + 1) \X (0..n) /\ <<m + 1, y>> \in (1..n + 1) \X (0..n)
  BY <1>3
<1> QED BY <1>2, <1>4 DEF m

\* Differences of totals solve the equation, so Bytes does; and nothing else does.
LEMMA BytesAreDifferences ==
    ASSUME NEW isa, NEW txt, NEW w, Len(txt) \in Nat,
           NEW f \in [0..Len(txt) -> Nat],
           \A k \in 1..Len(txt) : f[k] = f[k - 1] + Own(isa, txt, w, k)
    PROVE  \A x \in 1..Len(txt) + 1, y \in 0..Len(txt) :
              x <= y + 1 => Bytes(isa, txt, w)[<<x, y>>] = f[y] - f[x - 1]
<1> DEFINE n == Len(txt)
           B == Bytes(isa, txt, w)
           diff == [span \in Spans(txt) |->
                       IF span[1] > span[2] THEN 0 ELSE f[span[2]] - f[span[1] - 1]]
<1>1. n \in Nat
  OBVIOUS
<1>2. \A x \in 1..n + 1, y \in 0..n :
         diff[<<x, y>>] = IF x > y THEN 0 ELSE f[y] - f[x - 1]
  BY DEF Spans
<1>3. \A x \in 1..n + 1, y \in 0..n : <<x, y>> \in Spans(txt)
  BY DEF Spans
<1>4. ASSUME NEW x \in 1..n + 1, NEW y \in 0..n
      PROVE  diff[<<x, y>>] = HalvesOf(isa, txt, w, diff, <<x, y>>)
  <2>1. <<x, y>>[1] = x /\ <<x, y>>[2] = y
    OBVIOUS
  <2>2. CASE x > y
    <3>1. HalvesOf(isa, txt, w, diff, <<x, y>>) = 0
      <4> HIDE DEF diff
      <4> QED BY <2>1, <2>2 DEF HalvesOf
    <3>2. diff[<<x, y>>] = 0
      <4> HIDE DEF diff
      <4> QED BY <1>2, <2>2
    <3> QED BY <3>1, <3>2
  <2>3. CASE x = y
    <3>1. x \in 1..n /\ f[y] = f[x - 1] + Own(isa, txt, w, x) /\ f[x - 1] \in Nat
      BY <1>1, <2>3
    <3>2. Own(isa, txt, w, x) \in Int
      BY OwnType
    <3>3. diff[<<x, y>>] = Own(isa, txt, w, x)
      <4> HIDE DEF diff
      <4> QED BY <1>1, <1>2, <2>3, <3>1, <3>2
    <3>4. HalvesOf(isa, txt, w, diff, <<x, y>>) = Own(isa, txt, w, x)
      <4> HIDE DEF diff
      <4> QED BY <1>1, <2>1, <2>3 DEF HalvesOf, Own
    <3> QED BY <3>3, <3>4
  <2>4. CASE x < y
    <3> DEFINE m == (x + y) \div 2
    <3>1. x \in 1..n /\ y \in 1..n
      BY <1>1, <2>4
    <3>2. m \in Nat /\ x <= m /\ m < y /\ m \in 0..n /\ m + 1 \in 1..n + 1
      <4> HIDE DEF n
      <4>1. m \in Nat /\ x <= m /\ m < y
        BY <1>1, <2>4, <3>1, HalfSpans
      <4> HIDE DEF m
      <4> QED BY <1>1, <3>1, <4>1
    <3>3. HalvesOf(isa, txt, w, diff, <<x, y>>) = diff[<<x, m>>] + diff[<<m + 1, y>>]
      <4> HIDE DEF diff
      <4> QED BY <1>1, <2>1, <2>4 DEF HalvesOf
    <3> HIDE DEF m
    <3>4. /\ diff[<<x, m>>] = f[m] - f[x - 1]
          /\ diff[<<m + 1, y>>] = f[y] - f[m + 1 - 1]
          /\ diff[<<x, y>>] = f[y] - f[x - 1]
      <4> HIDE DEF diff
      <4> QED BY <1>1, <1>2, <2>4, <3>2
    <3>5. f[m] \in Nat /\ f[y] \in Nat /\ f[x - 1] \in Nat /\ m + 1 - 1 = m
      <4>1. x - 1 \in 0..n /\ y \in 0..n /\ m + 1 - 1 = m
        BY <1>1, <3>1, <3>2
      <4> QED BY <3>2, <4>1
    <3> HIDE DEF diff
    <3> QED BY <3>3, <3>4, <3>5
  <2> QED BY <1>1, <2>2, <2>3, <2>4
<1>5. diff = [span \in Spans(txt) |-> HalvesOf(isa, txt, w, diff, span)]
  <2>1. ASSUME NEW span \in Spans(txt) PROVE diff[span] = HalvesOf(isa, txt, w, diff, span)
    <3>1. PICK x \in 1..n + 1, y \in 0..n : span = <<x, y>>
      BY DEF Spans
    <3> HIDE DEF diff
    <3> QED BY <1>4, <3>1
  <2> DEFINE value(span) == IF span[1] > span[2] THEN 0 ELSE f[span[2]] - f[span[1] - 1]
  <2>2. \A span \in Spans(txt) : value(span) = HalvesOf(isa, txt, w, diff, span)
    BY <2>1
  <2>3. diff = [span \in Spans(txt) |-> value(span)]
    OBVIOUS
  <2> HIDE DEF diff, value
  <2> QED BY <2>2, <2>3
<1>6. B = [span \in Spans(txt) |-> HalvesOf(isa, txt, w, B, span)]
  <2> HIDE DEF diff
  <2> QED BY <1>5, BytesIsChosen
<1> HIDE DEF B, diff
<1>7. \A x \in 1..n + 1, y \in 0..n : B[<<x, y>>] = HalvesOf(isa, txt, w, B, <<x, y>>)
  BY <1>3, <1>6
<1> DEFINE Right(d) == \A x \in 1..n + 1, y \in 0..n :
                          x <= y + 1 /\ y - x < d => B[<<x, y>>] = f[y] - f[x - 1]
           S == {d \in 0..n : Right(d)}
<1>8. \A x \in 1..n + 1, y \in 0..n : f[y] \in Nat /\ f[x - 1] \in Nat
  BY <1>1
<1>9. \A x \in 1..n + 1, y \in 0..n : x = y + 1 => B[<<x, y>>] = f[y] - f[x - 1]
  <2> TAKE x \in 1..n + 1, y \in 0..n
  <2> HAVE x = y + 1
  <2>1. <<x, y>>[1] > <<x, y>>[2] /\ x - 1 = y
    BY <1>1
  <2>2. HalvesOf(isa, txt, w, B, <<x, y>>) = 0
    BY <2>1 DEF HalvesOf
  <2>3. B[<<x, y>>] = 0
    BY <1>7, <2>2
  <2> QED BY <1>8, <2>1, <2>3
<1>10. 0 \in S
  <2>1. Right(0)
    <3> SUFFICES ASSUME NEW x \in 1..n + 1, NEW y \in 0..n, x <= y + 1, y - x < 0
                 PROVE  B[<<x, y>>] = f[y] - f[x - 1]
      OBVIOUS
    <3>1. x = y + 1
      BY <1>1
    <3> QED BY <1>9, <3>1
  <2> HIDE DEF Right
  <2> QED BY <1>1, <2>1
<1>11. ASSUME NEW d \in 0..(n - 1), d \in S PROVE d + 1 \in S
  <2>1. Right(d) /\ d \in Nat
    BY <1>11
  <2>2. ASSUME NEW x \in 1..n + 1, NEW y \in 0..n, x <= y + 1, y - x < d + 1
        PROVE  B[<<x, y>>] = f[y] - f[x - 1]
    <3>1. CASE x = y + 1
      BY <1>9, <3>1
    <3>2. CASE x = y
      <4>1. x \in 1..n /\ <<x, y>>[1] = x /\ <<x, y>>[2] = y
        BY <1>1, <3>2
      <4>2. B[<<x, y>>] = Own(isa, txt, w, x)
        <5>1. HalvesOf(isa, txt, w, B, <<x, y>>) = Own(isa, txt, w, x)
          BY <1>1, <3>2, <4>1 DEF HalvesOf, Own
        <5> QED BY <1>7, <5>1
      <4>3. f[x] = f[x - 1] + Own(isa, txt, w, x) /\ f[x - 1] \in Nat
        BY <1>8, <4>1
      <4>4. Own(isa, txt, w, x) \in Int
        BY OwnType
      <4> QED BY <3>2, <4>2, <4>3, <4>4
    <3>3. CASE x < y
      <4> DEFINE m == (x + y) \div 2
      <4>1. x \in 1..n /\ y \in 1..n
        BY <1>1, <3>3
      <4>2. m \in Nat /\ x <= m /\ m < y
        <5> HIDE DEF n
        <5> QED BY <1>1, <3>3, <4>1, HalfSpans
      <4>3. B[<<x, y>>] = B[<<x, m>>] + B[<<m + 1, y>>]
        <5>1. <<x, y>>[1] = x /\ <<x, y>>[2] = y /\ ~(x > y) /\ x # y
          BY <1>1, <3>3
        <5> QED BY <1>7, <5>1 DEF HalvesOf
      <4> HIDE DEF m
      <4>4. /\ m \in 0..n /\ m + 1 \in 1..n + 1 /\ x <= m + 1 /\ m - x < d
            /\ m + 1 <= y + 1 /\ y - (m + 1) < d /\ m + 1 - 1 = m
        BY <1>1, <2>1, <2>2, <4>1, <4>2
      <4>5. B[<<x, m>>] = f[m] - f[x - 1] /\ B[<<m + 1, y>>] = f[y] - f[m]
        BY <2>1, <4>4
      <4>6. f[m] \in Nat /\ f[y] \in Nat /\ f[x - 1] \in Nat
        BY <1>8, <4>4
      <4> QED BY <4>3, <4>5, <4>6
    <3> QED BY <1>1, <2>2, <3>1, <3>2, <3>3
  <2>3. Right(d + 1) /\ d + 1 \in 0..n
    BY <1>1, <2>2
  <2> HIDE DEF Right
  <2> QED BY <2>3
<1>12. n \in S
  <2> HIDE DEF S
  <2>1. 0..n \subseteq S
    BY <1>1, <1>10, <1>11, NatByInduction
  <2> QED BY <1>1, <2>1
<1>13. Right(n)
  <2> HIDE DEF Right
  <2> QED BY <1>12
<1> SUFFICES ASSUME NEW x \in 1..n + 1, NEW y \in 0..n, x <= y + 1
             PROVE  B[<<x, y>>] = f[y] - f[x - 1]
  BY DEF B
<1>14. y - x < n
  BY <1>1
<1> QED BY <1>13, <1>14

\* Pass 1 counts from zero, line by line.
LEMMA BeforeIs ==
    ASSUME NEW isa, NEW txt, NEW w, Len(txt) \in Nat
    PROVE  /\ Before(isa, txt, w, 1) = 0
           /\ \A k \in 1..Len(txt) + 1 : Before(isa, txt, w, k) \in Nat
           /\ \A k \in 1..Len(txt) :
                 Before(isa, txt, w, k + 1) = Before(isa, txt, w, k) + Own(isa, txt, w, k)
<1> DEFINE n == Len(txt)
<1>1. PICK f \in [0..n -> Nat] : f[0] = 0 /\ \A k \in 1..n : f[k] = f[k - 1] + Own(isa, txt, w, k)
  BY Totals
<1>2. \A k \in 1..n + 1 : Before(isa, txt, w, k) = f[k - 1]
  <2> TAKE k \in 1..n + 1
  <2>1. 1 \in 1..n + 1 /\ k - 1 \in 0..n /\ 1 <= (k - 1) + 1 /\ 1 - 1 = 0
    OBVIOUS
  <2>2. Bytes(isa, txt, w)[<<1, k - 1>>] = f[k - 1] - f[0]
    BY <1>1, <2>1, BytesAreDifferences
  <2>3. f[k - 1] \in Nat
    BY <2>1
  <2> QED BY <1>1, <2>2, <2>3 DEF Before
<1>3. \A k \in 1..n : k \in 1..n + 1 /\ k + 1 \in 1..n + 1 /\ k + 1 - 1 = k
  OBVIOUS
<1>4. 1 \in 1..n + 1 /\ 1 - 1 = 0
  OBVIOUS
<1>5. \A k \in 1..n + 1 : f[k - 1] \in Nat
  OBVIOUS
<1> HIDE DEF n
<1>6. Before(isa, txt, w, 1) = 0 /\ \A k \in 1..n + 1 : Before(isa, txt, w, k) \in Nat
  BY <1>1, <1>2, <1>4, <1>5
<1>7. \A k \in 1..n :
         Before(isa, txt, w, k + 1) = Before(isa, txt, w, k) + Own(isa, txt, w, k)
  BY <1>1, <1>2, <1>3
<1> QED BY <1>6, <1>7 DEF n

\* The bytes between two lines do not shrink when no line in between does.
LEMMA BetweenGrows ==
    ASSUME NEW isa, NEW txt, NEW w, NEW u, Len(txt) \in Nat,
           \A k \in 1..Len(txt) : Own(isa, txt, w, k) <= Own(isa, txt, u, k),
           NEW x \in 1..Len(txt) + 1, NEW y \in 1..Len(txt) + 1, x <= y
    PROVE  /\ 0 <= Before(isa, txt, w, y) - Before(isa, txt, w, x)
           /\ Before(isa, txt, w, y) - Before(isa, txt, w, x)
                <= Before(isa, txt, u, y) - Before(isa, txt, u, x)
<1> DEFINE n == Len(txt)
           W(k) == Before(isa, txt, w, k)
           U(k) == Before(isa, txt, u, k)
           S == {d \in 0..n : x + d <= n + 1 =>
                                 0 <= W(x + d) - W(x) /\ W(x + d) - W(x) <= U(x + d) - U(x)}
<1>1. n \in Nat /\ x \in Nat /\ y \in Nat /\ \A k \in 1..n + 1 : W(k) \in Nat /\ U(k) \in Nat
  <2>1. \A k \in 1..n + 1 : W(k) \in Nat
    BY BeforeIs
  <2>2. \A k \in 1..n + 1 : U(k) \in Nat
    BY BeforeIs
  <2> HIDE DEF W, U
  <2> QED BY <2>1, <2>2
<1>2. 0 \in S
  <2>1. x + 0 = x /\ 0 \in 0..n
    BY <1>1
  <2> QED BY <1>1, <2>1
<1>3. ASSUME NEW d \in 0..(n - 1), d \in S PROVE d + 1 \in S
  <2>1. d + 1 \in 0..n /\ d \in Nat
    BY <1>1
  <2>2. ASSUME x + (d + 1) <= n + 1
        PROVE  /\ 0 <= W(x + (d + 1)) - W(x)
               /\ W(x + (d + 1)) - W(x) <= U(x + (d + 1)) - U(x)
    <3>1. PICK k \in 1..n : k = x + d /\ k + 1 = x + (d + 1)
      BY <1>1, <2>1, <2>2
    <3>2. W(k + 1) = W(k) + Own(isa, txt, w, k) /\ U(k + 1) = U(k) + Own(isa, txt, u, k)
      BY <3>1, BeforeIs
    <3>3. 0 <= W(k) - W(x) /\ W(k) - W(x) <= U(k) - U(x)
      BY <1>1, <1>3, <2>1, <2>2, <3>1
    <3>4. /\ Own(isa, txt, w, k) \in Nat /\ Own(isa, txt, u, k) \in Nat
          /\ Own(isa, txt, w, k) <= Own(isa, txt, u, k)
      BY <3>1, OwnType
    <3>5. W(k) \in Nat /\ U(k) \in Nat /\ W(x) \in Nat /\ U(x) \in Nat
      BY <1>1, <3>1
    <3> HIDE DEF W, U, n
    <3>6. 0 <= W(k + 1) - W(x) /\ W(k + 1) - W(x) <= U(k + 1) - U(x)
      BY <3>2, <3>3, <3>4, <3>5
    <3> QED BY <3>1, <3>6
  <2> HIDE DEF W, U
  <2> QED BY <2>1, <2>2
<1>4. PICK d \in 0..n : x + d = y
  BY <1>1
<1>5. d \in S
  <2> HIDE DEF S
  <2>1. 0..n \subseteq S
    BY <1>1, <1>2, <1>3, NatByInduction
  <2> QED BY <1>1, <1>4, <2>1
<1> HIDE DEF W, U
<1>6. 0 <= W(y) - W(x) /\ W(y) - W(x) <= U(y) - U(x)
  <2>1. x + d <= n + 1
    BY <1>1, <1>4
  <2>2. 0 <= W(x + d) - W(x) /\ W(x + d) - W(x) <= U(x + d) - U(x)
    BY <1>5, <2>1
  <2> QED BY <1>4, <2>2
<1> QED BY <1>6 DEF W, U

\* The same bytes: no line in between has become longer or shorter.
LEMMA OwnGrows ==
    ASSUME NEW isa, NEW txt, NEW w, NEW u, w \subseteq u, NEW k
    PROVE  Own(isa, txt, w, k) <= Own(isa, txt, u, k)
<1>1. \A i : X86!EstimatedSize(i, FALSE) \in 1..6 /\ X86!EstimatedSize(i, TRUE) \in 1..6
             /\ X86!EstimatedSize(i, FALSE) <= X86!EstimatedSize(i, TRUE)
  BY DEF X86!EstimatedSize
<1>2. ASSUME NEW i PROVE SizeAt(isa, i, FALSE) <= SizeAt(isa, i, TRUE)
  <2>1. CASE isa = "x86"
    <3>1. /\ SizeAt(isa, i, FALSE) = X86!EstimatedSize(i, FALSE)
          /\ SizeAt(isa, i, TRUE) = X86!EstimatedSize(i, TRUE)
      BY <2>1 DEF SizeAt
    <3> QED BY <1>1, <3>1
  <2>2. CASE isa # "x86"
    <3>1. SizeAt(isa, i, FALSE) = 4 /\ SizeAt(isa, i, TRUE) = 4
      BY <2>2 DEF SizeAt
    <3>2. 4 <= 4
      OBVIOUS
    <3> QED BY <3>1, <3>2, Zenon
  <2> QED BY <2>1, <2>2
<1>3. \A i : \A long \in BOOLEAN : SizeAt(isa, i, long) <= SizeAt(isa, i, long)
  BY SizeType
<1>4. (k \in w) \in BOOLEAN /\ (k \in u) \in BOOLEAN
  OBVIOUS
<1>5. SizeAt(isa, txt[k], k \in w) <= SizeAt(isa, txt[k], k \in u)
  <2>1. CASE k \in w
    <3>1. (k \in w) = TRUE /\ (k \in u) = TRUE
      BY <2>1
    <3> QED BY <3>1, <1>3
  <2>2. CASE k \notin w /\ k \in u
    <3>1. (k \in w) = FALSE /\ (k \in u) = TRUE
      BY <2>2
    <3> QED BY <3>1, <1>2
  <2>3. CASE k \notin u
    <3>1. (k \in w) = FALSE /\ (k \in u) = FALSE
      BY <2>3
    <3> QED BY <3>1, <1>3
  <2> QED BY <2>1, <2>2, <2>3
<1> QED BY <1>5 DEF Own

-----------------------------------------------------------------------------
(* What pass 1 finds.                                                       *)

\* The line that defines a label.
Labelled(txt)     == {k \in DOMAIN txt : IsLabel(txt[k])}
Definition(txt, l) == CHOOSE k \in Labelled(txt) : txt[k].label = l

LEMMA Pass1Is ==
    ASSUME NEW isa, NEW txt, NEW w
    PROVE  LET layo == Pass1(isa, txt, w)
           IN /\ layo.pc = Before(isa, txt, w, Len(txt) + 1)
              /\ \A k \in DOMAIN txt : layo.at[k] = Before(isa, txt, w, k)
              /\ DOMAIN layo.labels = {txt[k].label : k \in Labelled(txt)}
              /\ \A l \in DOMAIN layo.labels :
                    layo.labels[l] = Before(isa, txt, w, Definition(txt, l))
BY DEF Pass1, Before, Labelled, Definition

LEMMA DefinitionIs ==
    ASSUME NEW txt, NEW l \in {txt[k].label : k \in Labelled(txt)}
    PROVE  /\ Definition(txt, l) \in DOMAIN txt /\ IsLabel(txt[Definition(txt, l)])
           /\ txt[Definition(txt, l)].label = l
BY DEF Definition, Labelled

-----------------------------------------------------------------------------
(* Relaxation.                                                              *)

\* What AssemblerInit says of the job and its text, which no action changes.
Loaded ==
    /\ job.isa \in ISAs
    /\ text \in Seq(Range(text)) \ {<<>>}
    /\ \A k \in DOMAIN text : WellFormed(job.isa, text[k])

\* The branch of line k did not fit its short form with only the lines of w long.
DidNotFit(k, w) == k \in TooFar(job.isa, text, w, Pass1(job.isa, text, w))

\* Every long line was found too far at a moment when it was not long itself.
Relaxed ==
    /\ wide \subseteq DOMAIN text
    /\ \A k \in wide : \E w \in SUBSET wide : k \notin w /\ DidNotFit(k, w)
    /\ phase \in {"encode", "assembled"} => layout = Pass1(job.isa, text, wide)
    /\ phase = "assembled" => TooFar(job.isa, text, wide, layout) = {}

LEMMA LoadedIsKept ==
    AssemblerSpec => []Loaded
<1>1. AssemblerInit => Loaded
  BY DEF AssemblerInit, Loaded
<1>2. Loaded /\ [AssemblerNext]_<<job, phase, text, wide, layout, image>> => Loaded'
  BY DEF Loaded, AssemblerNext, Place, Relax, Encode
<1> QED BY <1>1, <1>2, PTL DEF AssemblerSpec

LEMMA RelaxedIsKept ==
    AssemblerSpec => []Relaxed
<1>1. AssemblerInit => Relaxed
  BY DEF AssemblerInit, Relaxed, Unplaced
<1>2. Relaxed /\ [AssemblerNext]_<<job, phase, text, wide, layout, image>> => Relaxed'
  <2> SUFFICES ASSUME Relaxed, [AssemblerNext]_<<job, phase, text, wide, layout, image>>
               PROVE  Relaxed'
    OBVIOUS
  <2>1. CASE Place
    BY <2>1 DEF Place, Relaxed, DidNotFit
  <2>2. CASE Relax
    <3>1. /\ phase = "encode" /\ phase' = "layout" /\ wide' = wide \union Overlong
          /\ job' = job /\ text' = text
      BY <2>2 DEF Relax
    <3>2. Overlong \subseteq DOMAIN text \ wide
      BY DEF Overlong, TooFar
    <3>3. \A k \in Overlong : DidNotFit(k, wide)
      BY <3>1 DEF Overlong, DidNotFit, Relaxed
    <3>4. \A k, w : DidNotFit(k, w)' <=> DidNotFit(k, w)
      BY <3>1 DEF DidNotFit
    <3>5. \A k \in wide' : \E w \in SUBSET wide' : k \notin w /\ DidNotFit(k, w)
      BY <3>1, <3>2, <3>3 DEF Relaxed
    <3>6. \A k \in wide' : \E w \in SUBSET wide' : k \notin w /\ DidNotFit(k, w)'
      BY <3>4, <3>5
    <3>7. (wide \subseteq DOMAIN text)'
      BY <3>1, <3>2 DEF Relaxed
    <3> QED BY <3>1, <3>6, <3>7 DEF Relaxed
  <2>3. CASE Encode
    BY <2>3 DEF Encode, Relaxed, DidNotFit, Overlong
  <2>4. CASE UNCHANGED <<job, phase, text, wide, layout, image>>
    BY <2>4 DEF Relaxed, DidNotFit
  <2> QED BY <2>1, <2>2, <2>3, <2>4 DEF AssemblerNext
<1> QED BY <1>1, <1>2, PTL DEF AssemblerSpec

LEMMA Shorts ==
    \A v \in Int : FitsSigned(v, 8) <=> -128 <= v /\ v < 128
<1>1. 2^7 = 128
  BY PowersOfTwo
<1> QED BY <1>1 DEF FitsSigned

\* A branch of an x86 program is longer by the growth of its long form.
LEMMA LongBranch ==
    ASSUME NEW txt, NEW k, NEW w, NEW u, k \notin w, k \in u,
           X86!IsBranch(txt[k]), ~IsLabel(txt[k])
    PROVE  /\ Own("x86", txt, w, k) = 2
           /\ Own("x86", txt, u, k) = SizeAt("x86", txt[k], TRUE)
           /\ SizeAt("x86", txt[k], TRUE) \in {5, 6}
<1>1. Own("x86", txt, w, k) = X86!EstimatedSize(txt[k], FALSE)
  <2>1. (k \in w) = FALSE
    OBVIOUS
  <2> QED BY <2>1 DEF Own, SizeAt
<1>2. Own("x86", txt, u, k) = SizeAt("x86", txt[k], TRUE)
  <2>1. (k \in u) = TRUE
    OBVIOUS
  <2> QED BY <2>1 DEF Own
<1>3. X86!EstimatedSize(txt[k], FALSE) = 2 /\ X86!EstimatedSize(txt[k], TRUE) \in {5, 6}
  <2>1. \A i : X86!IsBranch(i) => X86!EstimatedSize(i, FALSE) = 2
    BY DEF X86!EstimatedSize, X86!IsBranch, X86!JccCode, X86!AluOpcode
  <2>2. \A i : X86!IsBranch(i) => X86!EstimatedSize(i, TRUE) = IF i.mn = "JMP" THEN 5 ELSE 6
    BY DEF X86!EstimatedSize, X86!IsBranch, X86!JccCode, X86!AluOpcode
  <2> QED BY <2>1, <2>2
<1> QED BY <1>1, <1>2, <1>3 DEF SizeAt

\* Lengthening a branch and others moves its target away from it by the growth of
\* the branch itself at least, if it jumps forward, and not nearer if backward.
LEMMA TargetRecedes ==
    ASSUME NEW txt, Len(txt) \in Nat, NEW w, NEW u, w \subseteq u,
           NEW k \in 1..Len(txt), NEW j \in 1..Len(txt), k # j, k \notin w, k \in u,
           X86!IsBranch(txt[k]), ~IsLabel(txt[k])
    PROVE  LET short == Before("x86", txt, w, j) - Before("x86", txt, w, k)
               long  == Before("x86", txt, u, j) - Before("x86", txt, u, k)
           IN /\ k < j => short >= 2 /\ long > 0 /\ long >= short + SizeAt("x86", txt[k], TRUE) - 2
              /\ j < k => short <= 0 /\ long <= short
<1> DEFINE W(i) == Before("x86", txt, w, i)
           U(i) == Before("x86", txt, u, i)
           n == Len(txt)
           size == SizeAt("x86", txt[k], TRUE)
<1>1. \A i \in 1..Len(txt) : Own("x86", txt, w, i) <= Own("x86", txt, u, i)
  BY OwnGrows
<1>2. k \in 1..n + 1 /\ j \in 1..n + 1 /\ k + 1 \in 1..n + 1 /\ k \in Nat /\ j \in Nat
  OBVIOUS
<1>3. W(k + 1) = W(k) + 2 /\ U(k + 1) = U(k) + size /\ size \in {5, 6}
  <2>1. /\ Own("x86", txt, w, k) = 2 /\ Own("x86", txt, u, k) = size /\ size \in {5, 6}
    BY LongBranch
  <2>2. W(k + 1) = W(k) + Own("x86", txt, w, k)
    BY BeforeIs
  <2>3. U(k + 1) = U(k) + Own("x86", txt, u, k)
    BY BeforeIs
  <2> HIDE DEF W, U, size
  <2> QED BY <2>1, <2>2, <2>3
<1>4. /\ W(k) \in Nat /\ W(j) \in Nat /\ U(k) \in Nat /\ U(j) \in Nat
      /\ W(k + 1) \in Nat /\ U(k + 1) \in Nat
  BY <1>2, BeforeIs
<1>5. ASSUME k < j
      PROVE  W(j) - W(k) >= 2 /\ U(j) - U(k) > 0 /\ U(j) - U(k) >= W(j) - W(k) + size - 2
  <2>1. k + 1 <= j
    BY <1>2, <1>5
  <2>2. 0 <= W(j) - W(k + 1) /\ W(j) - W(k + 1) <= U(j) - U(k + 1)
    BY <1>1, <1>2, <2>1, BetweenGrows
  <2> HIDE DEF W, U, size, n
  <2>3. W(j) - W(k) >= 2
    BY <1>3, <1>4, <2>2
  <2>4. U(j) - U(k) >= W(j) - W(k) + size - 2
    <3>1. PICK g \in Int : g = size
      BY <1>3
    <3>2. W(j) - (W(k) + 2) <= U(j) - (U(k) + g)
      BY <1>3, <2>2, <3>1
    <3>3. U(j) - U(k) >= W(j) - W(k) + g - 2
      BY <1>4, <3>1, <3>2
    <3> QED BY <3>1, <3>3
  <2>5. U(j) - U(k) > 0
    BY <1>3, <1>4, <2>3, <2>4
  <2> QED BY <2>3, <2>4, <2>5
<1>6. ASSUME j < k
      PROVE  W(j) - W(k) <= 0 /\ U(j) - U(k) <= W(j) - W(k)
  <2>1. j <= k
    BY <1>2, <1>6
  <2>2. 0 <= W(k) - W(j) /\ W(k) - W(j) <= U(k) - U(j)
    BY <1>1, <1>2, <2>1, BetweenGrows
  <2> HIDE DEF W, U, size, n
  <2> QED BY <1>4, <2>2
<1> QED BY <1>5, <1>6

\* Relaxation lengthens no branch that would still fit: LongOnlyWhenNeeded.
LEMMA RelaxedIsNeeded ==
    Loaded /\ Relaxed => LongOnlyWhenNeeded
<1> SUFFICES ASSUME Loaded, Relaxed, phase = "assembled", NEW k \in wide
             PROVE  LET size   == SizeAt("x86", text[k], TRUE)
                        target == layout.labels[text[k].label]
                        growth == IF target > layout.at[k] THEN size - 2 ELSE 0
                    IN ~FitsSigned(target - layout.at[k] - 2 - growth, 8)
  BY DEF LongOnlyWhenNeeded
<1>1. PICK w \in SUBSET wide : k \notin w /\ DidNotFit(k, w)
  BY DEF Relaxed
<1> DEFINE first == Pass1(job.isa, text, w)
           l == text[k].label
           j == Definition(text, l)
           W(i) == Before("x86", text, w, i)
           U(i) == Before("x86", text, wide, i)
           size == SizeAt("x86", text[k], TRUE)
<1>2. /\ k \in DOMAIN text /\ job.isa = "x86" /\ X86!IsBranch(text[k])
      /\ l \in DOMAIN first.labels /\ ~FitsSigned(first.labels[l] - first.at[k] - 2, 8)
  BY <1>1 DEF DidNotFit, TooFar
<1>3. Len(text) \in Nat /\ DOMAIN text = 1..Len(text)
  BY DEF Loaded
<1>4. l \in {text[i].label : i \in Labelled(text)}
  BY <1>2, Pass1Is
<1>5. ~IsLabel(text[k])
  BY <1>2 DEF X86!IsBranch, IsLabel, X86!JccCode
<1>6. j \in 1..Len(text) /\ k \in 1..Len(text) /\ j # k
  <2> HIDE DEF l
  <2> QED BY <1>2, <1>3, <1>4, <1>5, DefinitionIs
<1>7. first.labels[l] = W(j) /\ first.at[k] = W(k)
  BY <1>2, Pass1Is
<1>8. layout.labels[l] = U(j) /\ layout.at[k] = U(k)
  <2>1. layout = Pass1("x86", text, wide)
    BY <1>2 DEF Relaxed
  <2>2. l \in DOMAIN Pass1("x86", text, wide).labels
    BY <1>4, Pass1Is
  <2> QED BY <1>2, <2>1, <2>2, Pass1Is
<1>9. /\ W(j) \in Nat /\ W(k) \in Nat /\ U(j) \in Nat /\ U(k) \in Nat
  <2>1. j \in 1..Len(text) + 1 /\ k \in 1..Len(text) + 1
    BY <1>3, <1>6
  <2> HIDE DEF j
  <2> QED BY <1>3, <2>1, BeforeIs
<1>10. /\ k < j => W(j) - W(k) >= 2 /\ U(j) - U(k) > 0 /\ U(j) - U(k) >= W(j) - W(k) + size - 2
       /\ j < k => W(j) - W(k) <= 0 /\ U(j) - U(k) <= W(j) - W(k)
  <2> HIDE DEF j
  <2> QED BY <1>1, <1>2, <1>3, <1>5, <1>6, TargetRecedes
<1>11. size \in {5, 6}
  BY <1>2, <1>5, <1>1, LongBranch
<1> DEFINE growth == IF U(j) > U(k) THEN size - 2 ELSE 0
<1>12. ~FitsSigned(U(j) - U(k) - 2 - growth, 8)
  <2>1. ~FitsSigned(W(j) - W(k) - 2, 8)
    BY <1>2, <1>7
  <2>2. k \in Nat /\ j \in Nat
    BY <1>3, <1>6
  <2> HIDE DEF W, U, size, j
  <2>3. W(j) - W(k) - 2 \in Int /\ U(j) - U(k) - 2 - growth \in Int
    BY <1>9, <1>11
  <2>4. ~(-128 <= W(j) - W(k) - 2 /\ W(j) - W(k) - 2 < 128)
    BY <2>1, <2>3, Shorts
  <2>5. ~(-128 <= U(j) - U(k) - 2 - growth /\ U(j) - U(k) - 2 - growth < 128)
    BY <1>6, <1>9, <1>10, <1>11, <2>2, <2>4
  <2> QED BY <2>3, <2>5, Shorts
<1> HIDE DEF W, U
<1> QED BY <1>8, <1>12

\* A branch is long only if it has to be, on every text, whatever relaxation did on
\* the way: LongOnlyWhenNeeded.
THEOREM NoneIsLongInVain ==
    AssemblerSpec => []LongOnlyWhenNeeded
<1> QED BY LoadedIsKept, RelaxedIsKept, RelaxedIsNeeded, PTL

\* A branch that does not fit its short form does not fit it either when more of
\* the others are long.
LEMMA StaysTooFar ==
    ASSUME Loaded, NEW u, NEW w \in SUBSET u, NEW k, k \notin u, DidNotFit(k, w)
    PROVE  DidNotFit(k, u)
<1> DEFINE first == Pass1(job.isa, text, w)
           later == Pass1(job.isa, text, u)
           l == text[k].label
           j == Definition(text, l)
           W(i) == Before("x86", text, w, i)
           U(i) == Before("x86", text, u, i)
<1>1. /\ k \in DOMAIN text /\ job.isa = "x86" /\ X86!IsBranch(text[k])
      /\ l \in DOMAIN first.labels /\ ~FitsSigned(first.labels[l] - first.at[k] - 2, 8)
  BY DEF DidNotFit, TooFar
<1>2. Len(text) \in Nat /\ DOMAIN text = 1..Len(text)
  BY DEF Loaded
<1>3. l \in {text[i].label : i \in Labelled(text)}
  BY <1>1, Pass1Is
<1>4. ~IsLabel(text[k])
  BY <1>1 DEF X86!IsBranch, IsLabel, X86!JccCode
<1>5. j \in 1..Len(text) /\ k \in 1..Len(text) /\ j # k
  <2> HIDE DEF l
  <2> QED BY <1>1, <1>2, <1>3, <1>4, DefinitionIs
<1>6. first.labels[l] = W(j) /\ first.at[k] = W(k)
  BY <1>1, Pass1Is
<1>7. l \in DOMAIN later.labels /\ later.labels[l] = U(j) /\ later.at[k] = U(k)
  <2>1. l \in DOMAIN later.labels
    BY <1>3, Pass1Is
  <2> QED BY <1>1, <2>1, Pass1Is
<1>8. /\ j \in 1..Len(text) + 1 /\ k \in 1..Len(text) + 1 /\ k + 1 \in 1..Len(text) + 1
      /\ k \in Nat /\ j \in Nat
  <2> HIDE DEF j
  <2> QED BY <1>2, <1>5
<1>9. /\ W(j) \in Nat /\ W(k) \in Nat /\ U(j) \in Nat /\ U(k) \in Nat
      /\ W(k + 1) \in Nat /\ U(k + 1) \in Nat
  <2> HIDE DEF j
  <2> QED BY <1>2, <1>8, BeforeIs
<1>10. \A i \in 1..Len(text) : Own("x86", text, w, i) <= Own("x86", text, u, i)
  BY OwnGrows
<1>11. W(k + 1) = W(k) + 2 /\ U(k + 1) = U(k) + 2
  <2>1. Own("x86", text, w, k) = 2 /\ Own("x86", text, u, k) = 2
    <3>1. k \notin w /\ k \notin u /\ k \in {k}
      OBVIOUS
    <3> QED BY <1>1, <1>4, <3>1, LongBranch
  <2>2. /\ W(k + 1) = W(k) + Own("x86", text, w, k)
        /\ U(k + 1) = U(k) + Own("x86", text, u, k)
    BY <1>2, <1>5, BeforeIs
  <2> HIDE DEF W, U
  <2> QED BY <2>1, <2>2
<1>12. CASE k < j
  <2>1. k + 1 <= j
    BY <1>8, <1>12
  <2>2. 0 <= W(j) - W(k + 1) /\ W(j) - W(k + 1) <= U(j) - U(k + 1)
    <3> HIDE DEF j
    <3> QED BY <1>2, <1>8, <1>10, <2>1, BetweenGrows
  <2>3. ~FitsSigned(W(j) - W(k) - 2, 8)
    BY <1>1, <1>6
  <2> HIDE DEF W, U, j
  <2>4. W(j) - W(k) - 2 \in Int /\ U(j) - U(k) - 2 \in Int
    BY <1>9
  <2>5. 0 <= W(j) - W(k) - 2 /\ W(j) - W(k) - 2 <= U(j) - U(k) - 2
    BY <1>9, <1>11, <2>2
  <2>6. ~FitsSigned(U(j) - U(k) - 2, 8)
    BY <2>3, <2>4, <2>5, Shorts
  <2> QED BY <1>1, <1>7, <2>6 DEF DidNotFit, TooFar, W, U, j
<1>13. CASE j < k
  <2>1. j <= k
    BY <1>8, <1>13
  <2>2. 0 <= W(k) - W(j) /\ W(k) - W(j) <= U(k) - U(j)
    <3> HIDE DEF j
    <3> QED BY <1>2, <1>8, <1>10, <2>1, BetweenGrows
  <2>3. ~FitsSigned(W(j) - W(k) - 2, 8)
    BY <1>1, <1>6
  <2> HIDE DEF W, U, j
  <2>4. W(j) - W(k) - 2 \in Int /\ U(j) - U(k) - 2 \in Int
    BY <1>9
  <2>5. W(j) - W(k) - 2 < 0 /\ U(j) - U(k) - 2 <= W(j) - W(k) - 2
    BY <1>9, <2>2
  <2>6. ~FitsSigned(U(j) - U(k) - 2, 8)
    BY <2>3, <2>4, <2>5, Shorts
  <2> QED BY <1>1, <1>7, <2>6 DEF DidNotFit, TooFar, W, U, j
<1> HIDE DEF j
<1> QED BY <1>5, <1>8, <1>12, <1>13

\* The lines u may be the long ones: every branch that stays short fits.
Suffices(u) == TooFar(job.isa, text, u, Pass1(job.isa, text, u)) = {}

\* No line is long that is short in a choice with which every short branch fits.
Smallest == \A u \in SUBSET DOMAIN text : Suffices(u) => wide \subseteq u

\* However relaxation goes, it ends with the fewest long branches there can be:
\* they suffice, and every choice that suffices has them all.
THEOREM FewestLongBranches ==
    AssemblerSpec => [](Smallest /\ (phase = "assembled" => Suffices(wide)))
<1>1. AssemblerInit => Smallest
  BY DEF AssemblerInit, Unplaced, Smallest
<1>2. /\ Loaded /\ Relaxed /\ Smallest /\ [AssemblerNext]_<<job, phase, text, wide, layout, image>>
      => Smallest'
  <2> SUFFICES ASSUME Loaded, Relaxed, Smallest,
                      [AssemblerNext]_<<job, phase, text, wide, layout, image>>
               PROVE  Smallest'
    OBVIOUS
  <2>1. job' = job /\ text' = text
    BY DEF AssemblerNext, Place, Relax, Encode
  <2>2. \A u : Suffices(u)' <=> Suffices(u)
    BY <2>1 DEF Suffices
  <2>3. CASE Relax
    <3>1. ASSUME NEW u \in SUBSET DOMAIN text, Suffices(u), NEW k \in Overlong PROVE k \in u
      <4>1. wide \subseteq u
        BY <3>1 DEF Smallest
      <4>2. DidNotFit(k, wide)
        BY <2>3 DEF Relax, Relaxed, Overlong, DidNotFit
      <4>3. k \notin u => DidNotFit(k, u)
        <5>1. PICK w : w = wide
          OBVIOUS
        <5> QED BY <4>1, <4>2, <5>1, StaysTooFar
      <4> QED BY <3>1, <4>3 DEF DidNotFit, Suffices
    <3>2. wide' = wide \union Overlong
      BY <2>3 DEF Relax
    <3>3. \A u \in SUBSET DOMAIN text : Suffices(u) => wide' \subseteq u
      BY <3>1, <3>2 DEF Smallest
    <3> QED BY <2>1, <2>2, <3>3 DEF Smallest
  <2>4. CASE Place \/ Encode \/ UNCHANGED <<job, phase, text, wide, layout, image>>
    <3>1. wide' = wide
      BY <2>4 DEF Place, Encode
    <3> QED BY <2>1, <2>2, <3>1 DEF Smallest
  <2> QED BY <2>3, <2>4 DEF AssemblerNext
<1>3. Relaxed => (phase = "assembled" => Suffices(wide))
  BY DEF Relaxed, Suffices
<1> QED BY <1>1, <1>2, <1>3, LoadedIsKept, RelaxedIsKept, PTL DEF AssemblerSpec

-----------------------------------------------------------------------------
(* Pass 2: the image is the encoded lines, one behind the other.            *)

LEMMA ConcatIs ==
    ASSUME NEW S, NEW s \in Seq(S), NEW t \in Seq(S)
    PROVE  /\ s \o t \in Seq(S) /\ Len(s \o t) = Len(s) + Len(t)
           /\ Len(s) \in Nat /\ Len(t) \in Nat
           /\ \A m \in 1..Len(s) : (s \o t)[m] = s[m]
           /\ \A m \in 1..Len(t) : (s \o t)[Len(s) + m] = t[m]
<1>1. s \o t \in Seq(S) /\ Len(s \o t) = Len(s) + Len(t) /\ Len(s) \in Nat /\ Len(t) \in Nat
  OBVIOUS
<1>2. \A m \in 1..Len(s) : (s \o t)[m] = s[m]
  OBVIOUS
<1>3. \A m \in 1..Len(t) : (s \o t)[Len(s) + m] = t[m]
  OBVIOUS
<1> QED BY <1>1, <1>2, <1>3

\* r is s with t behind it.
Extends(S, r, s, t) ==
    /\ r \in Seq(S) /\ Len(r) = Len(s) + Len(t)
    /\ Len(r) \in Nat /\ Len(s) \in Nat /\ Len(t) \in Nat /\ Len(s) <= Len(r)
    /\ \A m \in 1..Len(s) : r[m] = s[m]
    /\ \A m \in 1..Len(t) : r[Len(s) + m] = t[m] /\ Len(s) + m <= Len(r)
    /\ \A o \in Nat, m \in Nat \ {0} :
          o + m <= Len(s) => o + m \in 1..Len(s) /\ o + m <= Len(r)
LEMMA ConcatExtends ==
    ASSUME NEW S, NEW s \in Seq(S), NEW t \in Seq(S)
    PROVE  Extends(S, s \o t, s, t)
<1>1. /\ s \o t \in Seq(S) /\ Len(s \o t) = Len(s) + Len(t)
      /\ Len(s) \in Nat /\ Len(t) \in Nat /\ Len(s \o t) \in Nat /\ Len(s) <= Len(s \o t)
  BY ConcatIs
<1>2. \A m \in 1..Len(s) : (s \o t)[m] = s[m]
  BY ConcatIs
<1>3. \A m \in 1..Len(t) : (s \o t)[Len(s) + m] = t[m]
  BY ConcatIs
<1>4. \A m \in 1..Len(t) : Len(s) + m <= Len(s \o t)
  BY <1>1
<1>5. \A o \in Nat, m \in Nat \ {0} :
         o + m <= Len(s) => o + m \in 1..Len(s) /\ o + m <= Len(s \o t)
  BY <1>1
<1> QED BY <1>1, <1>2, <1>3, <1>4, <1>5 DEF Extends

\* What FlattenSeq does: every sequence is found in the result, at the offset that
\* the lengths of those before it add up to.
Laid(seqs) ==
    \E off \in [1..Len(seqs) + 1 -> Nat] :
       /\ off[1] = 0
       /\ \A k \in 1..Len(seqs) : off[k + 1] = off[k] + Len(seqs[k])
       /\ Len(FlattenSeq(seqs)) = off[Len(seqs) + 1]
       /\ \A k \in 1..Len(seqs) : \A m \in 1..Len(seqs[k]) :
             /\ off[k] + m <= Len(FlattenSeq(seqs))
             /\ FlattenSeq(seqs)[off[k] + m] = seqs[k][m]

LEMMA FlattenIs ==
    ASSUME NEW S, NEW seqs, Len(seqs) \in Nat \ {0}, \A k \in 1..Len(seqs) : seqs[k] \in Seq(S)
    PROVE  Laid(seqs) /\ FlattenSeq(seqs) \in Seq(S)
<1> DEFINE n == Len(seqs)
           next(f, i) == IF i = 1 THEN seqs[i] ELSE f[i - 1] \o seqs[i]
           run == CHOOSE f : f = [i \in 1..n |-> next(f, i)]
           Upto(f, m) == \A i \in 1..m : f[i] = next(f, i)
           T == {m \in 0..n : \E f \in [1..n -> Seq(S)] : Upto(f, m)}
<1>1. n \in Nat /\ n >= 1 /\ \A k \in 1..n : seqs[k] \in Seq(S) /\ Len(seqs[k]) \in Nat
  OBVIOUS
<1>2. FlattenSeq(seqs) = run[n]
  <2>1. Len(seqs) # 0
    OBVIOUS
  <2> QED BY <2>1 DEF FlattenSeq
<1>3. 0 \in T
  <2> DEFINE f == [i \in 1..n |-> <<>>]
  <2>1. f \in [1..n -> Seq(S)] /\ 0 \in 0..n
    BY <1>1
  <2>2. Upto(f, 0)
    OBVIOUS
  <2> HIDE DEF f, Upto
  <2> QED BY <2>1, <2>2
<1>4. ASSUME NEW m \in 0..(n - 1), m \in T PROVE m + 1 \in T
  <2>1. PICK f \in [1..n -> Seq(S)] : Upto(f, m)
    BY <1>4
  <2>2. m \in Nat /\ m + 1 \in 1..n /\ m + 1 \in 0..n
    BY <1>1
  <2>3. next(f, m + 1) \in Seq(S)
    <3>1. CASE m + 1 = 1
      BY <1>1, <2>2, <3>1
    <3>2. CASE m + 1 # 1
      <4>1. (m + 1) - 1 \in 1..n
        BY <2>2, <3>2
      <4>2. f[(m + 1) - 1] \in Seq(S) /\ seqs[m + 1] \in Seq(S)
        BY <1>1, <2>2, <4>1
      <4> QED BY <3>2, <4>2
    <3> QED BY <3>1, <3>2
  <2> DEFINE g == [f EXCEPT ![m + 1] = next(f, m + 1)]
  <2>4. g \in [1..n -> Seq(S)]
    <3> HIDE DEF next
    <3> QED BY <2>2, <2>3
  <2>5. g[m + 1] = next(f, m + 1) /\ \A i \in 1..n : i # m + 1 => g[i] = f[i]
    <3> HIDE DEF next
    <3> QED BY <2>2
  <2> HIDE DEF g
  <2>6. ASSUME NEW i \in 1..(m + 1) PROVE g[i] = next(g, i)
    <3>1. i \in 1..n /\ i \in Nat /\ (i # 1 => i - 1 \in 1..n /\ i - 1 # m + 1)
      BY <2>2
    <3>2. next(g, i) = next(f, i)
      BY <2>5, <3>1
    <3>3. CASE i = m + 1
      <4> HIDE DEF next
      <4> QED BY <2>5, <3>2, <3>3
    <3>4. CASE i # m + 1
      <4>1. i \in 1..m
        BY <2>2, <3>1, <3>4
      <4>2. f[i] = next(f, i)
        BY <2>1, <4>1
      <4> HIDE DEF next
      <4> QED BY <2>5, <3>1, <3>2, <3>4, <4>2
    <3> QED BY <3>3, <3>4
  <2>7. Upto(g, m + 1)
    BY <2>6
  <2> HIDE DEF Upto
  <2> QED BY <2>2, <2>4, <2>7
<1>5. PICK f \in [1..n -> Seq(S)] : Upto(f, n)
  <2>1. n \in T
    <3> HIDE DEF T
    <3>1. 0..n \subseteq T
      BY <1>1, <1>3, <1>4, NatByInduction
    <3> QED BY <1>1, <3>1
  <2> HIDE DEF Upto
  <2> QED BY <2>1
<1>6. f = [i \in 1..n |-> next(f, i)]
  <2>1. \A i \in 1..n : f[i] = next(f, i)
    BY <1>5
  <2> HIDE DEF next
  <2> QED BY <2>1
<1>7. run = [i \in 1..n |-> next(run, i)]
  <2> HIDE DEF next
  <2> QED BY <1>6
<1> HIDE DEF run
<1>8. /\ run[1] = seqs[1]
      /\ \A i \in 1..(n - 1) : run[i + 1] = run[i] \o seqs[i + 1]
  <2>1. \A i \in 1..n : run[i] = next(run, i)
    <3> HIDE DEF next
    <3> QED BY <1>7
  <2>2. 1 \in 1..n /\ \A i \in 1..(n - 1) : i + 1 \in 1..n /\ i + 1 # 1 /\ (i + 1) - 1 = i
    BY <1>1
  <2> QED BY <2>1, <2>2
<1> DEFINE off == [k \in 1..n + 1 |-> IF k = 1 THEN 0 ELSE Len(run[k - 1])]
           Placed(k) == /\ run[k] \in Seq(S)
                        /\ \A i \in 1..k : off[i] \in Nat
                        /\ \A i \in 1..k : \A m \in 1..Len(seqs[i]) :
                              /\ off[i] + m <= Len(run[k])
                              /\ run[k][off[i] + m] = seqs[i][m]
           P == {k \in 0..(n - 1) : Placed(k + 1)}
<1>9. off[1] = 0 /\ \A k \in 1..n : off[k + 1] = Len(run[k])
  <2>1. 1 \in 1..n + 1 /\ \A k \in 1..n : k + 1 \in 1..n + 1 /\ k + 1 # 1 /\ (k + 1) - 1 = k
    BY <1>1
  <2> QED BY <2>1
<1> HIDE DEF off
<1>10. 0 \in P
  <2>1. run[1] \in Seq(S) /\ 0 \in 0..(n - 1) /\ 0 + 1 = 1
    BY <1>1, <1>8
  <2>2. ASSUME NEW i \in 1..1, NEW m \in 1..Len(seqs[i])
        PROVE  off[i] + m <= Len(run[1]) /\ run[1][off[i] + m] = seqs[i][m]
    <3>1. i = 1 /\ off[i] + m = m /\ m <= Len(run[1])
      BY <1>1, <1>8, <1>9
    <3> QED BY <1>8, <3>1
  <2>3. Placed(1)
    BY <1>9, <2>1, <2>2
  <2> HIDE DEF Placed
  <2> QED BY <2>1, <2>3
<1>11. ASSUME NEW j \in 0..((n - 1) - 1), j \in P PROVE j + 1 \in P
  <2> DEFINE k == j + 1
  <2>1. k \in 1..(n - 1) /\ k \in 1..n /\ k + 1 \in 1..n /\ k \in 0..(n - 1) /\ k \in Nat
    BY <1>1
  <2>2. Placed(k)
    BY <1>11
  <2> HIDE DEF k
  <2>3. run[k + 1] = run[k] \o seqs[k + 1] /\ run[k] \in Seq(S) /\ seqs[k + 1] \in Seq(S)
    BY <1>1, <1>8, <2>1, <2>2
  <2>4. Extends(S, run[k + 1], run[k], seqs[k + 1])
    BY <2>3, ConcatExtends, Zenon
  <2>5. ASSUME NEW i \in 1..(k + 1), NEW m \in 1..Len(seqs[i])
        PROVE  off[i] + m <= Len(run[k + 1]) /\ run[k + 1][off[i] + m] = seqs[i][m]
    <3>1. CASE i = k + 1
      <4>1. off[i] = Len(run[k])
        BY <1>9, <2>1, <3>1
      <4>2. m \in 1..Len(seqs[k + 1])
        BY <3>1
      <4>3. run[k + 1][Len(run[k]) + m] = seqs[k + 1][m] /\ Len(run[k]) + m <= Len(run[k + 1])
        BY <2>4, <4>2, Zenon DEF Extends
      <4> QED BY <3>1, <4>1, <4>3, Zenon
    <3>2. CASE i # k + 1
      <4>1. i \in 1..k /\ i \in 1..n
        BY <1>1, <2>1, <3>2
      <4>2. off[i] + m <= Len(run[k]) /\ run[k][off[i] + m] = seqs[i][m]
        BY <2>2, <4>1
      <4>3. off[i] \in Nat
        BY <2>2, <4>1
      <4>4. m \in Nat /\ m >= 1
        BY <1>1, <4>1
      <4>5. off[i] + m \in 1..Len(run[k]) /\ off[i] + m <= Len(run[k + 1])
        <5>1. m \in Nat \ {0}
          BY <4>4
        <5> QED BY <2>4, <4>2, <4>3, <5>1, Zenon DEF Extends
      <4> QED BY <2>4, <4>2, <4>5, Zenon DEF Extends
    <3> QED BY <3>1, <3>2
  <2>6. \A i \in 1..(k + 1) : off[i] \in Nat
    <3>1. off[k + 1] \in Nat
      <4>1. off[k + 1] = Len(run[k])
        BY <1>9, <2>1
      <4> QED BY <2>4, <4>1, Zenon DEF Extends
    <3>2. \A i \in 1..(k + 1) : i = k + 1 \/ i \in 1..k
      BY <2>1
    <3> QED BY <2>2, <3>1, <3>2
  <2>7. Placed(k + 1)
    <3>1. run[k + 1] \in Seq(S)
      BY <2>4, Zenon DEF Extends
    <3> QED BY <2>5, <2>6, <3>1
  <2> HIDE DEF Placed
  <2> QED BY <2>1, <2>7 DEF k
<1>12. \A k \in 1..n : Placed(k)
  <2>1. 0..(n - 1) \subseteq P
    <3>1. n - 1 \in Nat
      BY <1>1
    <3> HIDE DEF P
    <3> QED BY <1>10, <1>11, <3>1, NatByInduction
  <2>2. \A k \in 1..n : k - 1 \in 0..(n - 1) /\ (k - 1) + 1 = k
    BY <1>1
  <2> HIDE DEF Placed
  <2> QED BY <2>1, <2>2
<1>13. /\ \A k \in 1..n : run[k] \in Seq(S)
       /\ \A i \in 1..n : \A m \in 1..Len(seqs[i]) :
             off[i] + m <= Len(run[n]) /\ run[n][off[i] + m] = seqs[i][m]
  <2>1. n \in 1..n
    BY <1>1
  <2> QED BY <1>12, <2>1
<1>14. off \in [1..n + 1 -> Nat]
  <2>1. \A k \in 1..n + 1 : off[k] \in Nat
    <3> TAKE k \in 1..n + 1
    <3>1. k = 1 \/ \E h \in 1..n : k = h + 1
      <4>1. k # 1 => k - 1 \in 1..n /\ k = (k - 1) + 1
        BY <1>1
      <4> QED BY <4>1
    <3> QED BY <1>9, <1>13, <3>1
  <2> QED BY <2>1 DEF off
<1>15. \A k \in 1..n : off[k + 1] = off[k] + Len(seqs[k])
  <2> TAKE k \in 1..n
  <2>1. CASE k = 1
    BY <1>1, <1>8, <1>9, <2>1
  <2>2. CASE k # 1
    <3>1. PICK h \in 1..(n - 1) : k = h + 1 /\ h \in 1..n
      <4>1. k - 1 \in 1..(n - 1) /\ k = (k - 1) + 1 /\ k - 1 \in 1..n
        BY <1>1, <2>2
      <4> QED BY <4>1
    <3>2. run[k] = run[h] \o seqs[k] /\ run[h] \in Seq(S) /\ seqs[k] \in Seq(S)
      BY <1>1, <1>8, <1>13, <3>1
    <3>3. Len(run[k]) = Len(run[h]) + Len(seqs[k])
      BY <3>2
    <3>4. off[k + 1] = Len(run[k]) /\ off[k] = Len(run[h])
      BY <1>9, <3>1
    <3> QED BY <3>3, <3>4
  <2> QED BY <2>1, <2>2
<1>16. Len(run[n]) = off[n + 1]
  BY <1>1, <1>9
<1>17. /\ off \in [1..n + 1 -> Nat]
       /\ off[1] = 0
       /\ \A k \in 1..n : off[k + 1] = off[k] + Len(seqs[k])
       /\ Len(FlattenSeq(seqs)) = off[n + 1]
       /\ \A k \in 1..n : \A m \in 1..Len(seqs[k]) :
             /\ off[k] + m <= Len(FlattenSeq(seqs))
             /\ FlattenSeq(seqs)[off[k] + m] = seqs[k][m]
  BY <1>2, <1>9, <1>13, <1>14, <1>15, <1>16
<1>18. FlattenSeq(seqs) \in Seq(S)
  BY <1>1, <1>2, <1>13
<1> HIDE DEF off
<1> QED BY <1>17, <1>18, Zenon DEF Laid

\* The equation of the recursion that joins by halves.
JoinSpans(seqs) == (1..Len(seqs) + 1) \X (0..Len(seqs))
JoinOf(seqs, j, span) ==
    CASE span[1] > span[2] -> <<>>
      [] span[1] = span[2] -> seqs[span[1]]
      [] OTHER -> j[<<span[1], (span[1] + span[2]) \div 2>>]
                  \o j[<<(span[1] + span[2]) \div 2 + 1, span[2]>>]
JoinedTo(seqs) == CHOOSE j : j = [span \in JoinSpans(seqs) |-> JoinOf(seqs, j, span)]

LEMMA JoinedIsChosen ==
    \A seqs : Joined(seqs) = JoinedTo(seqs)[<<1, Len(seqs)>>]
BY DEF Joined, JoinedTo, JoinOf, JoinSpans

\* The offsets at which sequences are laid never go back.
LEMMA OffsetsGrow ==
    ASSUME NEW n \in Nat, NEW off \in [1..n + 1 -> Nat],
           \A k \in 1..n : off[k] <= off[k + 1]
    PROVE  \A x \in 1..n + 1, y \in 1..n + 1 : x <= y => off[x] <= off[y]
<1> DEFINE Right(y) == \A x \in 1..y : off[x] <= off[y]
           T == {d \in 0..n : Right(d + 1)}
<1>1. 0 \in T
  OBVIOUS
<1>2. ASSUME NEW d \in 0..(n - 1), d \in T PROVE d + 1 \in T
  <2>1. d + 1 \in 1..n /\ d + 1 \in 0..n /\ off[d + 1] <= off[(d + 1) + 1]
    OBVIOUS
  <2>2. ASSUME NEW x \in 1..((d + 1) + 1) PROVE off[x] <= off[(d + 1) + 1]
    <3>1. CASE x = (d + 1) + 1
      <4>1. off[x] \in Nat
        OBVIOUS
      <4> QED BY <3>1, <4>1
    <3>2. CASE x # (d + 1) + 1
      <4>1. x \in 1..(d + 1) /\ x \in 1..n + 1 /\ d + 1 \in 1..n + 1 /\ (d + 1) + 1 \in 1..n + 1
        BY <2>1, <3>2
      <4>2. off[x] <= off[d + 1] /\ off[x] \in Nat /\ off[d + 1] \in Nat /\ off[(d + 1) + 1] \in Nat
        BY <1>2, <4>1
      <4> QED BY <2>1, <4>2
    <3> QED BY <3>1, <3>2
  <2> QED BY <2>1, <2>2
<1>3. 0..n \subseteq T
  <2> HIDE DEF T
  <2> QED BY <1>1, <1>2, NatByInduction
<1> SUFFICES ASSUME NEW x \in 1..n + 1, NEW y \in 1..n + 1, x <= y PROVE off[x] <= off[y]
  OBVIOUS
<1>4. y - 1 \in 0..n /\ (y - 1) + 1 = y /\ x \in 1..y
  OBVIOUS
<1> QED BY <1>3, <1>4

\* Joining by halves is joining one behind the other: the pieces of the flat
\* sequence solve the equation, and nothing else does.
LEMMA JoinedIsFlat ==
    ASSUME NEW S, NEW seqs, Len(seqs) \in Nat \ {0}, \A k \in 1..Len(seqs) : seqs[k] \in Seq(S)
    PROVE  Joined(seqs) = FlattenSeq(seqs)
<1> DEFINE n == Len(seqs)
           flat == FlattenSeq(seqs)
           J == JoinedTo(seqs)
<1>1. n \in Nat /\ n >= 1 /\ \A k \in 1..n : seqs[k] \in Seq(S) /\ Len(seqs[k]) \in Nat
  OBVIOUS
<1>2. Laid(seqs) /\ flat \in Seq(S)
  BY FlattenIs
<1>3. PICK off \in [1..n + 1 -> Nat] :
         /\ off[1] = 0
         /\ \A k \in 1..n : off[k + 1] = off[k] + Len(seqs[k])
         /\ Len(flat) = off[n + 1]
         /\ \A k \in 1..n : \A m \in 1..Len(seqs[k]) :
               /\ off[k] + m <= Len(flat)
               /\ flat[off[k] + m] = seqs[k][m]
  BY <1>2, Zenon DEF Laid
<1> HIDE DEF flat, n
<1>4. \A x \in 1..n + 1, y \in 1..n + 1 : x <= y => off[x] <= off[y]
  <2>1. \A k \in 1..n : off[k] <= off[k + 1]
    BY <1>1, <1>3
  <2> HIDE DEF n
  <2> QED BY <1>1, <2>1, OffsetsGrow
<1> DEFINE piece(x, y) == SubSeq(flat, off[x] + 1, off[y + 1])
           cut(x, y) == IF x > y THEN <<>> ELSE piece(x, y)
           K == [span \in JoinSpans(seqs) |-> cut(span[1], span[2])]
<1>5. ASSUME NEW x \in 1..n PROVE piece(x, x) = seqs[x]
  <2>1. /\ x + 1 \in 1..n + 1 /\ x \in 1..n + 1 /\ n + 1 \in 1..n + 1
        /\ off[x] \in Nat /\ off[x + 1] \in Nat
        /\ off[x + 1] = off[x] + Len(seqs[x]) /\ Len(seqs[x]) \in Nat
    <3>1. x + 1 \in 1..n + 1 /\ x \in 1..n + 1 /\ n + 1 \in 1..n + 1 /\ x + 1 <= n + 1
      <4> HIDE DEF n
      <4> QED BY <1>1
    <3>2. off[x] \in Nat /\ off[x + 1] \in Nat
      BY <3>1
    <3> QED BY <1>1, <1>3, <3>1, <3>2
  <2>2. off[x + 1] <= Len(flat)
    BY <1>1, <1>3, <1>4, <2>1
  <2>3. \A i \in off[x] + 1..off[x + 1] : flat[i] \in S
    BY <1>2, <2>1, <2>2
  <2>4. /\ piece(x, x) \in Seq(S)
        /\ Len(piece(x, x)) = IF off[x] + 1 <= off[x + 1] THEN off[x + 1] - (off[x] + 1) + 1 ELSE 0
        /\ \A i \in 1..off[x + 1] - (off[x] + 1) + 1 : piece(x, x)[i] = flat[(off[x] + 1) + i - 1]
    <3>1. off[x] + 1 \in Int /\ off[x + 1] \in Int
      BY <2>1
    <3> QED BY <2>3, <3>1, SubSeqProperties
  <2> HIDE DEF piece
  <2>5. Len(piece(x, x)) = Len(seqs[x])
    <3>1. off[x + 1] - (off[x] + 1) + 1 = Len(seqs[x])
      <4>1. \A a, b, c \in Nat : b = a + c => b - (a + 1) + 1 = c
        OBVIOUS
      <4> QED BY <2>1, <4>1
    <3>2. off[x] + 1 <= off[x + 1] \/ Len(seqs[x]) = 0
      BY <2>1
    <3>3. ~(off[x] + 1 <= off[x + 1]) => Len(seqs[x]) = 0
      BY <3>2
    <3> QED BY <2>4, <3>1, <3>3, Zenon
  <2>6. \A i \in 1..Len(seqs[x]) : piece(x, x)[i] = seqs[x][i]
    <3> TAKE i \in 1..Len(seqs[x])
    <3>1. i \in 1..off[x + 1] - (off[x] + 1) + 1 /\ (off[x] + 1) + i - 1 = off[x] + i
      BY <2>1
    <3>2. flat[off[x] + i] = seqs[x][i]
      BY <1>3
    <3> QED BY <2>4, <3>1, <3>2
  <2> QED BY <1>1, <2>4, <2>5, <2>6, SeqEqual
<1>6. ASSUME NEW x \in 1..n, NEW y \in 1..n, NEW m \in Nat, x <= m, m < y
      PROVE  piece(x, m) \o piece(m + 1, y) = piece(x, y)
  <2>1. /\ x \in 1..n + 1 /\ m + 1 \in 1..n + 1 /\ y + 1 \in 1..n + 1 /\ n + 1 \in 1..n + 1
        /\ off[x] \in Nat /\ off[m + 1] \in Nat /\ off[y + 1] \in Nat
    BY <1>1, <1>6
  <2>2. off[x] <= off[m + 1] /\ off[m + 1] <= off[y + 1] /\ off[y + 1] <= Len(flat)
    BY <1>1, <1>3, <1>4, <1>6, <2>1
  <2>3. Len(flat) \in Nat
    BY <1>2
  <2>4. /\ off[x] + 1 \in 1..Len(flat) + 1
        /\ off[m + 1] \in (off[x] + 1) - 1..Len(flat)
        /\ off[y + 1] \in off[m + 1]..Len(flat)
    BY <2>1, <2>2, <2>3
  <2> QED BY <1>2, <2>4, ConcatAdjacentSubSeq
<1> HIDE DEF piece
<1>7. /\ JoinSpans(seqs) = (1..n + 1) \X (0..n)
      /\ \A x \in 1..n + 1, y \in 0..n : <<x, y>> \in JoinSpans(seqs)
  BY DEF JoinSpans, n
<1>8. ASSUME NEW x \in 1..n + 1, NEW y \in 0..n PROVE K[<<x, y>>] = cut(x, y)
  <2> DEFINE span == <<x, y>>
  <2>1. span[1] = x /\ span[2] = y
    OBVIOUS
  <2>2. span \in JoinSpans(seqs)
    BY <1>7
  <2>3. K[span] = cut(span[1], span[2])
    <3> HIDE DEF cut, span
    <3> QED BY <2>2
  <2> HIDE DEF cut, span, K
  <2>4. K[span] = cut(x, y)
    BY <2>1, <2>3
  <2> QED BY <2>4 DEF span
<1>9. ASSUME NEW x \in 1..n + 1, NEW y \in 0..n
      PROVE  cut(x, y) = JoinOf(seqs, K, <<x, y>>)
  <2>1. <<x, y>>[1] = x /\ <<x, y>>[2] = y
    OBVIOUS
  <2>2. CASE x > y
    <3>1. cut(x, y) = <<>>
      BY <2>2
    <3>2. JoinOf(seqs, K, <<x, y>>) = <<>>
      <4> HIDE DEF K
      <4> QED BY <2>1, <2>2 DEF JoinOf
    <3> QED BY <3>1, <3>2
  <2>3. CASE x = y
    <3>1. x \in 1..n /\ ~(x > y)
      BY <1>1, <2>3
    <3>2. JoinOf(seqs, K, <<x, y>>) = seqs[x]
      <4> HIDE DEF K
      <4> QED BY <2>1, <2>3, <3>1 DEF JoinOf
    <3> QED BY <1>5, <2>3, <3>1, <3>2
  <2>4. CASE x < y
    <3> DEFINE m == (x + y) \div 2
    <3>1. x \in 1..n /\ y \in 1..n /\ ~(x > y) /\ x # y
      BY <1>1, <2>4
    <3>2. m \in Nat /\ x <= m /\ m < y
      <4> HIDE DEF n
      <4> QED BY <1>1, <2>4, <3>1, HalfSpans
    <3>3. JoinOf(seqs, K, <<x, y>>) = K[<<x, m>>] \o K[<<m + 1, y>>]
      <4> HIDE DEF K, cut
      <4> QED BY <2>1, <3>1 DEF JoinOf
    <3> HIDE DEF m
    <3>4. m \in 0..n /\ m + 1 \in 1..n + 1 /\ ~(x > m) /\ ~(m + 1 > y)
      BY <1>1, <3>1, <3>2
    <3>5. K[<<x, m>>] = piece(x, m) /\ K[<<m + 1, y>>] = piece(m + 1, y)
      <4> HIDE DEF K
      <4> QED BY <1>1, <1>8, <3>1, <3>4
    <3> HIDE DEF K
    <3> QED BY <1>6, <3>1, <3>2, <3>3, <3>5
  <2> HIDE DEF K, cut
  <2> QED BY <1>1, <2>2, <2>3, <2>4
<1>10. K = [span \in JoinSpans(seqs) |-> JoinOf(seqs, K, span)]
  <2> DEFINE value(span) == cut(span[1], span[2])
  <2>1. ASSUME NEW span \in JoinSpans(seqs) PROVE value(span) = JoinOf(seqs, K, span)
    <3>1. PICK x \in 1..n + 1, y \in 0..n : span = <<x, y>>
      BY <1>7
    <3>2. value(span) = cut(x, y)
      BY <3>1
    <3> HIDE DEF K, cut, value
    <3> QED BY <1>9, <3>1, <3>2
  <2>2. K = [span \in JoinSpans(seqs) |-> value(span)]
    OBVIOUS
  <2> HIDE DEF K, value
  <2> QED BY <2>1, <2>2
<1>11. J = [span \in JoinSpans(seqs) |-> JoinOf(seqs, J, span)]
  <2> HIDE DEF K
  <2> QED BY <1>10 DEF JoinedTo
<1> HIDE DEF J, K
<1>12. \A x \in 1..n + 1, y \in 0..n : J[<<x, y>>] = JoinOf(seqs, J, <<x, y>>)
  <2>1. \A span \in JoinSpans(seqs) : J[span] = JoinOf(seqs, J, span)
    BY <1>11, Zenon
  <2> QED BY <1>7, <2>1, Zenon
<1> DEFINE Right(d) == \A x \in 1..n, y \in 1..n : x <= y /\ y - x < d => J[<<x, y>>] = piece(x, y)
           T == {d \in 0..n : Right(d)}
<1>13. 0 \in T
  <2>1. Right(0)
    BY <1>1
  <2> HIDE DEF Right
  <2> QED BY <1>1, <2>1
<1>14. ASSUME NEW d \in 0..(n - 1), d \in T PROVE d + 1 \in T
  <2>1. Right(d) /\ d \in Nat
    BY <1>14
  <2>2. ASSUME NEW x \in 1..n, NEW y \in 1..n, x <= y, y - x < d + 1
        PROVE  J[<<x, y>>] = piece(x, y)
    <3>1. /\ <<x, y>>[1] = x /\ <<x, y>>[2] = y /\ ~(x > y)
          /\ x \in 1..n + 1 /\ y \in 0..n
      BY <1>1, <2>2
    <3>2. CASE x = y
      <4>1. JoinOf(seqs, J, <<x, y>>) = seqs[x]
        BY <3>1, <3>2 DEF JoinOf
      <4> QED BY <1>5, <1>12, <3>1, <3>2, <4>1
    <3>3. CASE x # y
      <4> DEFINE m == (x + y) \div 2
      <4>1. m \in Nat /\ x <= m /\ m < y
        <5>1. x < y
          BY <2>2, <3>3
        <5> HIDE DEF n
        <5> QED BY <1>1, <5>1, HalfSpans
      <4>2. JoinOf(seqs, J, <<x, y>>) = J[<<x, m>>] \o J[<<m + 1, y>>]
        BY <3>1, <3>3 DEF JoinOf
      <4> HIDE DEF m
      <4>3. m \in 1..n /\ m + 1 \in 1..n /\ m - x < d /\ m + 1 <= y /\ y - (m + 1) < d
        BY <1>1, <2>1, <2>2, <4>1
      <4>4. J[<<x, m>>] = piece(x, m) /\ J[<<m + 1, y>>] = piece(m + 1, y)
        BY <2>1, <4>1, <4>3
      <4>5. piece(x, m) \o piece(m + 1, y) = piece(x, y)
        BY <1>6, <4>1
      <4>6. J[<<x, y>>] = JoinOf(seqs, J, <<x, y>>)
        BY <1>12, <3>1
      <4> QED BY <4>2, <4>4, <4>5, <4>6
    <3> QED BY <3>2, <3>3
  <2>3. Right(d + 1) /\ d + 1 \in 0..n
    BY <1>1, <2>2
  <2> HIDE DEF Right
  <2> QED BY <2>3
<1>15. Right(n)
  <2> HIDE DEF Right
  <2>1. 0..n \subseteq T
    <3> HIDE DEF T
    <3> QED BY <1>1, <1>13, <1>14, NatByInduction
  <2> QED BY <1>1, <2>1
<1>16. J[<<1, n>>] = piece(1, n)
  <2>1. 1 \in 1..n /\ n \in 1..n /\ 1 <= n /\ n - 1 < n
    BY <1>1
  <2> QED BY <1>15, <2>1
<1>17. piece(1, n) = flat
  <2>1. piece(1, n) = SubSeq(flat, 1, Len(flat))
    BY <1>3 DEF piece
  <2> QED BY <1>2, <2>1, SubSeqFull
<1> QED BY <1>16, <1>17, JoinedIsChosen DEF J, flat, n

-----------------------------------------------------------------------------
(* The x86 decoder, class by class: the guards of X86Decode exclude each    *)
(* other.                                                                   *)

LEMMA AluOpcodes ==
    {X86!AluOpcode[op] : op \in DOMAIN X86!AluOpcode} = {1, 9, 33, 41, 49, 57}
BY DEF X86!AluOpcode

LEMMA X86DecodeIs ==
    ASSUME NEW b
    PROVE  /\ b[1] = 144 =>
                 X86!X86Decode(b) = X86!Sized(1)
           /\ b[1] = 195 =>
                 X86!X86Decode(b) = [X86!MemoryAt(1, X86!ESP, 0) EXCEPT !.mem_read = TRUE, !.jalr = TRUE]
           /\ b[1] \in 80..87 =>
                 X86!X86Decode(b) = [X86!StoreTo(1, X86!ESP, -4, b[1] - 80) EXCEPT !.rd = X86!ESP, !.reg_write = TRUE]
           /\ b[1] \in 88..95 =>
                 X86!X86Decode(b) = X86!LoadFrom(1, X86!ESP, 0, b[1] - 88)
           /\ b[1] \in 184..191 =>
                 X86!X86Decode(b) = [X86!Sized(5) EXCEPT !.rd = b[1] - 184, !.imm = X86!Rel32(b, 2), !.alu_op = "PASS",
                          !.alu_src = TRUE, !.reg_write = TRUE]
           /\ b[1] \in {232, 233} =>
                 X86!X86Decode(b) = X86!Jump(5, X86!Rel32(b, 2))
           /\ b[1] = 15 /\ b[2] \in 128..143 =>
                 X86!X86Decode(b) = X86!Jcc(6, X86!Rel32(b, 3), b[2] % 16)
           /\ b[1] = 235 =>
                 X86!X86Decode(b) = X86!Jump(2, X86!Disp8(b, 2))
           /\ b[1] \in 112..127 =>
                 X86!X86Decode(b) = X86!Jcc(2, X86!Disp8(b, 2), b[1] % 16)
           /\ b[1] \in {1, 9, 33, 41, 49, 57} =>
                 X86!X86Decode(b) = X86!DecodeAlu(b)
           /\ b[1] \in {137, 139} =>
                 X86!X86Decode(b) = X86!DecodeMovRm(b)
           /\ b[1] = 131 =>
                 X86!X86Decode(b) = X86!DecodeGroup1(b)
<1>1. ASSUME b[1] = 144
      PROVE  X86!X86Decode(b) = X86!Sized(1)
  <2>1. /\ b[1] # 195 /\ b[1] \notin 80..87 /\ b[1] \notin 88..95
        /\ b[1] \notin 184..191 /\ b[1] \notin {232, 233} /\ b[1] # 15
        /\ b[1] # 235 /\ b[1] \notin 112..127 /\ b[1] \notin {1, 9, 33, 41, 49, 57}
        /\ b[1] \notin {137, 139} /\ b[1] # 131
    BY <1>1
  <2> QED BY <1>1, <2>1, AluOpcodes, Zenon DEF X86!X86Decode
<1>2. ASSUME b[1] = 195
      PROVE  X86!X86Decode(b) = [X86!MemoryAt(1, X86!ESP, 0) EXCEPT !.mem_read = TRUE, !.jalr = TRUE]
  <2>1. /\ b[1] # 144 /\ b[1] \notin 80..87 /\ b[1] \notin 88..95
        /\ b[1] \notin 184..191 /\ b[1] \notin {232, 233} /\ b[1] # 15
        /\ b[1] # 235 /\ b[1] \notin 112..127 /\ b[1] \notin {1, 9, 33, 41, 49, 57}
        /\ b[1] \notin {137, 139} /\ b[1] # 131
    BY <1>2
  <2> QED BY <1>2, <2>1, AluOpcodes, Zenon DEF X86!X86Decode
<1>3. ASSUME b[1] \in 80..87
      PROVE  X86!X86Decode(b) = [X86!StoreTo(1, X86!ESP, -4, b[1] - 80) EXCEPT !.rd = X86!ESP, !.reg_write = TRUE]
  <2>1. /\ b[1] # 144 /\ b[1] # 195 /\ b[1] \notin 88..95 /\ b[1] \notin 184..191
        /\ b[1] \notin {232, 233} /\ b[1] # 15 /\ b[1] # 235
        /\ b[1] \notin 112..127 /\ b[1] \notin {1, 9, 33, 41, 49, 57}
        /\ b[1] \notin {137, 139} /\ b[1] # 131
    BY <1>3
  <2> QED BY <1>3, <2>1, AluOpcodes, Zenon DEF X86!X86Decode
<1>4. ASSUME b[1] \in 88..95
      PROVE  X86!X86Decode(b) = X86!LoadFrom(1, X86!ESP, 0, b[1] - 88)
  <2>1. /\ b[1] # 144 /\ b[1] # 195 /\ b[1] \notin 80..87 /\ b[1] \notin 184..191
        /\ b[1] \notin {232, 233} /\ b[1] # 15 /\ b[1] # 235
        /\ b[1] \notin 112..127 /\ b[1] \notin {1, 9, 33, 41, 49, 57}
        /\ b[1] \notin {137, 139} /\ b[1] # 131
    BY <1>4
  <2> QED BY <1>4, <2>1, AluOpcodes, Zenon DEF X86!X86Decode
<1>5. ASSUME b[1] \in 184..191
      PROVE  X86!X86Decode(b) = [X86!Sized(5) EXCEPT !.rd = b[1] - 184, !.imm = X86!Rel32(b, 2), !.alu_op = "PASS",
                          !.alu_src = TRUE, !.reg_write = TRUE]
  <2>1. /\ b[1] # 144 /\ b[1] # 195 /\ b[1] \notin 80..87 /\ b[1] \notin 88..95
        /\ b[1] \notin {232, 233} /\ b[1] # 15 /\ b[1] # 235
        /\ b[1] \notin 112..127 /\ b[1] \notin {1, 9, 33, 41, 49, 57}
        /\ b[1] \notin {137, 139} /\ b[1] # 131
    BY <1>5
  <2> QED BY <1>5, <2>1, AluOpcodes, Zenon DEF X86!X86Decode
<1>6. ASSUME b[1] \in {232, 233}
      PROVE  X86!X86Decode(b) = X86!Jump(5, X86!Rel32(b, 2))
  <2>1. /\ b[1] # 144 /\ b[1] # 195 /\ b[1] \notin 80..87 /\ b[1] \notin 88..95
        /\ b[1] \notin 184..191 /\ b[1] # 15 /\ b[1] # 235 /\ b[1] \notin 112..127
        /\ b[1] \notin {1, 9, 33, 41, 49, 57} /\ b[1] \notin {137, 139}
        /\ b[1] # 131
    BY <1>6
  <2> QED BY <1>6, <2>1, AluOpcodes, Zenon DEF X86!X86Decode
<1>7. ASSUME b[1] = 15 /\ b[2] \in 128..143
      PROVE  X86!X86Decode(b) = X86!Jcc(6, X86!Rel32(b, 3), b[2] % 16)
  <2>1. /\ b[1] # 144 /\ b[1] # 195 /\ b[1] \notin 80..87 /\ b[1] \notin 88..95
        /\ b[1] \notin 184..191 /\ b[1] \notin {232, 233} /\ b[1] # 235
        /\ b[1] \notin 112..127 /\ b[1] \notin {1, 9, 33, 41, 49, 57}
        /\ b[1] \notin {137, 139} /\ b[1] # 131
    BY <1>7
  <2> QED BY <1>7, <2>1, AluOpcodes, Zenon DEF X86!X86Decode
<1>8. ASSUME b[1] = 235
      PROVE  X86!X86Decode(b) = X86!Jump(2, X86!Disp8(b, 2))
  <2>1. /\ b[1] # 144 /\ b[1] # 195 /\ b[1] \notin 80..87 /\ b[1] \notin 88..95
        /\ b[1] \notin 184..191 /\ b[1] \notin {232, 233} /\ b[1] # 15
        /\ b[1] \notin 112..127 /\ b[1] \notin {1, 9, 33, 41, 49, 57}
        /\ b[1] \notin {137, 139} /\ b[1] # 131
    BY <1>8
  <2> QED BY <1>8, <2>1, AluOpcodes, Zenon DEF X86!X86Decode
<1>9. ASSUME b[1] \in 112..127
      PROVE  X86!X86Decode(b) = X86!Jcc(2, X86!Disp8(b, 2), b[1] % 16)
  <2>1. /\ b[1] # 144 /\ b[1] # 195 /\ b[1] \notin 80..87 /\ b[1] \notin 88..95
        /\ b[1] \notin 184..191 /\ b[1] \notin {232, 233} /\ b[1] # 15
        /\ b[1] # 235 /\ b[1] \notin {1, 9, 33, 41, 49, 57}
        /\ b[1] \notin {137, 139} /\ b[1] # 131
    BY <1>9
  <2> QED BY <1>9, <2>1, AluOpcodes, Zenon DEF X86!X86Decode
<1>10. ASSUME b[1] \in {1, 9, 33, 41, 49, 57}
      PROVE  X86!X86Decode(b) = X86!DecodeAlu(b)
  <2>1. /\ b[1] # 144 /\ b[1] # 195 /\ b[1] \notin 80..87 /\ b[1] \notin 88..95
        /\ b[1] \notin 184..191 /\ b[1] \notin {232, 233} /\ b[1] # 15
        /\ b[1] # 235 /\ b[1] \notin 112..127 /\ b[1] \notin {137, 139}
        /\ b[1] # 131
    BY <1>10
  <2> QED BY <1>10, <2>1, AluOpcodes, Zenon DEF X86!X86Decode
<1>11. ASSUME b[1] \in {137, 139}
      PROVE  X86!X86Decode(b) = X86!DecodeMovRm(b)
  <2>1. /\ b[1] # 144 /\ b[1] # 195 /\ b[1] \notin 80..87 /\ b[1] \notin 88..95
        /\ b[1] \notin 184..191 /\ b[1] \notin {232, 233} /\ b[1] # 15
        /\ b[1] # 235 /\ b[1] \notin 112..127 /\ b[1] \notin {1, 9, 33, 41, 49, 57}
        /\ b[1] # 131
    BY <1>11
  <2> QED BY <1>11, <2>1, AluOpcodes, Zenon DEF X86!X86Decode
<1>12. ASSUME b[1] = 131
      PROVE  X86!X86Decode(b) = X86!DecodeGroup1(b)
  <2>1. /\ b[1] # 144 /\ b[1] # 195 /\ b[1] \notin 80..87 /\ b[1] \notin 88..95
        /\ b[1] \notin 184..191 /\ b[1] \notin {232, 233} /\ b[1] # 15
        /\ b[1] # 235 /\ b[1] \notin 112..127 /\ b[1] \notin {1, 9, 33, 41, 49, 57}
        /\ b[1] \notin {137, 139}
    BY <1>12
  <2> QED BY <1>12, <2>1, AluOpcodes, Zenon DEF X86!X86Decode
<1> QED
  BY <1>1, <1>2, <1>3, <1>4, <1>5, <1>6, <1>7, <1>8, <1>9, <1>10, <1>11, <1>12

\* The lengths the decoder takes from what it reads.
LEMMA DecodedLength ==
    ASSUME NEW b
    PROVE  /\ b[1] = 144 => X86!X86Decode(b).instr_len = 1
           /\ b[1] = 195 => X86!X86Decode(b).instr_len = 1
           /\ b[1] \in 80..87 => X86!X86Decode(b).instr_len = 1
           /\ b[1] \in 88..95 => X86!X86Decode(b).instr_len = 1
           /\ b[1] \in 184..191 => X86!X86Decode(b).instr_len = 5
           /\ b[1] \in {232, 233} => X86!X86Decode(b).instr_len = 5
           /\ b[1] = 15 /\ b[2] \in 128..143 => X86!X86Decode(b).instr_len = 6
           /\ b[1] = 235 => X86!X86Decode(b).instr_len = 2
           /\ b[1] \in 112..127 => X86!X86Decode(b).instr_len = 2
           /\ b[1] \in {1, 9, 33, 41, 49, 57} /\ X86!Mod(b) = 3 => X86!X86Decode(b).instr_len = 2
           /\ b[1] \in {137, 139} /\ X86!Mod(b) \in {0, 3} => X86!X86Decode(b).instr_len = 2
           /\ b[1] \in {137, 139} /\ X86!Mod(b) = 1 => X86!X86Decode(b).instr_len = 3
           /\ b[1] = 131 /\ X86!Mod(b) = 3 => X86!X86Decode(b).instr_len = 3
<1>1. X86!Sized(1).instr_len = 1
  BY DEF X86!Sized, X86!NoSignals
<1>2. [X86!StoreTo(1, X86!ESP, -4, b[1] - 80) EXCEPT
          !.rd = X86!ESP, !.reg_write = TRUE].instr_len = 1
  BY DEF X86!Sized, X86!MemoryAt, X86!StoreTo, X86!NoSignals
<1>17. [X86!MemoryAt(1, X86!ESP, 0) EXCEPT !.mem_read = TRUE, !.jalr = TRUE].instr_len = 1
  BY DEF X86!Sized, X86!MemoryAt, X86!NoSignals
<1>18. X86!LoadFrom(1, X86!ESP, 0, b[1] - 88).instr_len = 1
  BY DEF X86!Sized, X86!MemoryAt, X86!LoadFrom, X86!NoSignals
<1>20. /\ X86!Jump(5, X86!Rel32(b, 2)).instr_len = 5
       /\ X86!Jump(2, X86!Disp8(b, 2)).instr_len = 2
  BY DEF X86!Sized, X86!Jump, X86!NoSignals
<1>21. /\ X86!Jcc(6, X86!Rel32(b, 3), b[2] % 16).instr_len = 6
       /\ X86!Jcc(2, X86!Disp8(b, 2), b[1] % 16).instr_len = 2
  BY DEF X86!Sized, X86!Jcc, X86!NoSignals
<1>3. [X86!Sized(5) EXCEPT !.rd = b[1] - 184, !.imm = X86!Rel32(b, 2), !.alu_op = "PASS",
                           !.alu_src = TRUE, !.reg_write = TRUE].instr_len = 5
  BY DEF X86!Sized, X86!NoSignals
<1>4. X86!Mod(b) = 3 => X86!DecodeAlu(b).instr_len = 2
  BY DEF X86!DecodeAlu, X86!AluSignals, X86!Sized, X86!NoSignals
<1>5. X86!Mod(b) = 3 => X86!DecodeGroup1(b).instr_len = 3
  BY DEF X86!DecodeGroup1, X86!AluSignals, X86!MemoryAt, X86!Sized, X86!NoSignals
<1>6. /\ X86!Mod(b) \in {0, 3} => X86!DecodeMovRm(b).instr_len = 2
      /\ X86!Mod(b) = 1 => X86!DecodeMovRm(b).instr_len = 3
  <2>1. \A n, r, d, q : X86!LoadFrom(n, r, d, q).instr_len = n
    BY DEF X86!Sized, X86!MemoryAt, X86!LoadFrom, X86!NoSignals
  <2>2. \A n, r, d, q : X86!StoreTo(n, r, d, q).instr_len = n
    BY DEF X86!Sized, X86!MemoryAt, X86!StoreTo, X86!NoSignals
  <2>3. \A r, p : [X86!MemoryAt(2, r, 0) EXCEPT !.rd = p, !.reg_write = TRUE].instr_len = 2
    BY DEF X86!MemoryAt, X86!Sized, X86!NoSignals
  <2>4. ASSUME X86!Mod(b) = 3 PROVE X86!DecodeMovRm(b).instr_len = 2
    <3> DEFINE r == IF b[1] = 139 THEN X86!Rm(b) ELSE X86!RegField(b)
               p == IF b[1] = 139 THEN X86!RegField(b) ELSE X86!Rm(b)
    <3>1. X86!DecodeMovRm(b) = [X86!MemoryAt(2, r, 0) EXCEPT !.rd = p, !.reg_write = TRUE]
      BY <2>4, X86!Mod(b) # 2 DEF X86!DecodeMovRm
    <3>2. [X86!MemoryAt(2, r, 0) EXCEPT !.rd = p, !.reg_write = TRUE].instr_len = 2
      <4> HIDE DEF r, p
      <4> QED BY <2>3
    <3> HIDE DEF r, p
    <3> QED BY <3>1, <3>2, Zenon
  <2>5. X86!Mod(b) = 0 => X86!DecodeMovRm(b).instr_len = 2
    BY <2>1, <2>2 DEF X86!DecodeMovRm
  <2>6. X86!Mod(b) = 1 => X86!DecodeMovRm(b).instr_len = 3
    BY <2>1, <2>2 DEF X86!DecodeMovRm
  <2> QED BY <2>4, <2>5, <2>6
<1>7. b[1] = 144 => X86!X86Decode(b).instr_len = 1
  BY <1>1, X86DecodeIs, Zenon
<1>8. b[1] = 195 => X86!X86Decode(b).instr_len = 1
  BY <1>17, X86DecodeIs, Zenon
<1>9. b[1] \in 80..87 => X86!X86Decode(b).instr_len = 1
  BY <1>2, X86DecodeIs, Zenon
<1>10. b[1] \in 88..95 => X86!X86Decode(b).instr_len = 1
  BY <1>18, X86DecodeIs, Zenon
<1>11. b[1] \in 184..191 => X86!X86Decode(b).instr_len = 5
  BY <1>3, X86DecodeIs, Zenon
<1>12. b[1] \in {232, 233} => X86!X86Decode(b).instr_len = 5
  BY <1>20, X86DecodeIs, Zenon
<1>13. b[1] = 15 /\ b[2] \in 128..143 => X86!X86Decode(b).instr_len = 6
  BY <1>21, X86DecodeIs, Zenon
<1>14. b[1] = 235 => X86!X86Decode(b).instr_len = 2
  BY <1>20, X86DecodeIs, Zenon
<1>15. b[1] \in 112..127 => X86!X86Decode(b).instr_len = 2
  BY <1>21, X86DecodeIs, Zenon
<1>16. /\ b[1] \in {1, 9, 33, 41, 49, 57} /\ X86!Mod(b) = 3 => X86!X86Decode(b).instr_len = 2
       /\ b[1] \in {137, 139} /\ X86!Mod(b) \in {0, 3} => X86!X86Decode(b).instr_len = 2
       /\ b[1] \in {137, 139} /\ X86!Mod(b) = 1 => X86!X86Decode(b).instr_len = 3
       /\ b[1] = 131 /\ X86!Mod(b) = 3 => X86!X86Decode(b).instr_len = 3
  BY <1>4, <1>5, <1>6, X86DecodeIs, Zenon
<1> QED
  BY <1>7, <1>8, <1>9, <1>10, <1>11, <1>12, <1>13, <1>14, <1>15, <1>16

-----------------------------------------------------------------------------
(* What the x86 encoder writes is as long as pass 1 took it to be, and the  *)
(* decoder takes as many bytes.                                             *)

\* b starts with the bytes of e.
StartsWith(b, e) == \A m \in 1..Len(e) : b[m] = e[m]

\* s holds the low 32 bits of v, the least significant byte first.
LowBytes(s, v) ==
    /\ s \in Seq(Int) /\ Len(s) = 4
    /\ s[1] = v % 256
    /\ s[2] = (v \div 256) % 256
    /\ s[3] = (v \div 65536) % 256
    /\ s[4] = (v \div 16777216) % 256

LEMMA Imm32Is ==
    ASSUME NEW v \in Int
    PROVE  LowBytes(X86!Imm32(v), v)
<1>1. /\ 2^(8 * (1 - 1)) = 1 /\ 2^(8 * (2 - 1)) = 256 /\ 2^(8 * (3 - 1)) = 65536
      /\ 2^(8 * (4 - 1)) = 16777216
  <2>1. 8 * (1 - 1) = 0 /\ 8 * (2 - 1) = 8 /\ 8 * (3 - 1) = 16 /\ 8 * (4 - 1) = 24
    OBVIOUS
  <2> QED BY <2>1, Powers
<1>2. v \div 1 = v
  OBVIOUS
<1>3. X86!Imm32(v) = [k \in 1..4 |-> (v \div 2^(8 * (k - 1))) % 256]
  BY DEF X86!Imm32
<1> DEFINE byte(k) == (v \div 2^(8 * (k - 1))) % 256
<1>4. /\ byte(1) = v % 256 /\ byte(2) = (v \div 256) % 256
      /\ byte(3) = (v \div 65536) % 256 /\ byte(4) = (v \div 16777216) % 256
  BY <1>1, <1>2
<1>5. byte(1) \in Int /\ byte(2) \in Int /\ byte(3) \in Int /\ byte(4) \in Int
  <2>1. /\ v % 256 \in Int /\ (v \div 256) % 256 \in Int
        /\ (v \div 65536) % 256 \in Int /\ (v \div 16777216) % 256 \in Int
    OBVIOUS
  <2> QED BY <2>1, <1>4
<1>6. X86!Imm32(v) = [k \in 1..4 |-> byte(k)]
  BY <1>3
<1> HIDE DEF byte
<1>7. \A k \in 1..4 : byte(k) \in Int
  <2>1. \A k \in 1..4 : k = 1 \/ k = 2 \/ k = 3 \/ k = 4
    OBVIOUS
  <2> QED BY <1>5, <2>1
<1>8. X86!Imm32(v) \in Seq(Int) /\ Len(X86!Imm32(v)) = 4
  BY <1>6, <1>7
<1>9. /\ X86!Imm32(v)[1] = byte(1) /\ X86!Imm32(v)[2] = byte(2)
      /\ X86!Imm32(v)[3] = byte(3) /\ X86!Imm32(v)[4] = byte(4)
  BY <1>6
<1> QED BY <1>4, <1>8, <1>9 DEF LowBytes

\* A 32-bit displacement or immediate behind an opcode.
Behind(e, o, v) ==
    /\ e \in Seq(Int) /\ Len(e) = Len(o) + 4
    /\ \A m \in 1..Len(o) : e[m] = o[m]
    /\ e[Len(o) + 1] = v % 256
    /\ e[Len(o) + 2] = (v \div 256) % 256
    /\ e[Len(o) + 3] = (v \div 65536) % 256
    /\ e[Len(o) + 4] = (v \div 16777216) % 256

LEMMA Imm32Behind ==
    ASSUME NEW o \in Seq(Int), NEW v \in Int
    PROVE  Behind(o \o X86!Imm32(v), o, v)
<1>1. PICK s \in Seq(Int) : s = X86!Imm32(v)
  BY Imm32Is DEF LowBytes
<1>2. /\ o \o s \in Seq(Int) /\ Len(o \o s) = Len(o) + Len(s)
      /\ \A m \in 1..Len(o) : (o \o s)[m] = o[m]
      /\ \A m \in 1..Len(s) : (o \o s)[Len(o) + m] = s[m]
  BY ConcatIs
<1>3. LowBytes(s, v)
  BY <1>1, Imm32Is
<1>4. Len(s) = 4
  BY <1>3 DEF LowBytes
<1>5. 1 \in 1..Len(s) /\ 2 \in 1..Len(s) /\ 3 \in 1..Len(s) /\ 4 \in 1..Len(s)
  BY <1>4
<1>6. /\ (o \o s)[Len(o) + 1] = s[1] /\ (o \o s)[Len(o) + 2] = s[2]
      /\ (o \o s)[Len(o) + 3] = s[3] /\ (o \o s)[Len(o) + 4] = s[4]
  BY <1>2, <1>5
<1>7. Len(o \o s) = Len(o) + 4
  BY <1>2, <1>4
<1>8. Behind(o \o s, o, v)
  BY <1>2, <1>3, <1>6, <1>7 DEF Behind, LowBytes
<1> QED BY <1>1, <1>8

\* The line's own length, what is read for it, and that it is a sequence.
Measured(i, long, e, b) ==
    /\ e \in Seq(Int)
    /\ Len(e) = X86!EstimatedSize(i, long)
    /\ X86!X86Decode(b).instr_len = Len(e)

\* mod, reg and rm of a ModRM byte are read as they were written.
LEMMA ModRMIs ==
    ASSUME NEW m \in 0..3, NEW r \in 0..7, NEW s \in 0..7
    PROVE  /\ X86!ModRM(m, r, s) \in Int
           /\ X86!ModRM(m, r, s) \div 64 = m
<1>1. X86!ModRM(m, r, s) = m * 64 + (r * 8 + s)
  BY DEF X86!ModRM
<1>2. PICK x \in 0..63 : x = r * 8 + s
  OBVIOUS
<1>3. m * 64 + x \in Int /\ (m * 64 + x) \div 64 = m
  OBVIOUS
<1> QED BY <1>1, <1>2, <1>3

LEMMA MovEmits ==
    ASSUME NEW i, WellFormed("x86", i), i.mn = "MOV", NEW long \in BOOLEAN,
           X86!EncodeMov(i) # Rejected, NEW b, StartsWith(b, X86!EncodeMov(i))
    PROVE  Measured(i, long, X86!EncodeMov(i), b)
<1> DEFINE e == X86!EncodeMov(i)
<1>1. /\ i.rd \in 0..7 /\ i.rs1 \in 0..7 /\ i.rs2 \in 0..7 /\ i.imm \in Int
      /\ i.form \in {"rr", "ri", "load", "store", "load0", "store0"}
  BY DEF WellFormed, NumRegs
<1>2. X86!EstimatedSize(i, long) = IF i.form \in {"load", "store"} THEN 3
                                   ELSE IF i.form = "ri" THEN 5 ELSE 2
  BY DEF X86!EstimatedSize, X86!IsBranch, X86!JccCode, X86!AluOpcode
<1>3. i.imm % 256 \in Int
  BY <1>1
<1>4. CASE i.form \in {"load", "store"}
  <2>1. PICK o \in {137, 139}, r \in 0..7 : e = <<o, X86!ModRM(1, r, i.rs1), i.imm % 256>>
    BY <1>1, <1>4 DEF X86!EncodeMov, X86!Checked, X86!Rejected, Rejected
  <2>2. X86!ModRM(1, r, i.rs1) \in Int /\ X86!ModRM(1, r, i.rs1) \div 64 = 1
    BY <1>1, ModRMIs
  <2> HIDE DEF e
  <2>3. e \in Seq(Int) /\ Len(e) = 3
    BY <1>3, <2>1, <2>2
  <2>4. b[1] = o /\ b[2] = X86!ModRM(1, r, i.rs1)
    BY <2>1, <2>3 DEF StartsWith, e
  <2>5. X86!X86Decode(b).instr_len = 3
    BY <2>2, <2>4, DecodedLength DEF X86!Mod
  <2> QED BY <1>2, <1>4, <2>3, <2>5 DEF Measured, e
<1>5. CASE i.form \in {"load0", "store0", "rr"}
  <2>1. PICK o \in {137, 139}, m \in {0, 3}, r \in 0..7, s \in 0..7 : e = <<o, X86!ModRM(m, r, s)>>
    BY <1>1, <1>5 DEF X86!EncodeMov
  <2>2. X86!ModRM(m, r, s) \in Int /\ X86!ModRM(m, r, s) \div 64 = m
    BY <2>1, ModRMIs
  <2> HIDE DEF e
  <2>3. e \in Seq(Int) /\ Len(e) = 2
    BY <2>1, <2>2
  <2>4. b[1] = o /\ b[2] = X86!ModRM(m, r, s)
    BY <2>1, <2>3 DEF StartsWith, e
  <2>5. X86!X86Decode(b).instr_len = 2
    BY <2>2, <2>4, DecodedLength DEF X86!Mod
  <2> QED BY <1>2, <1>5, <2>3, <2>5 DEF Measured, e
<1>6. CASE i.form = "ri"
  <2>1. e = <<184 + i.rd>> \o X86!Imm32(i.imm)
    BY <1>6 DEF X86!EncodeMov
  <2>2. <<184 + i.rd>> \in Seq(Int) /\ Len(<<184 + i.rd>>) = 1 /\ <<184 + i.rd>>[1] = 184 + i.rd
    BY <1>1
  <2> HIDE DEF e
  <2>3. e \in Seq(Int) /\ Len(e) = 5 /\ e[1] = 184 + i.rd
    <3>1. PICK o \in Seq(Int) : o = <<184 + i.rd>>
      BY <2>2
    <3>2. Len(o) = 1 /\ o[1] = 184 + i.rd
      BY <2>2, <3>1
    <3>3. e = o \o X86!Imm32(i.imm)
      BY <2>1, <3>1
    <3>6. Behind(e, o, i.imm)
      BY <1>1, <3>3, Imm32Behind
    <3>4. e \in Seq(Int) /\ Len(e) = Len(o) + 4 /\ \A m \in 1..Len(o) : e[m] = o[m]
      BY <3>6 DEF Behind
    <3>5. Len(e) = 5 /\ 1 \in 1..Len(o)
      BY <3>2, <3>4
    <3> QED BY <3>2, <3>4, <3>5
  <2>4. b[1] = 184 + i.rd
    BY <2>3 DEF StartsWith, e
  <2>5. X86!X86Decode(b).instr_len = 5
    <3>1. b[1] \in 184..191
      BY <1>1, <2>4
    <3> QED BY <3>1, DecodedLength
  <2> QED BY <1>2, <1>6, <2>3, <2>5 DEF Measured, e
<1> QED BY <1>1, <1>4, <1>5, <1>6

LEMMA AluEmits ==
    ASSUME NEW i, WellFormed("x86", i), i.mn \in DOMAIN X86!AluOpcode, NEW long \in BOOLEAN,
           X86!EncodeAlu(i) # Rejected, NEW b, StartsWith(b, X86!EncodeAlu(i))
    PROVE  Measured(i, long, X86!EncodeAlu(i), b)
<1> DEFINE e == X86!EncodeAlu(i)
<1>1. /\ i.rd \in 0..7 /\ i.rs1 \in 0..7 /\ i.rs2 \in 0..7 /\ i.imm \in Int
  BY DEF WellFormed, NumRegs
<1>2. X86!EstimatedSize(i, long) = IF i.form = "ri" THEN 3 ELSE 2
  BY DEF X86!EstimatedSize, X86!IsBranch, X86!JccCode, X86!AluOpcode
<1>3. i.imm % 256 \in Int
  BY <1>1
<1>4. CASE i.form = "rr"
  <2>1. PICK o \in {1, 9, 33, 41, 49, 57} : e = <<o, X86!ModRM(3, i.rs2, i.rd)>>
    BY <1>1, <1>4 DEF X86!EncodeAlu, X86!AluOpcode
  <2>2. X86!ModRM(3, i.rs2, i.rd) \in Int /\ X86!ModRM(3, i.rs2, i.rd) \div 64 = 3
    BY <1>1, ModRMIs
  <2> HIDE DEF e
  <2>3. e \in Seq(Int) /\ Len(e) = 2
    BY <2>1, <2>2
  <2>4. b[1] = o /\ b[2] = X86!ModRM(3, i.rs2, i.rd)
    BY <2>1, <2>3 DEF StartsWith, e
  <2>5. X86!X86Decode(b).instr_len = 2
    BY <2>2, <2>4, DecodedLength DEF X86!Mod
  <2> QED BY <1>2, <1>4, <2>3, <2>5 DEF Measured, e
<1>5. CASE i.form # "rr"
  <2>1. PICK r \in 0..7 : e = <<131, X86!ModRM(3, r, i.rd), i.imm % 256>>
    BY <1>1, <1>5 DEF X86!EncodeAlu, X86!AluOpcode, X86!Group1Ext, X86!Checked, X86!Rejected, Rejected
  <2>2. X86!ModRM(3, r, i.rd) \in Int /\ X86!ModRM(3, r, i.rd) \div 64 = 3
    BY <1>1, ModRMIs
  <2>6. i.form = "ri"
    BY <1>5 DEF X86!EncodeAlu, X86!Checked, X86!Rejected, Rejected
  <2> HIDE DEF e
  <2>3. e \in Seq(Int) /\ Len(e) = 3
    BY <1>3, <2>1, <2>2
  <2>4. b[1] = 131 /\ b[2] = X86!ModRM(3, r, i.rd)
    BY <2>1, <2>3 DEF StartsWith, e
  <2>5. X86!X86Decode(b).instr_len = 3
    BY <2>2, <2>4, DecodedLength DEF X86!Mod
  <2> QED BY <1>2, <2>6, <2>3, <2>5 DEF Measured, e
<1> QED BY <1>4, <1>5

\* Short: two bytes, the second the displacement; long: one or two bytes and the
\* displacement in four.
BranchLaid(i, offset, long, e, b) ==
    /\ e \in Seq(Int)
    /\ ~long =>
          /\ Len(e) = 2 /\ b[2] = (offset - 2) % 256 /\ FitsSigned(offset - 2, 8)
          /\ b[1] = IF i.mn = "JMP" THEN 235 ELSE 112 + X86!JccCode[i.mn]
    /\ long /\ i.mn = "JMP" =>
          /\ Len(e) = 5 /\ b[1] = 233
          /\ b[2] = (offset - 5) % 256 /\ b[3] = ((offset - 5) \div 256) % 256
          /\ b[4] = ((offset - 5) \div 65536) % 256
          /\ b[5] = ((offset - 5) \div 16777216) % 256
    /\ long /\ i.mn # "JMP" =>
          /\ Len(e) = 6 /\ b[1] = 15 /\ b[2] = 128 + X86!JccCode[i.mn]
          /\ b[3] = (offset - 6) % 256 /\ b[4] = ((offset - 6) \div 256) % 256
          /\ b[5] = ((offset - 6) \div 65536) % 256
          /\ b[6] = ((offset - 6) \div 16777216) % 256

LEMMA BranchBytes ==
    ASSUME NEW i, X86!IsBranch(i), NEW offset \in Int, NEW long \in BOOLEAN,
           X86!EncodeBranch(i, offset, long) # Rejected, NEW b,
           StartsWith(b, X86!EncodeBranch(i, offset, long))
    PROVE  BranchLaid(i, offset, long, X86!EncodeBranch(i, offset, long), b)
<1> DEFINE e == X86!EncodeBranch(i, offset, long)
<1>1. i.mn # "JMP" => i.mn \in DOMAIN X86!JccCode /\ X86!JccCode[i.mn] \in 0..15
  BY DEF X86!IsBranch, X86!JccCode
<1>2. CASE ~long
  <2>1. PICK o \in Int : /\ o = IF i.mn = "JMP" THEN 235 ELSE 112 + X86!JccCode[i.mn]
    BY <1>1
  <2>2. e = <<o, (offset - 2) % 256>> /\ FitsSigned(offset - 2, 8)
    BY <1>2, <2>1 DEF X86!EncodeBranch, X86!Checked, X86!Rejected, Rejected, X86!FitsImm8, X86!FitsSigned, FitsSigned
  <2>3. (offset - 2) % 256 \in Int
    OBVIOUS
  <2> HIDE DEF e
  <2>4. e \in Seq(Int) /\ Len(e) = 2 /\ e[1] = o /\ e[2] = (offset - 2) % 256
    BY <2>2, <2>3
  <2>5. b[1] = o /\ b[2] = (offset - 2) % 256
    BY <2>4 DEF StartsWith, e
  <2> QED BY <1>2, <2>1, <2>2, <2>4, <2>5 DEF e, BranchLaid
<1>3. CASE long /\ i.mn = "JMP"
  <2>1. e = <<233>> \o X86!Imm32(offset - 5)
    BY <1>3 DEF X86!EncodeBranch
  <2>2. PICK o \in Seq(Int) : o = <<233>> /\ Len(o) = 1 /\ o[1] = 233
    <3>1. <<233>> \in Seq(Int) /\ Len(<<233>>) = 1 /\ <<233>>[1] = 233
      OBVIOUS
    <3> QED BY <3>1
  <2>3. PICK v \in Int : v = offset - 5
    OBVIOUS
  <2> HIDE DEF e
  <2>7. e = o \o X86!Imm32(v)
    BY <2>1, <2>2, <2>3
  <2>4. Behind(e, o, v)
    BY <2>7, Imm32Behind
  <2>5. /\ Len(e) = 5 /\ e[1] = 233 /\ e[2] = v % 256 /\ e[3] = (v \div 256) % 256
        /\ e[4] = (v \div 65536) % 256 /\ e[5] = (v \div 16777216) % 256
    <3>1. Len(o) + 1 = 2 /\ Len(o) + 2 = 3 /\ Len(o) + 3 = 4 /\ Len(o) + 4 = 5 /\ 1 \in 1..Len(o)
      BY <2>2
    <3> QED BY <2>2, <2>4, <3>1 DEF Behind
  <2>6. b[1] = e[1] /\ b[2] = e[2] /\ b[3] = e[3] /\ b[4] = e[4] /\ b[5] = e[5]
    BY <2>5 DEF StartsWith, e
  <2>8. e \in Seq(Int)
    BY <2>4 DEF Behind
  <2>9. BranchLaid(i, offset, long, e, b)
    BY <1>3, <2>3, <2>5, <2>6, <2>8 DEF BranchLaid
  <2> QED BY <2>9 DEF e
<1>4. CASE long /\ i.mn # "JMP"
  <2>1. PICK c \in Int : c = 128 + X86!JccCode[i.mn]
    BY <1>1, <1>4
  <2>2. e = <<15, c>> \o X86!Imm32(offset - 6)
    BY <1>4, <2>1 DEF X86!EncodeBranch
  <2>3. PICK o \in Seq(Int) : o = <<15, c>> /\ Len(o) = 2 /\ o[1] = 15 /\ o[2] = c
    <3>1. <<15, c>> \in Seq(Int) /\ Len(<<15, c>>) = 2 /\ <<15, c>>[1] = 15 /\ <<15, c>>[2] = c
      OBVIOUS
    <3> QED BY <3>1
  <2>4. PICK v \in Int : v = offset - 6
    OBVIOUS
  <2> HIDE DEF e
  <2>8. e = o \o X86!Imm32(v)
    BY <2>2, <2>3, <2>4
  <2>5. Behind(e, o, v)
    BY <2>8, Imm32Behind
  <2>6. /\ Len(e) = 6 /\ e[1] = 15 /\ e[2] = c /\ e[3] = v % 256 /\ e[4] = (v \div 256) % 256
        /\ e[5] = (v \div 65536) % 256 /\ e[6] = (v \div 16777216) % 256
    <3>1. /\ Len(o) + 1 = 3 /\ Len(o) + 2 = 4 /\ Len(o) + 3 = 5 /\ Len(o) + 4 = 6
          /\ 1 \in 1..Len(o) /\ 2 \in 1..Len(o)
      BY <2>3
    <3> QED BY <2>3, <2>5, <3>1 DEF Behind
  <2>7. /\ b[1] = e[1] /\ b[2] = e[2] /\ b[3] = e[3] /\ b[4] = e[4] /\ b[5] = e[5]
        /\ b[6] = e[6]
    BY <2>6 DEF StartsWith, e
  <2>9. e \in Seq(Int)
    BY <2>5 DEF Behind
  <2>10. BranchLaid(i, offset, long, e, b)
    BY <1>4, <2>1, <2>4, <2>6, <2>7, <2>9 DEF BranchLaid
  <2> QED BY <2>10 DEF e
<1> QED BY <1>2, <1>3, <1>4

LEMMA X86Emits ==
    ASSUME NEW i, WellFormed("x86", i), ~IsLabel(i), NEW pc \in Int, NEW labels,
           \A l \in DOMAIN labels : labels[l] \in Int, NEW long \in BOOLEAN,
           X86!X86Encode(i, pc, labels, long) # Rejected, NEW b,
           StartsWith(b, X86!X86Encode(i, pc, labels, long))
    PROVE  Measured(i, long, X86!X86Encode(i, pc, labels, long), b)
<1> DEFINE e == X86!X86Encode(i, pc, labels, long)
           offset == X86!Offset(i, pc, labels)
<1>1. /\ i.rd \in 0..7 /\ i.rs1 \in 0..7 /\ i.rs2 \in 0..7 /\ i.imm \in Int
  BY DEF WellFormed, NumRegs
<1>2. X86!Resolves(i, labels)
  BY DEF X86!X86Encode, X86!Rejected, Rejected
<1>3. offset \in Int
  BY <1>1, <1>2 DEF X86!Resolves, X86!Offset
<1>4. i.mn \in {"NOP", "RET", "PUSH", "POP", "CALL", "MOV"} \/ X86!IsBranch(i)
      \/ i.mn \in DOMAIN X86!AluOpcode
  BY <1>2 DEF X86!X86Encode, X86!Rejected, Rejected
<1>5. CASE i.mn \in {"NOP", "RET", "PUSH", "POP"}
  <2>1. PICK o \in Int : e = <<o>> /\ o \in {144, 195} \union 80..87 \union 88..95
    <3>1. i.mn = "NOP" => e = <<144>>
      BY <1>2 DEF X86!X86Encode, X86!IsBranch, X86!JccCode, X86!AluOpcode
    <3>2. i.mn = "RET" => e = <<195>>
      BY <1>2 DEF X86!X86Encode, X86!IsBranch, X86!JccCode, X86!AluOpcode
    <3>3. i.mn = "PUSH" => e = <<80 + i.rd>>
      BY <1>2 DEF X86!X86Encode, X86!IsBranch, X86!JccCode, X86!AluOpcode
    <3>4. i.mn = "POP" => e = <<88 + i.rd>>
      BY <1>2 DEF X86!X86Encode, X86!IsBranch, X86!JccCode, X86!AluOpcode
    <3> HIDE DEF e
    <3> QED BY <1>1, <1>5, <3>1, <3>2, <3>3, <3>4
  <2>2. X86!EstimatedSize(i, long) = 1
    BY <1>5 DEF X86!EstimatedSize, X86!IsBranch, X86!JccCode, X86!AluOpcode
  <2> HIDE DEF e
  <2>3. e \in Seq(Int) /\ Len(e) = 1 /\ e[1] = o
    BY <2>1
  <2>4. b[1] = o
    BY <2>3 DEF StartsWith, e
  <2>5. X86!X86Decode(b).instr_len = 1
    BY <2>1, <2>4, DecodedLength
  <2> QED BY <2>2, <2>3, <2>5 DEF Measured, e
<1>6. CASE i.mn = "CALL"
  <2>1. e = << 232 >> \o X86!Imm32(offset - 5)
    BY <1>2, <1>6 DEF X86!X86Encode, X86!IsBranch, X86!JccCode, X86!AluOpcode
  <2>2. X86!EstimatedSize(i, long) = 5
    BY <1>6 DEF X86!EstimatedSize, X86!IsBranch, X86!JccCode, X86!AluOpcode
  <2>3. PICK o \in Seq(Int) : o = << 232 >> /\ Len(o) = 1 /\ o[1] = 232
    <3>1. << 232 >> \in Seq(Int) /\ Len(<< 232 >>) = 1 /\ << 232 >>[1] = 232
      OBVIOUS
    <3> QED BY <3>1
  <2>4. PICK v \in Int : v = offset - 5
    BY <1>3
  <2> HIDE DEF e
  <2>5. Behind(e, o, v)
    <3>1. e = o \o X86!Imm32(v)
      BY <2>1, <2>3, <2>4
    <3> QED BY <3>1, Imm32Behind
  <2>6. e \in Seq(Int) /\ Len(e) = 5 /\ e[1] = 232
    <3>1. 1 \in 1..Len(o) /\ Len(o) + 4 = 5
      BY <2>3
    <3> QED BY <2>3, <2>5, <3>1 DEF Behind
  <2>7. b[1] = 232
    BY <2>6 DEF StartsWith, e
  <2>8. X86!X86Decode(b).instr_len = 5
    BY <2>7, DecodedLength
  <2> QED BY <2>2, <2>6, <2>8 DEF Measured, e
<1>7. CASE X86!IsBranch(i)
  <2>1. e = X86!EncodeBranch(i, offset, long)
    BY <1>2, <1>7 DEF X86!X86Encode, X86!IsBranch, X86!JccCode, X86!AluOpcode
  <2>2. BranchLaid(i, offset, long, e, b)
    BY <1>3, <1>7, <2>1, BranchBytes
  <2>3. i.mn # "JMP" => i.mn \in DOMAIN X86!JccCode /\ X86!JccCode[i.mn] \in 0..15
    BY <1>7 DEF X86!IsBranch, X86!JccCode
  <2>4. X86!EstimatedSize(i, long) = IF ~long THEN 2 ELSE IF i.mn = "JMP" THEN 5 ELSE 6
    BY <1>7 DEF X86!EstimatedSize, X86!IsBranch, X86!JccCode, X86!AluOpcode
  <2> HIDE DEF e
  <2>5. CASE ~long
    <3>1. b[1] = 235 \/ b[1] \in 112..127
      <4>1. b[1] = IF i.mn = "JMP" THEN 235 ELSE 112 + X86!JccCode[i.mn]
        BY <2>2, <2>5 DEF BranchLaid
      <4> QED BY <2>3, <4>1
    <3>2. X86!X86Decode(b).instr_len = 2
      BY <3>1, DecodedLength
    <3> QED BY <2>2, <2>4, <2>5, <3>2 DEF BranchLaid, Measured, e
  <2>6. CASE long /\ i.mn = "JMP"
    <3>1. X86!X86Decode(b).instr_len = 5
      BY <2>2, <2>6, DecodedLength DEF BranchLaid
    <3>2. e \in Seq(Int) /\ Len(e) = 5
      BY <2>2, <2>6 DEF BranchLaid
    <3>3. X86!EstimatedSize(i, long) = 5
      BY <2>4, <2>6
    <3> QED BY <3>1, <3>2, <3>3 DEF Measured, e
  <2>7. CASE long /\ i.mn # "JMP"
    <3>1. b[1] = 15 /\ b[2] \in 128..143
      <4>1. b[1] = 15 /\ b[2] = 128 + X86!JccCode[i.mn]
        BY <2>2, <2>7 DEF BranchLaid
      <4>2. PICK c \in 0..15 : c = X86!JccCode[i.mn]
        BY <2>3, <2>7
      <4>3. 128 + c \in 128..143
        BY <4>2
      <4> QED BY <4>1, <4>2, <4>3
    <3>2. X86!X86Decode(b).instr_len = 6
      BY <3>1, DecodedLength
    <3>3. e \in Seq(Int) /\ Len(e) = 6
      BY <2>2, <2>7 DEF BranchLaid
    <3>4. X86!EstimatedSize(i, long) = 6
      BY <2>4, <2>7
    <3> QED BY <3>2, <3>3, <3>4 DEF Measured, e
  <2> QED BY <2>5, <2>6, <2>7
<1>8. CASE i.mn = "MOV"
  <2>1. e = X86!EncodeMov(i)
    BY <1>2, <1>8 DEF X86!X86Encode, X86!IsBranch, X86!JccCode, X86!AluOpcode
  <2> HIDE DEF e
  <2> QED BY <1>8, <2>1, MovEmits DEF e
<1>9. CASE i.mn \in DOMAIN X86!AluOpcode
  <2>1. e = X86!EncodeAlu(i)
    BY <1>2, <1>9 DEF X86!X86Encode, X86!IsBranch, X86!JccCode, X86!AluOpcode
  <2> HIDE DEF e
  <2> QED BY <1>9, <2>1, AluEmits DEF e
<1> QED BY <1>4, <1>5, <1>6, <1>7, <1>8, <1>9

-----------------------------------------------------------------------------
(* RISC-V and ARM: one word an instruction, four bytes wide.                *)

OneWord(e) == e = Rejected \/ \E w : e = <<w>>

LEMMA RISCVEmits ==
    \A i, pc, labels : OneWord(RV!RISCVEncode(i, pc, labels))
<1> USE DEF OneWord, Rejected, RV!Rejected, RV!Checked
<1>1. \A v, w : OneWord(RV!Checked(v, <<w>>)) /\ OneWord(<<w>>) /\ OneWord(RV!Rejected)
  OBVIOUS
<1>2. \A i, o : /\ OneWord(RV!EncodeR(i)) /\ OneWord(RV!EncodeLoad(i))
                /\ OneWord(RV!EncodeStore(i)) /\ OneWord(RV!EncodeBranch(i, o))
                /\ OneWord(RV!EncodeJal(i, o)) /\ OneWord(RV!EncodeJalr(i))
                /\ OneWord(RV!EncodeUpper(i)) /\ OneWord(RV!PackI(0, 0, 0, 0, RV!OpWord.I_ALU))
  <2> HIDE DEF OneWord, Rejected, RV!Rejected, RV!Checked
  <2> QED BY <1>1 DEF RV!EncodeR, RV!EncodeLoad, RV!EncodeStore, RV!EncodeBranch, RV!EncodeJal,
             RV!EncodeJalr, RV!EncodeUpper, RV!PackI
<1>3. \A i : OneWord(RV!EncodeIAlu(i))
  <2> HIDE DEF OneWord, Rejected, RV!Rejected, RV!Checked
  <2> QED BY <1>1 DEF RV!EncodeIAlu, RV!PackI
<1> HIDE DEF OneWord, Rejected, RV!Rejected, RV!Checked
<1> QED BY <1>1, <1>2, <1>3 DEF RV!RISCVEncode

LEMMA ARMEmits ==
    \A i, pc, labels : OneWord(ARM!ARMEncode(i, pc, labels))
<1> USE DEF OneWord, Rejected, ARM!Rejected, ARM!Checked
<1>1. \A v, w : OneWord(ARM!Checked(v, <<w>>)) /\ OneWord(<<w>>) /\ OneWord(ARM!Rejected)
  OBVIOUS
<1> HIDE DEF OneWord, Rejected, ARM!Rejected, ARM!Checked
<1>2. \A i, c, n : OneWord(ARM!EncodeDpReg(c, n, i)) /\ OneWord(ARM!EncodeRet(n))
  BY <1>1 DEF ARM!EncodeDpReg, ARM!EncodeRet
<1>3. \A i : OneWord(ARM!EncodeDpImm(i)) /\ OneWord(ARM!EncodeMovz(i)) /\ OneWord(ARM!EncodeLdSt(i))
  BY <1>1 DEF ARM!EncodeDpImm, ARM!EncodeMovz, ARM!EncodeLdSt
<1>4. \A i, o, c, n : /\ OneWord(ARM!EncodeB(n, o)) /\ OneWord(ARM!EncodeBCond(c, o))
                      /\ OneWord(ARM!EncodeCbz(i, o))
  BY <1>1 DEF ARM!EncodeB, ARM!EncodeBCond, ARM!EncodeCbz
<1> QED BY <1>1, <1>2, <1>3, <1>4 DEF ARM!ARMEncode

\* The decoders of both step by four bytes whatever they read.
LEMMA FourBytes ==
    \A w : RV!RISCVDecode(w).instr_len = 4 /\ ARM!ARMDecode(w).instr_len = 4
<1>1. \A w : RV!RISCVDecode(w).instr_len = 4
  BY DEF RV!RISCVDecode, RV!NoSignals, RV!OpWord
<1>2. \A w : ARM!ARMDecode(w).instr_len = 4
  BY DEF ARM!ARMDecode, ARM!NoSignals, ARM!RegisterFields, ARM!DecodeDpRegArith,
     ARM!DecodeDpRegLogical, ARM!DecodeDpImmAddSub, ARM!DecodeMovz, ARM!DecodeLdSt, ARM!DecodeB,
     ARM!DecodeBl, ARM!DecodeBCond, ARM!DecodeCbz, ARM!DecodeRet
<1> QED BY <1>1, <1>2

-----------------------------------------------------------------------------
(* The image agrees with the layout.                                        *)

\* What pass 2 makes of line k.
Part(k) == IF IsLabel(text[k]) THEN <<>>
           ELSE Encoded(job.isa, text[k], layout.at[k], layout.labels, k \in wide)
Unit == IF job.isa = "x86" THEN 1 ELSE 4

Imaged == phase = "assembled" => image = Pass2(job.isa, text, wide, layout) /\ image # <<>>

LEMMA WrittenIsKept ==
    AssemblerSpec => []Imaged
<1>1. AssemblerInit => Imaged
  BY DEF AssemblerInit, Imaged
<1>2. Imaged /\ [AssemblerNext]_<<job, phase, text, wide, layout, image>> => Imaged'
  <2> SUFFICES ASSUME Imaged, [AssemblerNext]_<<job, phase, text, wide, layout, image>>
               PROVE  Imaged'
    OBVIOUS
  <2>1. CASE Place \/ Relax
    BY <2>1 DEF Place, Relax, Imaged
  <2>2. CASE Encode
    BY <2>2 DEF Encode, Imaged
  <2>3. CASE UNCHANGED <<job, phase, text, wide, layout, image>>
    BY <2>3 DEF Imaged
  <2> QED BY <2>1, <2>2, <2>3 DEF AssemblerNext
<1> QED BY <1>1, <1>2, PTL DEF AssemblerSpec

Assembled == Loaded /\ Relaxed /\ Imaged /\ phase = "assembled"

\* Addresses are numbers.
LEMMA LayoutType ==
    ASSUME Assembled
    PROVE  /\ Len(text) \in Nat /\ DOMAIN text = 1..Len(text)
           /\ \A k \in DOMAIN text : layout.at[k] = Before(job.isa, text, wide, k)
           /\ \A k \in DOMAIN text : layout.at[k] \in Nat
           /\ layout.pc = Before(job.isa, text, wide, Len(text) + 1)
           /\ \A l \in DOMAIN layout.labels : layout.labels[l] \in Nat
<1>1. Len(text) \in Nat /\ DOMAIN text = 1..Len(text)
  BY DEF Assembled, Loaded
<1>2. layout = Pass1(job.isa, text, wide)
  BY DEF Assembled, Relaxed
<1>3. \A k \in 1..Len(text) + 1 : Before(job.isa, text, wide, k) \in Nat
  BY <1>1, BeforeIs
<1>4. \A k \in DOMAIN text : k \in 1..Len(text) + 1
  BY <1>1
<1>5. \A l \in DOMAIN layout.labels :
         /\ layout.labels[l] = Before(job.isa, text, wide, Definition(text, l))
         /\ Definition(text, l) \in DOMAIN text
  BY <1>2, Pass1Is, DefinitionIs
<1>6. /\ layout.pc = Before(job.isa, text, wide, Len(text) + 1)
      /\ \A k \in DOMAIN text : layout.at[k] = Before(job.isa, text, wide, k)
  BY <1>2, Pass1Is
<1>7. /\ \A k \in DOMAIN text : layout.at[k] \in Nat
      /\ \A l \in DOMAIN layout.labels : layout.labels[l] \in Nat
  BY <1>3, <1>4, <1>5, <1>6, Zenon
<1> QED BY <1>1, <1>6, <1>7

\* No line was refused.
LEMMA PartsAreWritten ==
    ASSUME Assembled
    PROVE  /\ \A k \in DOMAIN text : ~IsLabel(text[k]) => Part(k) # Rejected
           /\ image = Joined([k \in DOMAIN text |-> Part(k)])
<1> DEFINE parts == [k \in DOMAIN text |->
                        IF IsLabel(text[k]) THEN <<>>
                        ELSE Encoded(job.isa, text[k], layout.at[k], layout.labels, k \in wide)]
<1>1. parts = [k \in DOMAIN text |-> Part(k)]
  BY DEF Part
<1>2. image # Rejected /\ image = Pass2(job.isa, text, wide, layout)
  BY DEF Assembled, Imaged, Rejected
<1>3. /\ image = Joined(parts)
      /\ \A k \in DOMAIN text : ~IsLabel(text[k]) => parts[k] # Rejected
  BY <1>2 DEF Pass2
<1>4. \A k \in DOMAIN text : parts[k] = Part(k)
  BY DEF Part
<1> HIDE DEF parts
<1> QED BY <1>1, <1>3, <1>4

\* An encoded line is as long as its size, on RISC-V and ARM in words.
LEMMA PartLength ==
    ASSUME Assembled, NEW k \in DOMAIN text
    PROVE  /\ Len(Part(k)) \in Nat /\ Unit * Len(Part(k)) = Own(job.isa, text, wide, k)
           /\ job.isa = "x86" => Part(k) \in Seq(Int)
           /\ job.isa # "x86" => Part(k) = <<>> \/ \E w : Part(k) = <<w>>
<1>1. CASE IsLabel(text[k])
  <2>1. Part(k) = <<>> /\ Own(job.isa, text, wide, k) = 0
    BY <1>1 DEF Part, Own
  <2>2. Len(<<>>) = 0 /\ <<>> \in Seq(Int) /\ Unit * 0 = 0
    BY DEF Unit
  <2> QED BY <2>1, <2>2
<1>2. CASE ~IsLabel(text[k]) /\ job.isa # "x86"
  <2>1. job.isa \in {"riscv", "arm"}
    BY <1>2 DEF Assembled, Loaded, ISAs
  <2>2. OneWord(Part(k))
    BY <1>2, <2>1, RISCVEmits, ARMEmits DEF Part, Encoded
  <2>3. PICK w : Part(k) = <<w>>
    BY <1>2, <2>2, PartsAreWritten DEF OneWord
  <2>4. Len(Part(k)) = 1
    BY <2>3
  <2>5. Own(job.isa, text, wide, k) = 4 /\ Unit = 4
    BY <1>2, <2>1 DEF Own, SizeAt, Unit
  <2> QED BY <1>2, <2>3, <2>4, <2>5
<1>3. CASE ~IsLabel(text[k]) /\ job.isa = "x86"
  <2>1. PICK long \in BOOLEAN : long = (k \in wide)
    <3>1. (k \in wide) = TRUE \/ (k \in wide) = FALSE
      OBVIOUS
    <3> QED BY <3>1
  <2>2. Part(k) = X86!X86Encode(text[k], layout.at[k], layout.labels, long)
    BY <1>3, <2>1 DEF Part, Encoded
  <2>3. Part(k) # Rejected /\ WellFormed("x86", text[k])
    BY <1>3, PartsAreWritten DEF Assembled, Loaded
  <2>4. layout.at[k] \in Int /\ \A l \in DOMAIN layout.labels : layout.labels[l] \in Int
    BY LayoutType
  <2>5. PICK b : b = Part(k)
    OBVIOUS
  <2>6. StartsWith(b, Part(k))
    BY <2>5 DEF StartsWith
  <2>7. Measured(text[k], long, Part(k), b)
    BY <1>3, <2>2, <2>3, <2>4, <2>6, X86Emits
  <2>8. Own(job.isa, text, wide, k) = X86!EstimatedSize(text[k], long)
    BY <1>3, <2>1 DEF Own, SizeAt
  <2>9. Unit = 1
    BY <1>3 DEF Unit
  <2>10. Part(k) \in Seq(Int) /\ Len(Part(k)) = Own(job.isa, text, wide, k)
    BY <2>7, <2>8 DEF Measured
  <2>11. Len(Part(k)) \in Nat
    BY <2>10
  <2>12. 1 * Len(Part(k)) = Len(Part(k))
    BY <2>11
  <2> QED BY <1>3, <2>9, <2>10, <2>11, <2>12
<1> QED BY <1>1, <1>2, <1>3

\* Every line is found in the image at its address.
LEMMA PartIsThere ==
    ASSUME Assembled
    PROVE  /\ Len(image) \in Nat /\ Unit * Len(image) = layout.pc
           /\ \A k \in DOMAIN text : \E o \in Nat :
                 /\ layout.at[k] = Unit * o
                 /\ \A m \in 1..Len(Part(k)) : o + m <= Len(image) /\ image[o + m] = Part(k)[m]
<1> DEFINE n == Len(text)
           parts == [k \in 1..n |-> Part(k)]
           B(k) == Before(job.isa, text, wide, k)
<1>1. n \in Nat \ {0} /\ DOMAIN text = 1..n
  BY LayoutType DEF Assembled, Loaded
<1>2. image = Joined(parts)
  BY <1>1, PartsAreWritten
<1>3. Len(parts) = n /\ \A k \in 1..n : parts[k] = Part(k)
  BY <1>1
<1>4. PICK S : \A k \in 1..n : Part(k) \in Seq(S)
  <2>1. CASE job.isa = "x86"
    BY <1>1, <2>1, PartLength
  <2>2. CASE job.isa # "x86"
    <3> DEFINE S == {Part(k)[1] : k \in 1..n}
    <3>1. ASSUME NEW k \in 1..n PROVE Part(k) \in Seq(S)
      <4>1. Part(k)[1] \in S
        OBVIOUS
      <4>2. Part(k) = <<>> \/ \E w : Part(k) = <<w>>
        BY <1>1, <2>2, PartLength
      <4> HIDE DEF S
      <4>3. CASE Part(k) = <<>>
        BY <4>3
      <4>4. CASE \E w : Part(k) = <<w>>
        <5>1. PICK w : Part(k) = <<w>>
          BY <4>4
        <5>2. w \in S
          BY <4>1, <5>1
        <5> QED BY <5>1, <5>2
      <4> QED BY <4>2, <4>3, <4>4
    <3> HIDE DEF S
    <3> QED BY <3>1
  <2> QED BY <2>1, <2>2
<1> HIDE DEF parts
<1>5. PICK off \in [1..n + 1 -> Nat] :
         /\ off[1] = 0
         /\ \A k \in 1..n : off[k + 1] = off[k] + Len(parts[k])
         /\ Len(image) = off[n + 1]
         /\ \A k \in 1..n : \A m \in 1..Len(parts[k]) :
               off[k] + m <= Len(image) /\ image[off[k] + m] = parts[k][m]
  <2>1. Len(parts) \in Nat \ {0} /\ \A k \in 1..Len(parts) : parts[k] \in Seq(S)
    BY <1>1, <1>3, <1>4
  <2>2. Laid(parts) /\ Joined(parts) = FlattenSeq(parts)
    <3>1. PICK q : q = parts
      OBVIOUS
    <3>2. Len(q) \in Nat \ {0} /\ \A k \in 1..Len(q) : q[k] \in Seq(S)
      BY <2>1, <3>1, Zenon
    <3>3. Laid(q) /\ Joined(q) = FlattenSeq(q)
      BY <3>2, FlattenIs, JoinedIsFlat
    <3> QED BY <3>1, <3>3, Zenon
  <2>3. \E off \in [1..Len(parts) + 1 -> Nat] :
           /\ off[1] = 0
           /\ \A k \in 1..Len(parts) : off[k + 1] = off[k] + Len(parts[k])
           /\ Len(FlattenSeq(parts)) = off[Len(parts) + 1]
           /\ \A k \in 1..Len(parts) : \A m \in 1..Len(parts[k]) :
                 /\ off[k] + m <= Len(FlattenSeq(parts))
                 /\ FlattenSeq(parts)[off[k] + m] = parts[k][m]
    BY <2>2, Zenon DEF Laid
  <2> HIDE DEF n
  <2>4. image = FlattenSeq(parts) /\ Len(parts) = n
    BY <1>2, <1>3, <2>2, Zenon
  <2> QED BY <2>3, <2>4, Zenon
<1>6. B(1) = 0 /\ \A k \in 1..n : B(k + 1) = B(k) + Own(job.isa, text, wide, k)
  BY <1>1, BeforeIs
<1>7. \A k \in 1..n : Own(job.isa, text, wide, k) = Unit * Len(parts[k]) /\ Len(parts[k]) \in Nat
  BY <1>1, <1>3, PartLength
<1> DEFINE Q == {k \in 0..n : B(k + 1) = Unit * off[k + 1]}
<1> HIDE DEF B
<1>8. Unit \in {1, 4}
  BY DEF Unit
<1>9. 0 \in Q
  <2>1. 0 + 1 = 1 /\ Unit * 0 = 0 /\ 0 \in 0..n
    BY <1>1, <1>8
  <2> QED BY <1>5, <1>6, <2>1
<1>10. ASSUME NEW k \in 0..(n - 1), k \in Q PROVE k + 1 \in Q
  <2>1. k + 1 \in 1..n /\ k + 1 \in 1..n + 1 /\ k + 1 \in 0..n
    BY <1>1
  <2>2. B((k + 1) + 1) = Unit * off[k + 1] + Unit * Len(parts[k + 1])
    BY <1>6, <1>7, <1>10, <2>1
  <2>3. off[(k + 1) + 1] = off[k + 1] + Len(parts[k + 1])
    BY <1>5, <2>1
  <2>4. off[k + 1] \in Nat /\ Len(parts[k + 1]) \in Nat
    BY <1>7, <2>1
  <2>5. \A x, y \in Nat : Unit * x + Unit * y = Unit * (x + y)
    BY <1>8
  <2> QED BY <2>1, <2>2, <2>3, <2>4, <2>5
<1>11. \A k \in 1..n + 1 : B(k) = Unit * off[k]
  <2>1. 0..n \subseteq Q
    <3> HIDE DEF Q
    <3> QED BY <1>1, <1>9, <1>10, NatByInduction
  <2>2. \A k \in 1..n + 1 : k - 1 \in 0..n /\ (k - 1) + 1 = k
    BY <1>1
  <2> QED BY <2>1, <2>2
<1>12. /\ \A k \in 1..n : layout.at[k] = B(k)
       /\ layout.pc = B(n + 1)
  BY <1>1, LayoutType DEF B
<1>13. n + 1 \in 1..n + 1 /\ \A k \in 1..n : k \in 1..n + 1
  BY <1>1
<1>14. Len(image) \in Nat /\ Unit * Len(image) = layout.pc
  BY <1>5, <1>11, <1>12, <1>13
<1>15. ASSUME NEW k \in 1..n
       PROVE  \E o \in Nat :
                 /\ layout.at[k] = Unit * o
                 /\ \A m \in 1..Len(Part(k)) : o + m <= Len(image) /\ image[o + m] = Part(k)[m]
  <2>1. off[k] \in Nat /\ layout.at[k] = Unit * off[k]
    BY <1>11, <1>12, <1>13
  <2>2. \A m \in 1..Len(Part(k)) : off[k] + m <= Len(image) /\ image[off[k] + m] = Part(k)[m]
    BY <1>3, <1>5
  <2> QED BY <2>1, <2>2
<1> QED BY <1>1, <1>14, <1>15

\* The bytes at the address of an x86 line are those of its encoding.
LEMMA BytesAreThere ==
    ASSUME Assembled, job.isa = "x86", NEW k \in DOMAIN text
    PROVE  StartsWith(BytesAt(image, layout.at[k]), Part(k))
<1>1. PICK o \in Nat :
         /\ layout.at[k] = Unit * o
         /\ \A m \in 1..Len(Part(k)) : o + m <= Len(image) /\ image[o + m] = Part(k)[m]
  BY PartIsThere
<1>2. layout.at[k] = o
  BY <1>1 DEF Unit
<1>3. Len(Part(k)) \in Nat /\ Len(Part(k)) <= 6
  <2>1. Len(Part(k)) \in Nat /\ Unit * Len(Part(k)) = Own(job.isa, text, wide, k)
    BY PartLength
  <2>2. Own(job.isa, text, wide, k) \in 0..6
    BY OwnType
  <2> QED BY <2>1, <2>2 DEF Unit
<1>4. ASSUME NEW m \in 1..Len(Part(k)) PROVE BytesAt(image, o)[m] = Part(k)[m]
  <2>1. m \in 1..8
    BY <1>3
  <2> QED BY <1>1, <2>1 DEF BytesAt
<1> QED BY <1>2, <1>4 DEF StartsWith

\* The word at the address of another instruction set's line is its encoding.
LEMMA WordIsThere ==
    ASSUME Assembled, job.isa # "x86", NEW k \in DOMAIN text, ~IsLabel(text[k])
    PROVE  Part(k) = <<WordAt(image, layout.at[k])>>
<1>1. PICK o \in Nat :
         /\ layout.at[k] = Unit * o
         /\ \A m \in 1..Len(Part(k)) : o + m <= Len(image) /\ image[o + m] = Part(k)[m]
  BY PartIsThere
<1>2. PICK w : Part(k) = <<w>>
  BY PartLength, PartsAreWritten DEF Rejected
<1>3. Len(Part(k)) = 1 /\ Part(k)[1] = w
  BY <1>2
<1>4. o + 1 <= Len(image) /\ image[o + 1] = w
  BY <1>1, <1>3
<1>5. layout.at[k] = 4 * o /\ (4 * o) \div 4 = o
  BY <1>1 DEF Unit
<1>6. Len(image) \in Nat
  BY PartIsThere
<1>7. WordAt(image, layout.at[k]) = w
  BY <1>4, <1>5, <1>6 DEF WordAt
<1> QED BY <1>2, <1>7

LEMMA LayoutAgrees ==
    Loaded /\ Relaxed /\ Imaged => LayoutMatchesImage
<1> SUFFICES ASSUME Assembled PROVE LayoutMatchesImage
  BY DEF Assembled, LayoutMatchesImage
<1> DEFINE n == Len(text)
           end(k) == IF k = Len(text) THEN layout.pc ELSE layout.at[k + 1]
<1>1. n \in Nat /\ DOMAIN text = 1..n
  BY LayoutType
<1>2. Len(image) * (IF job.isa = "x86" THEN 1 ELSE 4) = layout.pc
  <2>1. Len(image) \in Nat /\ Unit * Len(image) = layout.pc
    BY PartIsThere
  <2>2. Unit = (IF job.isa = "x86" THEN 1 ELSE 4) /\ Unit \in {1, 4}
    BY DEF Unit
  <2>3. Len(image) * Unit = Unit * Len(image)
    BY <2>1, <2>2
  <2> QED BY <2>1, <2>2, <2>3
<1>3. ASSUME NEW k \in DOMAIN text, ~IsLabel(text[k])
      PROVE  layout.at[k] + Decoded(job.isa, image, layout.at[k]).instr_len = end(k)
  <2>1. end(k) = Before(job.isa, text, wide, k + 1)
    <3>1. k # n => k + 1 \in DOMAIN text
      BY <1>1
    <3> QED BY <3>1, LayoutType
  <2>2. end(k) = layout.at[k] + Own(job.isa, text, wide, k)
    <3>1. Before(job.isa, text, wide, k + 1)
            = Before(job.isa, text, wide, k) + Own(job.isa, text, wide, k)
      BY <1>1, BeforeIs
    <3>2. layout.at[k] = Before(job.isa, text, wide, k)
      BY LayoutType
    <3> HIDE DEF end
    <3> QED BY <2>1, <3>1, <3>2, Zenon
  <2>3. Decoded(job.isa, image, layout.at[k]).instr_len = Own(job.isa, text, wide, k)
    <3>1. CASE job.isa # "x86"
      <4>1. job.isa \in {"riscv", "arm"}
        BY <3>1 DEF Assembled, Loaded, ISAs
      <4>2. Own(job.isa, text, wide, k) = 4
        BY <1>3, <3>1 DEF Own, SizeAt
      <4>3. Decoded(job.isa, image, layout.at[k]).instr_len = 4
        BY <4>1, FourBytes DEF Decoded
      <4> QED BY <4>2, <4>3
    <3>2. CASE job.isa = "x86"
      <4>1. PICK b : b = BytesAt(image, layout.at[k])
        OBVIOUS
      <4>2. PICK long \in BOOLEAN : long = (k \in wide)
        <5>1. (k \in wide) = TRUE \/ (k \in wide) = FALSE
          OBVIOUS
        <5> QED BY <5>1
      <4>3. Part(k) = X86!X86Encode(text[k], layout.at[k], layout.labels, long)
        BY <1>3, <3>2, <4>2 DEF Part, Encoded
      <4>4. Part(k) # Rejected /\ WellFormed("x86", text[k])
        BY <1>3, <3>2, PartsAreWritten DEF Assembled, Loaded
      <4>5. layout.at[k] \in Int /\ \A l \in DOMAIN layout.labels : layout.labels[l] \in Int
        BY LayoutType
      <4>6. StartsWith(b, Part(k))
        BY <3>2, <4>1, BytesAreThere
      <4>7. Measured(text[k], long, Part(k), b)
        BY <1>3, <4>3, <4>4, <4>5, <4>6, X86Emits
      <4>8. Own(job.isa, text, wide, k) = X86!EstimatedSize(text[k], long)
        BY <1>3, <3>2, <4>2 DEF Own, SizeAt
      <4>9. Decoded(job.isa, image, layout.at[k]) = X86!X86Decode(b)
        BY <3>2, <4>1 DEF Decoded
      <4> QED BY <4>7, <4>8, <4>9 DEF Measured
    <3> QED BY <3>1, <3>2
  <2> QED BY <2>2, <2>3
<1> QED BY <1>2, <1>3 DEF LayoutMatchesImage

\* Pass 1, pass 2 and the decoder measure every line of every text alike:
\* LayoutMatchesImage.
THEOREM PassesAgree ==
    AssemblerSpec => []LayoutMatchesImage
<1> QED BY LoadedIsKept, RelaxedIsKept, WrittenIsKept, LayoutAgrees, PTL

-----------------------------------------------------------------------------
(* Branches.  The fields of a word are read back as they were packed.       *)

\* An equation as an atom, for lemmas that the provers instantiate by matching.
Same(x, y) == x = y

\* a, shifted left to make room for the field v of a width that has p values.
Shifted(a, v, p) == a * p + (v % p)

\* What the word starts from: the sign of its first field.
Sign(v, n) == IF Bits(v, n - 1, n - 1) = 1 THEN -1 ELSE 0

\* f is the word as it grows, field by field from bit 31 down.
PackedBy(fields, f) ==
    /\ f[0] = IF Bits(fields[1][1], fields[1][2] - 1, fields[1][2] - 1) = 1 THEN -1 ELSE 0
    /\ \A k \in 1..Len(fields) :
          f[k] = Shifted(f[k - 1], fields[k][1], 2^fields[k][2])

\* Pack computes such a function.
LEMMA PackIs ==
    ASSUME NEW fields, Len(fields) \in Nat
    PROVE  \E f : PackedBy(fields, f) /\ Pack(fields) = f[Len(fields)]
<1> DEFINE n == Len(fields)
           next(f, k) == IF k = 0
                         THEN IF Bits(fields[1][1], fields[1][2] - 1, fields[1][2] - 1) = 1
                              THEN -1 ELSE 0
                         ELSE f[k - 1] * 2^fields[k][2] + (fields[k][1] % 2^fields[k][2])
           run == CHOOSE f : f = [k \in 0..n |-> next(f, k)]
           Upto(f, m) == \A k \in 0..m : f[k] = next(f, k)
           T == {m \in 0..n : \E f : Upto(f, m)}
<1>1. Pack(fields) = run[n]
  BY Zenon DEF Pack
<1>2. \A f, g : \A k \in 0..n : (k # 0 => f[k - 1] = g[k - 1]) => next(f, k) = next(g, k)
  BY Zenon
<1>3. \A f : next(f, 0) = IF Bits(fields[1][1], fields[1][2] - 1, fields[1][2] - 1) = 1
                          THEN -1 ELSE 0
  BY Zenon
<1>4. \A f : \A k \in 1..n :
         next(f, k) = Shifted(f[k - 1], fields[k][1], 2^fields[k][2])
  <2>1. \A k \in 1..n : k # 0
    OBVIOUS
  <2> QED BY <2>1, Zenon DEF Shifted
<1> HIDE DEF next
<1>5. 0 \in T
  <2> DEFINE f == [k \in 0..0 |-> next(k, 0)]
  <2>1. f[0] = next(f, 0)
    <3>1. f[0] = next(0, 0)
      OBVIOUS
    <3> HIDE DEF f
    <3> QED BY <1>2, <3>1
  <2>2. Upto(f, 0)
    <3> HIDE DEF f
    <3> QED BY <2>1
  <2> HIDE DEF Upto
  <2> QED BY <2>2
<1>6. ASSUME NEW m \in 0..(n - 1), m \in T PROVE m + 1 \in T
  <2>1. PICK f : Upto(f, m)
    BY <1>6
  <2> DEFINE g == [k \in 0..m + 1 |-> IF k <= m THEN f[k] ELSE next(f, k)]
  <2>2. ASSUME NEW k \in 0..m + 1 PROVE g[k] = next(g, k)
    <3>1. k # 0 => g[k - 1] = f[k - 1]
      OBVIOUS
    <3>2. next(g, k) = next(f, k)
      <4>1. k \in 0..n
        OBVIOUS
      <4> HIDE DEF g
      <4> QED BY <1>2, <3>1, <4>1
    <3>3. g[k] = IF k <= m THEN f[k] ELSE next(f, k)
      OBVIOUS
    <3>4. k <= m => f[k] = next(f, k)
      BY <2>1
    <3> HIDE DEF g
    <3> QED BY <3>2, <3>3, <3>4
  <2>3. Upto(g, m + 1)
    <3> HIDE DEF g
    <3> QED BY <2>2
  <2> HIDE DEF Upto
  <2> QED BY <2>3
<1>7. n \in T
  <2>1. 0..n \subseteq T
    <3> HIDE DEF T
    <3> QED BY <1>5, <1>6, NatByInduction
  <2> HIDE DEF T
  <2> QED BY <2>1
<1>8. PICK f : Upto(f, n)
  BY <1>7
<1> DEFINE g == [k \in 0..n |-> next(f, k)]
<1>9. \A k \in 0..n : g[k] = f[k]
  BY <1>8
<1>10. \A k \in 0..n : next(g, k) = next(f, k)
  <2> HIDE DEF g
  <2> QED BY <1>2, <1>9
<1>11. g = [k \in 0..n |-> next(g, k)]
  <2>1. [k \in 0..n |-> next(g, k)] = [k \in 0..n |-> next(f, k)]
    <3> HIDE DEF g
    <3> QED BY <1>10
  <2> QED BY <2>1
<1>12. run = [k \in 0..n |-> next(run, k)]
  <2> HIDE DEF g
  <2> QED BY <1>11
<1> HIDE DEF run
<1>13. \A k \in 0..n : run[k] = next(run, k)
  BY <1>12
<1>14. PackedBy(fields, run)
  <2>1. 0 \in 0..n
    OBVIOUS
  <2>2. run[0] = next(run, 0)
    BY <1>13, <2>1
  <2>3. \A k \in 1..n : run[k] = next(run, k)
    BY <1>13
  <2> QED BY <1>3, <1>4, <2>2, <2>3, Zenon DEF PackedBy
<1> QED BY <1>1, <1>14

\* What a word of so many fields is.
LEMMA Pack3 ==
    ASSUME NEW v1, NEW v2, NEW v3,
           NEW n1, NEW n2, NEW n3
    PROVE  Same(Pack(<< <<v1, n1>>, <<v2, n2>>, <<v3, n3>> >>),
                Shifted(Shifted(Shifted(Sign(v1, n1), v1, 2^n1), v2, 2^n2), v3, 2^n3))
<1> DEFINE fields == << <<v1, n1>>, <<v2, n2>>, <<v3, n3>> >>
<1>1. /\ Len(fields) = 3
      /\ fields[1][1] = v1 /\ fields[1][2] = n1 /\ fields[2][1] = v2 /\ fields[2][2] = n2
      /\ fields[3][1] = v3 /\ fields[3][2] = n3
  BY SMT
<1> HIDE DEF fields
<1>2. PICK f : PackedBy(fields, f) /\ Pack(fields) = f[3]
  <2>1. Len(fields) \in Nat
    BY SMT, <1>1
  <2> QED BY <1>1, <2>1, PackIs, Zenon
<1>3. f[0] = Sign(v1, n1)
  BY <1>1, <1>2, Zenon DEF PackedBy, Sign
<1>4. \A k \in 1..3 : f[k] = Shifted(f[k - 1], fields[k][1], 2^fields[k][2])
  BY <1>1, <1>2, Zenon DEF PackedBy
<1>5. /\ f[1] = Shifted(f[0], fields[1][1], 2^fields[1][2])
      /\ f[2] = Shifted(f[1], fields[2][1], 2^fields[2][2])
      /\ f[3] = Shifted(f[2], fields[3][1], 2^fields[3][2])
  BY SMT, <1>4
<1>6. /\ f[1] = Shifted(f[0], v1, 2^n1)
      /\ f[2] = Shifted(f[1], v2, 2^n2)
      /\ f[3] = Shifted(f[2], v3, 2^n3)
  BY <1>1, <1>5, Zenon
<1> QED BY <1>2, <1>3, <1>6, Zenon DEF fields, Same

LEMMA Pack4 ==
    ASSUME NEW v1, NEW v2, NEW v3, NEW v4,
           NEW n1, NEW n2, NEW n3, NEW n4
    PROVE  Same(Pack(<< <<v1, n1>>, <<v2, n2>>, <<v3, n3>>, <<v4, n4>> >>),
                Shifted(Shifted(Shifted(Shifted(Sign(v1, n1), v1, 2^n1), v2, 2^n2), v3, 2^n3),
                        v4, 2^n4))
<1> DEFINE fields == << <<v1, n1>>, <<v2, n2>>, <<v3, n3>>, <<v4, n4>> >>
<1>1. /\ Len(fields) = 4
      /\ fields[1][1] = v1 /\ fields[1][2] = n1 /\ fields[2][1] = v2 /\ fields[2][2] = n2
      /\ fields[3][1] = v3 /\ fields[3][2] = n3 /\ fields[4][1] = v4 /\ fields[4][2] = n4
  BY SMT
<1> HIDE DEF fields
<1>2. PICK f : PackedBy(fields, f) /\ Pack(fields) = f[4]
  <2>1. Len(fields) \in Nat
    BY SMT, <1>1
  <2> QED BY <1>1, <2>1, PackIs, Zenon
<1>3. f[0] = Sign(v1, n1)
  BY <1>1, <1>2, Zenon DEF PackedBy, Sign
<1>4. \A k \in 1..4 : f[k] = Shifted(f[k - 1], fields[k][1], 2^fields[k][2])
  BY <1>1, <1>2, Zenon DEF PackedBy
<1>5. /\ f[1] = Shifted(f[0], fields[1][1], 2^fields[1][2])
      /\ f[2] = Shifted(f[1], fields[2][1], 2^fields[2][2])
      /\ f[3] = Shifted(f[2], fields[3][1], 2^fields[3][2])
      /\ f[4] = Shifted(f[3], fields[4][1], 2^fields[4][2])
  BY SMT, <1>4
<1>6. /\ f[1] = Shifted(f[0], v1, 2^n1)
      /\ f[2] = Shifted(f[1], v2, 2^n2)
      /\ f[3] = Shifted(f[2], v3, 2^n3)
      /\ f[4] = Shifted(f[3], v4, 2^n4)
  BY <1>1, <1>5, Zenon
<1> QED BY <1>2, <1>3, <1>6, Zenon DEF fields, Same

LEMMA Pack5 ==
    ASSUME NEW v1, NEW v2, NEW v3, NEW v4, NEW v5,
           NEW n1, NEW n2, NEW n3, NEW n4, NEW n5
    PROVE  Same(Pack(<< <<v1, n1>>, <<v2, n2>>, <<v3, n3>>, <<v4, n4>>, <<v5, n5>> >>),
                Shifted(Shifted(Shifted(Shifted(Shifted(Sign(v1, n1), v1, 2^n1), v2, 2^n2),
                        v3, 2^n3), v4, 2^n4), v5, 2^n5))
<1> DEFINE fields == << <<v1, n1>>, <<v2, n2>>, <<v3, n3>>, <<v4, n4>>, <<v5, n5>> >>
<1>1. /\ Len(fields) = 5
      /\ fields[1][1] = v1 /\ fields[1][2] = n1 /\ fields[2][1] = v2 /\ fields[2][2] = n2
      /\ fields[3][1] = v3 /\ fields[3][2] = n3 /\ fields[4][1] = v4 /\ fields[4][2] = n4
      /\ fields[5][1] = v5 /\ fields[5][2] = n5
  BY SMT
<1> HIDE DEF fields
<1>2. PICK f : PackedBy(fields, f) /\ Pack(fields) = f[5]
  <2>1. Len(fields) \in Nat
    BY SMT, <1>1
  <2> QED BY <1>1, <2>1, PackIs, Zenon
<1>3. f[0] = Sign(v1, n1)
  BY <1>1, <1>2, Zenon DEF PackedBy, Sign
<1>4. \A k \in 1..5 : f[k] = Shifted(f[k - 1], fields[k][1], 2^fields[k][2])
  BY <1>1, <1>2, Zenon DEF PackedBy
<1>5. /\ f[1] = Shifted(f[0], fields[1][1], 2^fields[1][2])
      /\ f[2] = Shifted(f[1], fields[2][1], 2^fields[2][2])
      /\ f[3] = Shifted(f[2], fields[3][1], 2^fields[3][2])
      /\ f[4] = Shifted(f[3], fields[4][1], 2^fields[4][2])
      /\ f[5] = Shifted(f[4], fields[5][1], 2^fields[5][2])
  BY SMT, <1>4
<1>6. /\ f[1] = Shifted(f[0], v1, 2^n1)
      /\ f[2] = Shifted(f[1], v2, 2^n2)
      /\ f[3] = Shifted(f[2], v3, 2^n3)
      /\ f[4] = Shifted(f[3], v4, 2^n4)
      /\ f[5] = Shifted(f[4], v5, 2^n5)
  BY <1>1, <1>5, Zenon
<1> QED BY <1>2, <1>3, <1>6, Zenon DEF fields, Same

LEMMA Pack6 ==
    ASSUME NEW v1, NEW v2, NEW v3, NEW v4, NEW v5, NEW v6,
           NEW n1, NEW n2, NEW n3, NEW n4, NEW n5, NEW n6
    PROVE  Same(Pack(<< <<v1, n1>>, <<v2, n2>>, <<v3, n3>>, <<v4, n4>>, <<v5, n5>>, <<v6, n6>> >>),
                Shifted(Shifted(Shifted(Shifted(Shifted(Shifted(Sign(v1, n1), v1, 2^n1), v2, 2^n2),
                        v3, 2^n3), v4, 2^n4), v5, 2^n5), v6, 2^n6))
<1> DEFINE fields == << <<v1, n1>>, <<v2, n2>>, <<v3, n3>>, <<v4, n4>>, <<v5, n5>>, <<v6, n6>> >>
<1>1. /\ Len(fields) = 6
      /\ fields[1][1] = v1 /\ fields[1][2] = n1 /\ fields[2][1] = v2 /\ fields[2][2] = n2
      /\ fields[3][1] = v3 /\ fields[3][2] = n3 /\ fields[4][1] = v4 /\ fields[4][2] = n4
      /\ fields[5][1] = v5 /\ fields[5][2] = n5 /\ fields[6][1] = v6 /\ fields[6][2] = n6
  BY SMT
<1> HIDE DEF fields
<1>2. PICK f : PackedBy(fields, f) /\ Pack(fields) = f[6]
  <2>1. Len(fields) \in Nat
    BY SMT, <1>1
  <2> QED BY <1>1, <2>1, PackIs, Zenon
<1>3. f[0] = Sign(v1, n1)
  BY <1>1, <1>2, Zenon DEF PackedBy, Sign
<1>4. \A k \in 1..6 : f[k] = Shifted(f[k - 1], fields[k][1], 2^fields[k][2])
  BY <1>1, <1>2, Zenon DEF PackedBy
<1>5. /\ f[1] = Shifted(f[0], fields[1][1], 2^fields[1][2])
      /\ f[2] = Shifted(f[1], fields[2][1], 2^fields[2][2])
      /\ f[3] = Shifted(f[2], fields[3][1], 2^fields[3][2])
      /\ f[4] = Shifted(f[3], fields[4][1], 2^fields[4][2])
      /\ f[5] = Shifted(f[4], fields[5][1], 2^fields[5][2])
      /\ f[6] = Shifted(f[5], fields[6][1], 2^fields[6][2])
  BY SMT, <1>4
<1>6. /\ f[1] = Shifted(f[0], v1, 2^n1)
      /\ f[2] = Shifted(f[1], v2, 2^n2)
      /\ f[3] = Shifted(f[2], v3, 2^n3)
      /\ f[4] = Shifted(f[3], v4, 2^n4)
      /\ f[5] = Shifted(f[4], v5, 2^n5)
      /\ f[6] = Shifted(f[5], v6, 2^n6)
  BY <1>1, <1>5, Zenon
<1> QED BY <1>2, <1>3, <1>6, Zenon DEF fields, Same

LEMMA Pack8 ==
    ASSUME NEW v1, NEW v2, NEW v3, NEW v4, NEW v5, NEW v6, NEW v7, NEW v8
    PROVE  Same(Pack(<< <<v1, 1>>, <<v2, 6>>, <<v3, 5>>, <<v4, 5>>, <<v5, 3>>, <<v6, 4>>,
                  <<v7, 1>>, <<v8, 7>> >>),
                Shifted(Shifted(Shifted(Shifted(Shifted(Shifted(Shifted(Shifted(Sign(v1, 1),
                        v1, 2^1), v2, 2^6), v3, 2^5), v4, 2^5), v5, 2^3), v6, 2^4), v7, 2^1), v8, 2^7))
<1> DEFINE fields == << <<v1, 1>>, <<v2, 6>>, <<v3, 5>>, <<v4, 5>>, <<v5, 3>>, <<v6, 4>>,
              <<v7, 1>>, <<v8, 7>> >>
<1>1. /\ Len(fields) = 8
      /\ fields[1][1] = v1 /\ fields[1][2] = 1 /\ fields[2][1] = v2 /\ fields[2][2] = 6
      /\ fields[3][1] = v3 /\ fields[3][2] = 5 /\ fields[4][1] = v4 /\ fields[4][2] = 5
      /\ fields[5][1] = v5 /\ fields[5][2] = 3 /\ fields[6][1] = v6 /\ fields[6][2] = 4
      /\ fields[7][1] = v7 /\ fields[7][2] = 1 /\ fields[8][1] = v8 /\ fields[8][2] = 7
  BY SMT
<1> HIDE DEF fields
<1>2. PICK f : PackedBy(fields, f) /\ Pack(fields) = f[8]
  <2>1. Len(fields) \in Nat
    BY SMT, <1>1
  <2> QED BY <1>1, <2>1, PackIs, Zenon
<1>3. f[0] = Sign(v1, 1)
  BY <1>1, <1>2, Zenon DEF PackedBy, Sign
<1>4. \A k \in 1..8 : f[k] = Shifted(f[k - 1], fields[k][1], 2^fields[k][2])
  BY <1>1, <1>2, Zenon DEF PackedBy
<1>5. /\ f[1] = Shifted(f[0], fields[1][1], 2^fields[1][2])
      /\ f[2] = Shifted(f[1], fields[2][1], 2^fields[2][2])
      /\ f[3] = Shifted(f[2], fields[3][1], 2^fields[3][2])
      /\ f[4] = Shifted(f[3], fields[4][1], 2^fields[4][2])
      /\ f[5] = Shifted(f[4], fields[5][1], 2^fields[5][2])
      /\ f[6] = Shifted(f[5], fields[6][1], 2^fields[6][2])
      /\ f[7] = Shifted(f[6], fields[7][1], 2^fields[7][2])
      /\ f[8] = Shifted(f[7], fields[8][1], 2^fields[8][2])
  BY SMT, <1>4
<1>6. /\ f[1] = Shifted(f[0], v1, 2^1)
      /\ f[2] = Shifted(f[1], v2, 2^6)
      /\ f[3] = Shifted(f[2], v3, 2^5)
      /\ f[4] = Shifted(f[3], v4, 2^5)
      /\ f[5] = Shifted(f[4], v5, 2^3)
      /\ f[6] = Shifted(f[5], v6, 2^4)
      /\ f[7] = Shifted(f[6], v7, 2^1)
      /\ f[8] = Shifted(f[7], v8, 2^7)
  BY <1>1, <1>5, Zenon
<1> QED BY <1>2, <1>3, <1>6, Zenon DEF fields, Same

\* A first field of one bit is the sign.
LEMMA SignBit ==
    ASSUME NEW v \in 0..1
    PROVE  Shifted(Sign(v, 1), v, 2^1) = -v
<1>1. Bits(v, 0, 0) = v
  <2>1. Bits(v, 0, 0) = (v \div 2^0) % 2^1
    BY SMT DEF Bits
  <2> QED BY SMT, <2>1, Powers
<1>2. Sign(v, 1) = -v
  <2>1. Sign(v, 1) = IF Bits(v, 0, 0) = 1 THEN -1 ELSE 0
    BY SMT DEF Sign
  <2> QED BY SMT, <1>1, <2>1
<1>3. Shifted(-v, v, 2^1) = -v * 2 + (v % 2)
  BY SMT, Powers DEF Shifted
<1> QED BY SMT, <1>2, <1>3

\* Quotient and remainder, and the field of n bits from bit lo up.
Quot(w, p) == w \div p
Rem(w, p) == w % p
Field(w, lo, n) == Rem(Quot(w, 2^lo), 2^n)

\* A field is read back by dividing: what is left is what it was put behind.
LEMMA Unshift ==
    ASSUME NEW a \in Int, NEW m \in Nat \ {0}, NEW r \in Int, 0 <= r, r < m
    PROVE  (a * m + r) \div m = a /\ (a * m + r) % m = r
<1> DEFINE x == a * m + r
<1>1. x \in Int /\ a * m \in Int
  BY SMT
<1> HIDE DEF x
<1>2. PICK q \in Int, s \in Int : q = x \div m /\ s = x % m
  BY SMT, <1>1
<1>3. x = m * q + s /\ 0 <= s /\ s < m
  BY SMT, <1>1, <1>2
<1>4. m * (a - q) = s - r
  <2>1. x = a * m + r
    BY SMT DEF x
  <2> QED BY SMT, <1>3, <2>1
<1>5. a = q
  <2>1. PICK d \in Int : d = a - q
    BY SMT
  <2>2. m * d < m /\ -m < m * d
    BY SMT, <1>3, <1>4, <2>1
  <2>3. d < 1
    BY SMT, <2>2
  <2>4. -1 < d
    BY SMT, <2>2
  <2> QED BY SMT, <2>1, <2>3, <2>4
<1>6. s = r
  BY SMT, <1>4, <1>5
<1> QED BY SMT, <1>2, <1>5, <1>6 DEF x

LEMMA ShiftedBack ==
    ASSUME NEW a \in Int, NEW v \in Int, NEW p \in Nat \ {0}
    PROVE  /\ Shifted(a, v, p) \in Int
           /\ Quot(Shifted(a, v, p), p) = a /\ Rem(Shifted(a, v, p), p) = Rem(v, p)
           /\ Shifted(a, v, p) < 0 <=> a < 0
<1>1. PICK r \in Int : r = v % p /\ 0 <= r /\ r < p
  BY SMT
<1>2. Shifted(a, v, p) = a * p + r
  BY <1>1, Zenon DEF Shifted
<1>3. a * p + r \in Int
  BY SMT
<1>4. a >= 0 => a * p + r >= 0
  <2>1. a >= 0 => a * p >= 0
    BY SMT
  <2> QED BY SMT, <1>1, <2>1
<1>5. a < 0 => a * p + r < 0
  <2>1. a < 0 => (-1 - a) * p >= 0
    BY SMT
  <2>2. (-1 - a) * p = -p - a * p
    BY SMT
  <2> QED BY SMT, <1>1, <2>1, <2>2
<1>6. PICK x \in Int : x = Shifted(a, v, p) /\ x = a * p + r
  BY <1>2, <1>3, Zenon
<1>7. x < 0 <=> a < 0
  BY SMT, <1>4, <1>5, <1>6
<1>8. x \div p = a /\ x % p = r
  <2>1. (a * p + r) \div p = a /\ (a * p + r) % p = r
    BY SMT, <1>1, Unshift
  <2> QED BY SMT, <1>6, <2>1
<1>9. Quot(x, p) = a /\ Rem(x, p) = Rem(v, p)
  BY SMT, <1>1, <1>8 DEF Quot, Rem
<1> QED BY <1>6, <1>7, <1>9, Zenon

\* Two divisions are one.
LEMMA QuotQuot ==
    ASSUME NEW w \in Int, NEW p \in Nat \ {0}, NEW q \in Nat \ {0}
    PROVE  Quot(Quot(w, p), q) = Quot(w, p * q)
<1>1. PICK x \in Int, r \in Int : x = w \div p /\ w = x * p + r /\ 0 <= r /\ r < p
  <2>1. PICK x \in Int, r \in Int : x = w \div p /\ r = w % p
    BY SMT
  <2> QED BY SMT, <2>1
<1>2. PICK y \in Int, s \in Int : y = x \div q /\ x = y * q + s /\ 0 <= s /\ s < q
  <2>1. PICK y \in Int, s \in Int : y = x \div q /\ s = x % q
    BY SMT
  <2> QED BY SMT, <2>1
<1>3. PICK m \in Nat \ {0} : m = p * q
  BY SMT
<1>4. PICK t \in Int : t = s * p + r /\ 0 <= t /\ t < m
  <2>1. (q - 1 - s) * p >= 0 /\ s * p >= 0
    BY SMT, <1>2
  <2>2. (q - 1 - s) * p = m - p - s * p
    BY SMT, <1>3
  <2> QED BY SMT, <1>1, <2>1, <2>2
<1>5. w = y * m + t
  <2>1. w = (y * q + s) * p + r
    <3>1. PICK z \in Int : z = y * q + s
      BY SMT
    <3>2. x = z
      BY SMT, <1>2, <3>1
    <3>3. w = z * p + r
      BY SMT, <1>1, <3>2
    <3> QED BY SMT, <3>1, <3>3
  <2>2. (y * q + s) * p + r = y * (p * q) + (s * p + r)
    BY SMT
  <2> QED BY SMT, <1>3, <1>4, <2>1, <2>2
<1>6. w \div m = y
  BY SMT, <1>4, <1>5, Unshift
<1> QED BY <1>1, <1>2, <1>3, <1>6, SMT DEF Quot

LEMMA Doubles ==
    ASSUME NEW n \in Int, 0 <= n, n <= 29
    PROVE  2^(n + 1) = 2 * 2^n
<1>1. n \in 0..29
  BY SMT
<1> QED BY <1>1, PowersOfTwo

LEMMA TwoTo ==
    ASSUME NEW top \in Nat, top <= 30
    PROVE  \A n \in 0..top : 2^n \in Nat \ {0}
<1> DEFINE S == {n \in 0..top : 2^n \in Nat \ {0}}
<1>1. 0 \in S
  BY SMT, Powers
<1>2. ASSUME NEW n \in 0..(top - 1), n \in S PROVE n + 1 \in S
  <2>1. 2^(n + 1) = 2 * 2^n
    BY Doubles
  <2> QED BY SMT, <1>2, <2>1
<1>3. 0..top \subseteq S
  <2> HIDE DEF S
  <2> QED BY <1>1, <1>2, NatByInduction
<1> QED BY <1>3

LEMMA PowerSum ==
    ASSUME NEW m \in Nat, NEW n \in Nat, m + n <= 30
    PROVE  2^m * 2^n = 2^(m + n) /\ 2^m \in Nat \ {0} /\ 2^n \in Nat \ {0}
<1> DEFINE S == {k \in 0..n : 2^m * 2^k = 2^(m + k)}
<1>1. /\ 2^m \in Nat \ {0}
      /\ \A k \in 0..n : 2^k \in Nat \ {0}
  <2>1. m <= 30 /\ n <= 30 /\ m \in 0..m
    BY SMT
  <2> QED BY <2>1, TwoTo
<1>2. 0 \in S
  <2>1. 2^0 = 1 /\ m + 0 = m
    BY SMT, Powers
  <2>2. 2^m * 1 = 2^m
    BY SMT, <1>1
  <2> QED BY SMT, <2>1, <2>2
<1>3. ASSUME NEW k \in 0..(n - 1), k \in S PROVE k + 1 \in S
  <2>1. 2^(k + 1) = 2 * 2^k
    <3>1. k \in Int /\ 0 <= k /\ k <= 29
      BY SMT
    <3> QED BY <3>1, Doubles
  <2>2. PICK j \in Int : j = m + k /\ 0 <= j /\ j <= 29 /\ m + (k + 1) = j + 1
    BY SMT
  <2>3. 2^(j + 1) = 2 * 2^j
    BY <2>2, Doubles
  <2>4. 2^m * 2^k = 2^j /\ 2^k \in Nat
    BY <1>1, <1>3, <2>2
  <2>5. 2^m * (2 * 2^k) = 2 * (2^m * 2^k)
    BY SMT, <1>1, <2>4
  <2>6. 2^m * 2^(k + 1) = 2^(m + (k + 1))
    BY SMT, <2>1, <2>2, <2>3, <2>4, <2>5
  <2> QED BY SMT, <2>6
<1>4. 0..n \subseteq S
  <2> HIDE DEF S
  <2> QED BY <1>2, <1>3, NatByInduction
<1>5. n \in 0..n
  BY SMT
<1>6. 2^m * 2^n = 2^(m + n)
  BY <1>4, <1>5
<1> QED BY <1>1, <1>5, <1>6

\* Quotient and remainder; the sign is the quotient's.
LEMMA QuotIs ==
    ASSUME NEW w \in Int, NEW p \in Nat \ {0}
    PROVE  /\ Quot(w, p) \in Int /\ Rem(w, p) \in Int /\ 0 <= Rem(w, p) /\ Rem(w, p) < p
           /\ Quot(w, p) < 0 <=> w < 0
           /\ 0 <= w /\ w < p => Rem(w, p) = w
<1>1. PICK q \in Int, r \in Int : /\ q = w \div p /\ r = w % p
                                  /\ w = q * p + r /\ 0 <= r /\ r < p
  <2>1. PICK q \in Int, r \in Int : q = w \div p /\ r = w % p
    BY SMT
  <2> QED BY SMT, <2>1
<1>2. q >= 0 => w >= 0
  <2>1. q >= 0 => q * p >= 0
    BY SMT
  <2> QED BY SMT, <1>1, <2>1
<1>3. q < 0 => w < 0
  <2>1. q < 0 => (-1 - q) * p >= 0
    BY SMT
  <2>2. (-1 - q) * p = -p - q * p
    BY SMT
  <2> QED BY SMT, <1>1, <2>1, <2>2
<1>4. 0 <= w /\ w < p => w % p = w
  BY SMT
<1>5. Quot(w, p) = q /\ Rem(w, p) = r
  BY <1>1, Zenon DEF Quot, Rem
<1> QED BY SMT, <1>1, <1>2, <1>3, <1>4, <1>5

\* Exponents whose powers are known; and positions in a word.
Width == {n \in Nat : n <= 30}
Adds(lo, n, up) == lo \in Width /\ n \in Width /\ up \in Width /\ up = lo + n

LEMMA ShiftedType ==
    ASSUME NEW a \in Int, NEW v \in Int, NEW n \in Width
    PROVE  Shifted(a, v, 2^n) \in Int
<1>1. n \in 0..n /\ n \in Nat /\ n <= 30
  BY SMT DEF Width
<1>2. 2^n \in Nat \ {0}
  BY <1>1, TwoTo
<1> QED BY <1>2, ShiftedBack

\* From bit lo up, w is a with the field v of n bits behind it.
Ends(w, lo, a, v, n) ==
    /\ w \in Int /\ a \in Int /\ v \in Int /\ lo \in Width /\ n \in Width
    /\ Quot(w, 2^lo) = Shifted(a, v, 2^n)

\* Both are negative, or none is.
SameSign(x, y) == x < 0 <=> y < 0

\* The field at lo, when w from lo up ends in the field v; and what is above it.
LEMMA FieldAt ==
    ASSUME NEW w, NEW a, NEW v, NEW lo, NEW n, Ends(w, lo, a, v, n)
    PROVE  Same(Field(w, lo, n), Rem(v, 2^n)) /\ SameSign(w, a)
<1>1. lo \in 0..lo /\ n \in 0..n /\ lo \in Nat /\ n \in Nat /\ lo <= 30 /\ n <= 30
      /\ w \in Int /\ a \in Int /\ v \in Int
  BY SMT DEF Width, Ends
<1>2. 2^lo \in Nat \ {0} /\ 2^n \in Nat \ {0}
  BY <1>1, TwoTo
<1>3. Rem(Shifted(a, v, 2^n), 2^n) = Rem(v, 2^n) /\ (Shifted(a, v, 2^n) < 0 <=> a < 0)
  BY <1>1, <1>2, ShiftedBack
<1>4. Quot(w, 2^lo) < 0 <=> w < 0
  BY <1>1, <1>2, QuotIs
<1> QED BY <1>3, <1>4, Zenon DEF Field, Ends, Same, SameSign

LEMMA Above ==
    ASSUME NEW w, NEW a, NEW v, NEW lo, NEW n, NEW up, Adds(lo, n, up), Ends(w, lo, a, v, n)
    PROVE  Same(Quot(w, 2^up), a)
<1>1. 2^lo * 2^n = 2^up /\ 2^lo \in Nat \ {0} /\ 2^n \in Nat \ {0}
  <2>1. lo \in Nat /\ n \in Nat /\ lo + n <= 30 /\ up = lo + n
    BY SMT DEF Adds, Width
  <2> QED BY <2>1, PowerSum
<1> w \in Int /\ a \in Int /\ v \in Int
  BY DEF Ends
<1>2. Quot(Quot(w, 2^lo), 2^n) = Quot(w, 2^lo * 2^n)
  BY <1>1, QuotQuot
<1>3. Quot(Shifted(a, v, 2^n), 2^n) = a
  BY <1>1, ShiftedBack
<1> QED BY <1>1, <1>2, <1>3, Zenon DEF Ends, Same

LEMMA BitsAre ==
    ASSUME NEW w \in Int
    PROVE  /\ \A hi, lo, n \in Nat : lo # 31 /\ n = hi - lo + 1 => Bits(w, hi, lo) = Field(w, lo, n)
           /\ Bits(w, 31, 31) = IF w < 0 THEN 1 ELSE 0
           /\ Quot(w, 2^0) = w
<1>1. \A hi, lo, n \in Nat : lo # 31 /\ n = hi - lo + 1 => Bits(w, hi, lo) = Field(w, lo, n)
  BY Zenon DEF Bits, Field, Quot, Rem
<1>2. Bits(w, 31, 31) = IF w < 0 THEN 1 ELSE 0
  BY SMT DEF Bits
<1>3. Quot(w, 2^0) = w
  BY SMT, Powers DEF Quot
<1> QED BY <1>1, <1>2, <1>3, Zenon


\* The widths of the fields and where they begin.
LEMMA WidthsAre ==
    /\ 0 \in Width /\ 1 \in Width /\ 2 \in Width /\ 3 \in Width /\ 4 \in Width /\ 5 \in Width
    /\ 6 \in Width /\ 7 \in Width /\ 8 \in Width /\ 10 \in Width /\ 12 \in Width /\ 15 \in Width
    /\ 16 \in Width /\ 19 \in Width /\ 20 \in Width /\ 21 \in Width /\ 23 \in Width
    /\ 24 \in Width /\ 25 \in Width /\ 26 \in Width /\ 27 \in Width
BY SMT DEF Width

LEMMA SumsAre ==
    /\ Adds(0, 7, 7) /\ Adds(7, 1, 8) /\ Adds(8, 4, 12) /\ Adds(12, 3, 15)
    /\ Adds(15, 5, 20) /\ Adds(20, 5, 25)
    /\ Adds(7, 5, 12) /\ Adds(12, 8, 20) /\ Adds(20, 1, 21)
    /\ Adds(0, 26, 26) /\ Adds(0, 4, 4) /\ Adds(4, 1, 5) /\ Adds(5, 19, 24) /\ Adds(0, 5, 5)
    /\ Adds(0, 8, 8) /\ Adds(8, 8, 16) /\ Adds(16, 8, 24)
    /\ Adds(23, 1, 24) /\ Adds(24, 1, 25) /\ Adds(24, 2, 26) /\ Adds(24, 3, 27)
BY SMT DEF Adds, Width
\* A RISC-V branch: the parts of the displacement are where the decoder looks.
PacksBranchWord(w, v1, v2, v3, v4, v5, v6, v7, v8) ==
    w = Pack(<< <<v1, 1>>, <<v2, 6>>, <<v3, 5>>, <<v4, 5>>, <<v5, 3>>, <<v6, 4>>, <<v7, 1>>,
                  <<v8, 7>> >>)
ReadsBranchWord(w, v1, v2, v6, v7, v8) ==
    /\ w \in Int /\ Bits(w, 31, 31) = v1
    /\ Bits(w, 30, 25) = Rem(v2, 2^6)
    /\ Bits(w, 11, 8) = Rem(v6, 2^4)
    /\ Bits(w, 7, 7) = Rem(v7, 2^1)
    /\ Bits(w, 6, 0) = Rem(v8, 2^7)

LEMMA BranchWord ==
    ASSUME NEW v1 \in 0..1, NEW v2 \in Int, NEW v3 \in Int, NEW v4 \in Int, NEW v5 \in Int,
           NEW v6 \in Int, NEW v7 \in Int, NEW v8 \in Int, NEW w,
           PacksBranchWord(w, v1, v2, v3, v4, v5, v6, v7, v8)
    PROVE  ReadsBranchWord(w, v1, v2, v6, v7, v8)
<1>1. PICK f1 \in Int : f1 = Shifted(Sign(v1, 1), v1, 2^1) /\ f1 = -v1
  BY SignBit
<1>2. PICK f2 \in Int : f2 = Shifted(f1, v2, 2^6)
  BY ShiftedType, WidthsAre, Zenon
<1>3. PICK f3 \in Int : f3 = Shifted(f2, v3, 2^5)
  BY ShiftedType, WidthsAre, Zenon
<1>4. PICK f4 \in Int : f4 = Shifted(f3, v4, 2^5)
  BY ShiftedType, WidthsAre, Zenon
<1>5. PICK f5 \in Int : f5 = Shifted(f4, v5, 2^3)
  BY ShiftedType, WidthsAre, Zenon
<1>6. PICK f6 \in Int : f6 = Shifted(f5, v6, 2^4)
  BY ShiftedType, WidthsAre, Zenon
<1>7. PICK f7 \in Int : f7 = Shifted(f6, v7, 2^1)
  BY ShiftedType, WidthsAre, Zenon
<1>8. w \in Int /\ w = Shifted(f7, v8, 2^7)
  <2>1. Same(Pack(<< <<v1, 1>>, <<v2, 6>>, <<v3, 5>>, <<v4, 5>>, <<v5, 3>>, <<v6, 4>>, <<v7, 1>>,
                <<v8, 7>> >>),
             Shifted(Shifted(Shifted(Shifted(Shifted(Shifted(Shifted(Shifted(Sign(v1, 1), v1, 2^1),
                     v2, 2^6), v3, 2^5), v4, 2^5), v5, 2^3), v6, 2^4), v7, 2^1), v8, 2^7))
    BY Pack8, Zenon
  <2>2. w = Shifted(f7, v8, 2^7)
    BY <2>1, <1>1, <1>2, <1>3, <1>4, <1>5, <1>6, <1>7, Zenon DEF Same, PacksBranchWord
  <2> QED BY <2>2, ShiftedType, WidthsAre, Zenon
<1>9. Bits(w, 6, 0) = Rem(v8, 2^7) /\ Quot(w, 2^7) = f7
  <2>1. Ends(w, 0, f7, v8, 7)
    BY <1>8, BitsAre, WidthsAre, Zenon DEF Ends
  <2>2. Same(Field(w, 0, 7), Rem(v8, 2^7)) /\ SameSign(w, f7)
    BY <2>1, FieldAt, Zenon
  <2>3. Bits(w, 6, 0) = Field(w, 0, 7)
    BY <1>8, BitsAre
  <2>4. Same(Quot(w, 2^7), f7)
    BY <2>1, Above, SumsAre, Zenon
  <2> QED BY <2>2, <2>3, <2>4, Zenon DEF Same
<1>10. Bits(w, 7, 7) = Rem(v7, 2^1) /\ Quot(w, 2^8) = f6
  <2>1. Ends(w, 7, f6, v7, 1)
    BY <1>7, <1>8, <1>9, WidthsAre, Zenon DEF Ends
  <2>2. Same(Field(w, 7, 1), Rem(v7, 2^1)) /\ SameSign(w, f6)
    BY <2>1, FieldAt, Zenon
  <2>3. Bits(w, 7, 7) = Field(w, 7, 1)
    BY <1>8, BitsAre
  <2>4. Same(Quot(w, 2^8), f6)
    BY <2>1, Above, SumsAre, Zenon
  <2> QED BY <2>2, <2>3, <2>4, Zenon DEF Same
<1>11. Bits(w, 11, 8) = Rem(v6, 2^4) /\ Quot(w, 2^12) = f5
  <2>1. Ends(w, 8, f5, v6, 4)
    BY <1>6, <1>8, <1>10, WidthsAre, Zenon DEF Ends
  <2>2. Same(Field(w, 8, 4), Rem(v6, 2^4)) /\ SameSign(w, f5)
    BY <2>1, FieldAt, Zenon
  <2>3. Bits(w, 11, 8) = Field(w, 8, 4)
    BY <1>8, BitsAre
  <2>4. Same(Quot(w, 2^12), f5)
    BY <2>1, Above, SumsAre, Zenon
  <2> QED BY <2>2, <2>3, <2>4, Zenon DEF Same
<1>12. Quot(w, 2^15) = f4
  <2>1. Ends(w, 12, f4, v5, 3)
    BY <1>5, <1>8, <1>11, WidthsAre, Zenon DEF Ends
  <2>2. Same(Quot(w, 2^15), f4)
    BY <2>1, Above, SumsAre, Zenon
  <2> QED BY <2>2, Zenon DEF Same
<1>13. Quot(w, 2^20) = f3
  <2>1. Ends(w, 15, f3, v4, 5)
    BY <1>4, <1>8, <1>12, WidthsAre, Zenon DEF Ends
  <2>2. Same(Quot(w, 2^20), f3)
    BY <2>1, Above, SumsAre, Zenon
  <2> QED BY <2>2, Zenon DEF Same
<1>14. Quot(w, 2^25) = f2
  <2>1. Ends(w, 20, f2, v3, 5)
    BY <1>3, <1>8, <1>13, WidthsAre, Zenon DEF Ends
  <2>2. Same(Quot(w, 2^25), f2)
    BY <2>1, Above, SumsAre, Zenon
  <2> QED BY <2>2, Zenon DEF Same
<1>15. Bits(w, 30, 25) = Rem(v2, 2^6) /\ SameSign(w, f1)
  <2>1. Ends(w, 25, f1, v2, 6)
    BY <1>2, <1>8, <1>14, WidthsAre, Zenon DEF Ends
  <2>2. Same(Field(w, 25, 6), Rem(v2, 2^6)) /\ SameSign(w, f1)
    BY <2>1, FieldAt, Zenon
  <2>3. Bits(w, 30, 25) = Field(w, 25, 6)
    BY <1>8, BitsAre
  <2> QED BY <2>2, <2>3, Zenon DEF Same
<1>16. Bits(w, 31, 31) = v1
  <2>1. Bits(w, 31, 31) = IF w < 0 THEN 1 ELSE 0
    BY <1>8, BitsAre
  <2> QED BY SMT, <1>1, <1>15, <2>1 DEF SameSign
<1> QED BY <1>8, <1>9, <1>10, <1>11, <1>15, <1>16, Zenon DEF ReadsBranchWord

\* And a JAL.
PacksJalWord(w, v1, v2, v3, v4, v5, v6) ==
    w = Pack(<< <<v1, 1>>, <<v2, 10>>, <<v3, 1>>, <<v4, 8>>, <<v5, 5>>, <<v6, 7>> >>)
ReadsJalWord(w, v1, v2, v3, v4, v6) ==
    /\ w \in Int /\ Bits(w, 31, 31) = v1
    /\ Bits(w, 30, 21) = Rem(v2, 2^10)
    /\ Bits(w, 20, 20) = Rem(v3, 2^1)
    /\ Bits(w, 19, 12) = Rem(v4, 2^8)
    /\ Bits(w, 6, 0) = Rem(v6, 2^7)

LEMMA JalWord ==
    ASSUME NEW v1 \in 0..1, NEW v2 \in Int, NEW v3 \in Int, NEW v4 \in Int, NEW v5 \in Int,
           NEW v6 \in Int, NEW w,
           PacksJalWord(w, v1, v2, v3, v4, v5, v6)
    PROVE  ReadsJalWord(w, v1, v2, v3, v4, v6)
<1>1. PICK f1 \in Int : f1 = Shifted(Sign(v1, 1), v1, 2^1) /\ f1 = -v1
  BY SignBit
<1>2. PICK f2 \in Int : f2 = Shifted(f1, v2, 2^10)
  BY ShiftedType, WidthsAre, Zenon
<1>3. PICK f3 \in Int : f3 = Shifted(f2, v3, 2^1)
  BY ShiftedType, WidthsAre, Zenon
<1>4. PICK f4 \in Int : f4 = Shifted(f3, v4, 2^8)
  BY ShiftedType, WidthsAre, Zenon
<1>5. PICK f5 \in Int : f5 = Shifted(f4, v5, 2^5)
  BY ShiftedType, WidthsAre, Zenon
<1>6. w \in Int /\ w = Shifted(f5, v6, 2^7)
  <2>1. Same(Pack(<< <<v1, 1>>, <<v2, 10>>, <<v3, 1>>, <<v4, 8>>, <<v5, 5>>, <<v6, 7>> >>),
             Shifted(Shifted(Shifted(Shifted(Shifted(Shifted(Sign(v1, 1), v1, 2^1), v2, 2^10),
                     v3, 2^1), v4, 2^8), v5, 2^5), v6, 2^7))
    BY Pack6, Zenon
  <2>2. w = Shifted(f5, v6, 2^7)
    BY <2>1, <1>1, <1>2, <1>3, <1>4, <1>5, Zenon DEF Same, PacksJalWord
  <2> QED BY <2>2, ShiftedType, WidthsAre, Zenon
<1>7. Bits(w, 6, 0) = Rem(v6, 2^7) /\ Quot(w, 2^7) = f5
  <2>1. Ends(w, 0, f5, v6, 7)
    BY <1>6, BitsAre, WidthsAre, Zenon DEF Ends
  <2>2. Same(Field(w, 0, 7), Rem(v6, 2^7)) /\ SameSign(w, f5)
    BY <2>1, FieldAt, Zenon
  <2>3. Bits(w, 6, 0) = Field(w, 0, 7)
    BY <1>6, BitsAre
  <2>4. Same(Quot(w, 2^7), f5)
    BY <2>1, Above, SumsAre, Zenon
  <2> QED BY <2>2, <2>3, <2>4, Zenon DEF Same
<1>8. Quot(w, 2^12) = f4
  <2>1. Ends(w, 7, f4, v5, 5)
    BY <1>5, <1>6, <1>7, WidthsAre, Zenon DEF Ends
  <2>2. Same(Quot(w, 2^12), f4)
    BY <2>1, Above, SumsAre, Zenon
  <2> QED BY <2>2, Zenon DEF Same
<1>9. Bits(w, 19, 12) = Rem(v4, 2^8) /\ Quot(w, 2^20) = f3
  <2>1. Ends(w, 12, f3, v4, 8)
    BY <1>4, <1>6, <1>8, WidthsAre, Zenon DEF Ends
  <2>2. Same(Field(w, 12, 8), Rem(v4, 2^8)) /\ SameSign(w, f3)
    BY <2>1, FieldAt, Zenon
  <2>3. Bits(w, 19, 12) = Field(w, 12, 8)
    BY <1>6, BitsAre
  <2>4. Same(Quot(w, 2^20), f3)
    BY <2>1, Above, SumsAre, Zenon
  <2> QED BY <2>2, <2>3, <2>4, Zenon DEF Same
<1>10. Bits(w, 20, 20) = Rem(v3, 2^1) /\ Quot(w, 2^21) = f2
  <2>1. Ends(w, 20, f2, v3, 1)
    BY <1>3, <1>6, <1>9, WidthsAre, Zenon DEF Ends
  <2>2. Same(Field(w, 20, 1), Rem(v3, 2^1)) /\ SameSign(w, f2)
    BY <2>1, FieldAt, Zenon
  <2>3. Bits(w, 20, 20) = Field(w, 20, 1)
    BY <1>6, BitsAre
  <2>4. Same(Quot(w, 2^21), f2)
    BY <2>1, Above, SumsAre, Zenon
  <2> QED BY <2>2, <2>3, <2>4, Zenon DEF Same
<1>11. Bits(w, 30, 21) = Rem(v2, 2^10) /\ SameSign(w, f1)
  <2>1. Ends(w, 21, f1, v2, 10)
    BY <1>2, <1>6, <1>10, WidthsAre, Zenon DEF Ends
  <2>2. Same(Field(w, 21, 10), Rem(v2, 2^10)) /\ SameSign(w, f1)
    BY <2>1, FieldAt, Zenon
  <2>3. Bits(w, 30, 21) = Field(w, 21, 10)
    BY <1>6, BitsAre
  <2> QED BY <2>2, <2>3, Zenon DEF Same
<1>12. Bits(w, 31, 31) = v1
  <2>1. Bits(w, 31, 31) = IF w < 0 THEN 1 ELSE 0
    BY <1>6, BitsAre
  <2> QED BY SMT, <1>1, <1>11, <2>1 DEF SameSign
<1> QED BY <1>6, <1>7, <1>9, <1>10, <1>11, <1>12, Zenon DEF ReadsJalWord


\* The instances pack and take apart as Encoding does.
LEMMA PacksAlike ==
    /\ \A fields : RV!Pack(fields) = Pack(fields) /\ ARM!Pack(fields) = Pack(fields)
    /\ \A w, hi, lo : RV!Bits(w, hi, lo) = Bits(w, hi, lo) /\ ARM!Bits(w, hi, lo) = Bits(w, hi, lo)
    /\ \A v, n : RV!SignExtend(v, n) = SignExtend(v, n) /\ ARM!SignExtend(v, n) = SignExtend(v, n)
    /\ \A v, n : RV!FitsSigned(v, n) = FitsSigned(v, n)
<1>1. \A w, hi, lo : RV!Bits(w, hi, lo) = Bits(w, hi, lo) /\ ARM!Bits(w, hi, lo) = Bits(w, hi, lo)
  BY Zenon DEF RV!Bits, ARM!Bits, Bits
<1>2. \A fields : RV!Pack(fields) = Pack(fields)
  BY <1>1, Zenon DEF RV!Pack, Pack, RV!Bits, Bits
<1>3. \A fields : ARM!Pack(fields) = Pack(fields)
  BY <1>1, Zenon DEF ARM!Pack, Pack, ARM!Bits, Bits
<1>4. \A v, n : RV!SignExtend(v, n) = SignExtend(v, n) /\ ARM!SignExtend(v, n) = SignExtend(v, n)
  BY Zenon DEF RV!SignExtend, ARM!SignExtend, SignExtend
<1>5. \A v, n : RV!FitsSigned(v, n) = FitsSigned(v, n)
  BY Zenon DEF RV!FitsSigned, FitsSigned
<1> QED BY <1>1, <1>2, <1>3, <1>4, <1>5

\* A displacement of 13 bits, in the order in which a RISC-V branch has them.
BranchParts(offset, v1, v2, v6, v7) ==
    /\ offset \in Int /\ -4096 <= offset /\ offset < 4096 /\ offset % 2 = 0
    /\ v1 = (offset \div 4096) % 2 /\ v2 = (offset \div 32) % 64
    /\ v6 = (offset \div 2) % 16 /\ v7 = (offset \div 2048) % 2
BranchJoins(offset, v1, v2, v6, v7) ==
    /\ v1 \in 0..1 /\ 0 <= v2 /\ v2 < 64 /\ 0 <= v6 /\ v6 < 16 /\ v7 \in 0..1
    /\ LET u == 2 * v6 + 32 * v2 + 2048 * v7 + 4096 * v1
       IN (IF u >= 4096 THEN u - 8192 ELSE u) = offset

LEMMA BranchOffset ==
    ASSUME NEW offset, NEW v1, NEW v2, NEW v6, NEW v7, BranchParts(offset, v1, v2, v6, v7)
    PROVE  BranchJoins(offset, v1, v2, v6, v7)
<1>1. PICK a \in Int : a = offset \div 2 /\ offset = 2 * a
  BY SMT DEF BranchParts
<1>2. PICK c \in Int : c = offset \div 32 /\ a = 16 * c + v6 /\ v6 \in Int /\ 0 <= v6 /\ v6 < 16
  BY SMT, <1>1 DEF BranchParts
<1>3. PICK d \in Int : d = offset \div 2048 /\ c = 64 * d + v2 /\ v2 \in Int /\ 0 <= v2 /\ v2 < 64
  BY SMT, <1>1, <1>2 DEF BranchParts
<1>4. PICK e \in Int : e = offset \div 4096 /\ d = 2 * e + v7 /\ v7 \in 0..1
  BY SMT, <1>1, <1>2, <1>3 DEF BranchParts
<1>5. e \in {-1, 0} /\ v1 = -e
  BY SMT, <1>4 DEF BranchParts
<1> QED BY SMT, <1>1, <1>2, <1>3, <1>4, <1>5 DEF BranchJoins

\* And one of 21 bits, as JAL has them.
JalParts(offset, v1, v2, v3, v4) ==
    /\ offset \in Int /\ -1048576 <= offset /\ offset < 1048576 /\ offset % 2 = 0
    /\ v1 = (offset \div 1048576) % 2 /\ v2 = (offset \div 2) % 1024
    /\ v3 = (offset \div 2048) % 2 /\ v4 = (offset \div 4096) % 256
JalJoins(offset, v1, v2, v3, v4) ==
    /\ v1 \in 0..1 /\ 0 <= v2 /\ v2 < 1024 /\ v3 \in 0..1 /\ 0 <= v4 /\ v4 < 256
    /\ LET u == 2 * v2 + 2048 * v3 + 4096 * v4 + 1048576 * v1
       IN (IF u >= 1048576 THEN u - 2097152 ELSE u) = offset

LEMMA JalOffset ==
    ASSUME NEW offset, NEW v1, NEW v2, NEW v3, NEW v4, JalParts(offset, v1, v2, v3, v4)
    PROVE  JalJoins(offset, v1, v2, v3, v4)
<1>1. PICK a \in Int : a = offset \div 2 /\ offset = 2 * a
  BY SMT DEF JalParts
<1>2. PICK c \in Int : c = offset \div 2048 /\ a = 1024 * c + v2 /\ v2 \in Int /\ 0 <= v2 /\ v2 < 1024
  BY SMT, <1>1 DEF JalParts
<1>3. PICK d \in Int : d = offset \div 4096 /\ c = 2 * d + v3 /\ v3 \in 0..1
  BY SMT, <1>1, <1>2 DEF JalParts
<1>4. PICK e \in Int : e = offset \div 1048576 /\ d = 256 * e + v4 /\ v4 \in Int /\ 0 <= v4 /\ v4 < 256
  BY SMT, <1>1, <1>2, <1>3 DEF JalParts
<1>5. e \in {-1, 0} /\ v1 = -e
  BY SMT, <1>4 DEF JalParts
<1> QED BY SMT, <1>1, <1>2, <1>3, <1>4, <1>5 DEF JalJoins

\* The decoder finds the displacement that the encoder wrote.
LEMMA RISCVBranchIs ==
    ASSUME NEW i, i.mn \in DOMAIN RV!BranchFunct3, i.rs1 \in Int, i.rs2 \in Int,
           NEW offset \in Int, NEW w, RV!EncodeBranch(i, offset) = <<w>>
    PROVE  RV!RISCVDecode(w).branch = TRUE /\ RV!RISCVDecode(w).imm = offset
<1> DEFINE word == RV!Pack(<< <<RV!Bits(offset, 12, 12), 1>>, <<RV!Bits(offset, 10, 5), 6>>,
                              <<i.rs2, 5>>, <<i.rs1, 5>>, <<RV!BranchFunct3[i.mn], 3>>,
                              <<RV!Bits(offset, 4, 1), 4>>, <<RV!Bits(offset, 11, 11), 1>>,
                              <<RV!OpWord.BRANCH, 7>> >>)
<1>1. RV!FitsSigned(offset, 13) /\ offset % 2 = 0 /\ w = word
  <2>1. RV!EncodeBranch(i, offset)
        = IF RV!FitsSigned(offset, 13) /\ offset % 2 = 0 THEN <<word>> ELSE <<>>
    BY DEF RV!EncodeBranch, RV!Checked, RV!Rejected
  <2>2. \A x : <<>> # <<x>> /\ (<<x>> = <<w>> => x = w)
    OBVIOUS
  <2> HIDE DEF word
  <2>3. CASE RV!FitsSigned(offset, 13) /\ offset % 2 = 0
    BY <2>1, <2>2, <2>3
  <2>4. CASE ~(RV!FitsSigned(offset, 13) /\ offset % 2 = 0)
    BY <2>1, <2>2, <2>4
  <2> QED BY <2>3, <2>4
<1>2. -4096 <= offset /\ offset < 4096
  <2>1. -(2^(13 - 1)) <= offset /\ offset < 2^(13 - 1)
    BY <1>1, PacksAlike, Zenon DEF FitsSigned
  <2> QED BY SMT, <2>1, Powers
<1>3. PICK v1 \in Int, v2 \in Int, v6 \in Int, v7 \in Int :
         /\ v1 = (offset \div 4096) % 2 /\ v2 = (offset \div 32) % 64
         /\ v6 = (offset \div 2) % 16 /\ v7 = (offset \div 2048) % 2
  BY SMT
<1>4. /\ v1 = Bits(offset, 12, 12) /\ v2 = Bits(offset, 10, 5)
      /\ v6 = Bits(offset, 4, 1) /\ v7 = Bits(offset, 11, 11)
  <2>1. /\ Bits(offset, 12, 12) = (offset \div 2^12) % 2^(12 - 12 + 1)
        /\ Bits(offset, 10, 5) = (offset \div 2^5) % 2^(10 - 5 + 1)
        /\ Bits(offset, 4, 1) = (offset \div 2^1) % 2^(4 - 1 + 1)
        /\ Bits(offset, 11, 11) = (offset \div 2^11) % 2^(11 - 11 + 1)
    BY SMT DEF Bits
  <2> QED BY SMT, <1>3, <2>1, Powers
<1>5. /\ v1 \in 0..1 /\ 0 <= v2 /\ v2 < 64 /\ 0 <= v6 /\ v6 < 16 /\ v7 \in 0..1
      /\ LET u == 2 * v6 + 32 * v2 + 2048 * v7 + 4096 * v1
         IN (IF u >= 4096 THEN u - 8192 ELSE u) = offset
  <2>1. BranchParts(offset, v1, v2, v6, v7)
    BY SMT, <1>1, <1>2, <1>3 DEF BranchParts
  <2>2. BranchJoins(offset, v1, v2, v6, v7)
    BY <2>1, BranchOffset, Zenon
  <2> QED BY SMT, <2>2 DEF BranchJoins
<1>6. PICK r1 \in Int, r2 \in Int : r1 = i.rs1 /\ r2 = i.rs2
  OBVIOUS
<1>7. PICK f3 \in Int, op \in Int : f3 = RV!BranchFunct3[i.mn] /\ op = RV!OpWord.BRANCH /\ op = 99
  BY SMT DEF RV!BranchFunct3, RV!OpWord
<1>8. PacksBranchWord(w, v1, v2, r2, r1, f3, v6, v7, op)
  BY <1>1, <1>4, <1>6, <1>7, PacksAlike, Zenon DEF PacksBranchWord
<1>14. v1 \in 0..1
  BY <1>5, SMT
<1>9. /\ w \in Int /\ Bits(w, 31, 31) = v1 /\ Bits(w, 30, 25) = Rem(v2, 2^6)
      /\ Bits(w, 11, 8) = Rem(v6, 2^4) /\ Bits(w, 7, 7) = Rem(v7, 2^1)
      /\ Bits(w, 6, 0) = Rem(op, 2^7)
  <2>1. ReadsBranchWord(w, v1, v2, v6, v7, op)
    BY <1>14, <1>8, BranchWord, Zenon
  <2> QED BY <2>1 DEF ReadsBranchWord
<1>10. Rem(v2, 2^6) = v2 /\ Rem(v6, 2^4) = v6 /\ Rem(v7, 2^1) = v7 /\ Rem(op, 2^7) = op
  BY SMT, <1>5, <1>7, Powers DEF Rem
<1>11. RV!ImmB(w) = offset
  <2>1. RV!ImmB(w) = SignExtend(2 * v6 + 32 * v2 + 2048 * v7 + 4096 * v1, 13)
    BY <1>9, <1>10, PacksAlike, SMT DEF RV!ImmB
  <2>2. PICK u \in Int : u = 2 * v6 + 32 * v2 + 2048 * v7 + 4096 * v1
    BY SMT
  <2>3. SignExtend(u, 13) = IF u >= 4096 THEN u - 8192 ELSE u
    BY Powers, SMT DEF SignExtend
  <2> QED BY <1>5, <2>1, <2>2, <2>3, SMT
<1>12. RV!Bits(w, 6, 0) = 99
  BY <1>7, <1>9, <1>10, PacksAlike
<1>13. RV!RISCVDecode(w).branch = TRUE /\ RV!RISCVDecode(w).imm = RV!ImmB(w)
  BY <1>12, SMT DEF RV!RISCVDecode, RV!NoSignals, RV!OpWord
<1> QED BY <1>11, <1>13

LEMMA RISCVJalIs ==
    ASSUME NEW i, i.rd \in Int, NEW offset \in Int, NEW w, RV!EncodeJal(i, offset) = <<w>>
    PROVE  RV!RISCVDecode(w).jal = TRUE /\ RV!RISCVDecode(w).imm = offset
<1> DEFINE word == RV!Pack(<< <<RV!Bits(offset, 20, 20), 1>>, <<RV!Bits(offset, 10, 1), 10>>,
                              <<RV!Bits(offset, 11, 11), 1>>, <<RV!Bits(offset, 19, 12), 8>>,
                              <<i.rd, 5>>, <<RV!OpWord.JAL, 7>> >>)
<1>1. RV!FitsSigned(offset, 21) /\ offset % 2 = 0 /\ w = word
  <2>1. RV!EncodeJal(i, offset)
        = IF RV!FitsSigned(offset, 21) /\ offset % 2 = 0 THEN <<word>> ELSE <<>>
    BY DEF RV!EncodeJal, RV!Checked, RV!Rejected
  <2>2. \A x : <<>> # <<x>> /\ (<<x>> = <<w>> => x = w)
    OBVIOUS
  <2> HIDE DEF word
  <2>3. CASE RV!FitsSigned(offset, 21) /\ offset % 2 = 0
    BY <2>1, <2>2, <2>3
  <2>4. CASE ~(RV!FitsSigned(offset, 21) /\ offset % 2 = 0)
    BY <2>1, <2>2, <2>4
  <2> QED BY <2>3, <2>4
<1>2. -1048576 <= offset /\ offset < 1048576
  <2>1. -(2^(21 - 1)) <= offset /\ offset < 2^(21 - 1)
    BY <1>1, PacksAlike, Zenon DEF FitsSigned
  <2> QED BY SMT, <2>1, Powers
<1>3. PICK v1 \in Int, v2 \in Int, v3 \in Int, v4 \in Int :
         /\ v1 = (offset \div 1048576) % 2 /\ v2 = (offset \div 2) % 1024
         /\ v3 = (offset \div 2048) % 2 /\ v4 = (offset \div 4096) % 256
  BY SMT
<1>4. /\ v1 = Bits(offset, 20, 20) /\ v2 = Bits(offset, 10, 1)
      /\ v3 = Bits(offset, 11, 11) /\ v4 = Bits(offset, 19, 12)
  <2>1. /\ Bits(offset, 20, 20) = (offset \div 2^20) % 2^(20 - 20 + 1)
        /\ Bits(offset, 10, 1) = (offset \div 2^1) % 2^(10 - 1 + 1)
        /\ Bits(offset, 11, 11) = (offset \div 2^11) % 2^(11 - 11 + 1)
        /\ Bits(offset, 19, 12) = (offset \div 2^12) % 2^(19 - 12 + 1)
    BY SMT DEF Bits
  <2> QED BY SMT, <1>3, <2>1, Powers
<1>5. /\ v1 \in 0..1 /\ 0 <= v2 /\ v2 < 1024 /\ v3 \in 0..1 /\ 0 <= v4 /\ v4 < 256
      /\ LET u == 2 * v2 + 2048 * v3 + 4096 * v4 + 1048576 * v1
         IN (IF u >= 1048576 THEN u - 2097152 ELSE u) = offset
  <2>1. JalParts(offset, v1, v2, v3, v4)
    BY SMT, <1>1, <1>2, <1>3 DEF JalParts
  <2>2. JalJoins(offset, v1, v2, v3, v4)
    BY <2>1, JalOffset, Zenon
  <2> QED BY SMT, <2>2 DEF JalJoins
<1>6. PICK rd \in Int : rd = i.rd
  OBVIOUS
<1>7. PICK op \in Int : op = RV!OpWord.JAL /\ op = 111
  BY SMT DEF RV!OpWord
<1>8. PacksJalWord(w, v1, v2, v3, v4, rd, op)
  BY <1>1, <1>4, <1>6, <1>7, PacksAlike, Zenon DEF PacksJalWord
<1>14. v1 \in 0..1
  BY <1>5, SMT
<1>9. /\ w \in Int /\ Bits(w, 31, 31) = v1 /\ Bits(w, 30, 21) = Rem(v2, 2^10)
      /\ Bits(w, 20, 20) = Rem(v3, 2^1) /\ Bits(w, 19, 12) = Rem(v4, 2^8)
      /\ Bits(w, 6, 0) = Rem(op, 2^7)
  <2>1. ReadsJalWord(w, v1, v2, v3, v4, op)
    BY <1>14, <1>8, JalWord, Zenon
  <2> QED BY <2>1 DEF ReadsJalWord
<1>10. Rem(v2, 2^10) = v2 /\ Rem(v3, 2^1) = v3 /\ Rem(v4, 2^8) = v4 /\ Rem(op, 2^7) = op
  BY SMT, <1>5, <1>7, Powers DEF Rem
<1>11. RV!ImmJ(w) = offset
  <2>1. RV!ImmJ(w) = SignExtend(2 * v2 + 2048 * v3 + 4096 * v4 + 1048576 * v1, 21)
    BY <1>9, <1>10, PacksAlike, SMT DEF RV!ImmJ
  <2>2. PICK u \in Int : u = 2 * v2 + 2048 * v3 + 4096 * v4 + 1048576 * v1
    BY SMT
  <2>3. SignExtend(u, 21) = IF u >= 1048576 THEN u - 2097152 ELSE u
    BY Powers, SMT DEF SignExtend
  <2> QED BY <1>5, <2>1, <2>2, <2>3, SMT
<1>12. RV!Bits(w, 6, 0) = 111
  BY <1>7, <1>9, <1>10, PacksAlike
<1>13. RV!RISCVDecode(w).jal = TRUE /\ RV!RISCVDecode(w).imm = RV!ImmJ(w)
  BY <1>12, SMT DEF RV!RISCVDecode, RV!NoSignals, RV!OpWord
<1> QED BY <1>11, <1>13

\* The words of ARM branches: the displacement, and the class in the top bits.
LEMMA BWord ==
    ASSUME NEW link \in 0..1, NEW class \in Int, class = 5, NEW a \in Int, NEW w,
           Same(w, Pack(<< <<link, 1>>, <<class, 5>>, <<a, 26>> >>))
    PROVE  w \in Int /\ Bits(w, 25, 0) = Rem(a, 2^26) /\ Quot(w, 2^26) = 5 - 32 * link
<1>1. PICK f1 \in Int : f1 = Shifted(Sign(link, 1), link, 2^1) /\ f1 = -link
  BY SignBit
<1>2. PICK f2 \in Int : f2 = Shifted(f1, class, 2^5) /\ f2 = 5 - 32 * link
  <2>1. PICK f2 \in Int : f2 = Shifted(f1, class, 2^5)
    BY ShiftedType, WidthsAre, Zenon
  <2>2. f2 = f1 * 32 + (5 % 32)
    BY SMT, <2>1, Powers DEF Shifted
  <2> QED BY SMT, <1>1, <2>1, <2>2
<1>3. w \in Int /\ w = Shifted(f2, a, 2^26)
  <2>1. Same(Pack(<< <<link, 1>>, <<class, 5>>, <<a, 26>> >>),
             Shifted(Shifted(Shifted(Sign(link, 1), link, 2^1), class, 2^5), a, 2^26))
    BY Pack3, Zenon
  <2>2. w = Shifted(f2, a, 2^26)
    BY <1>1, <1>2, <2>1, Zenon DEF Same
  <2> QED BY <2>2, ShiftedType, WidthsAre, Zenon
<1>4. Ends(w, 0, f2, a, 26)
  BY <1>3, BitsAre, WidthsAre, Zenon DEF Ends
<1>5. Same(Field(w, 0, 26), Rem(a, 2^26)) /\ Same(Quot(w, 2^26), f2)
  BY <1>4, FieldAt, Above, SumsAre, Zenon
<1>6. Bits(w, 25, 0) = Field(w, 0, 26)
  BY <1>3, BitsAre
<1> QED BY <1>2, <1>3, <1>5, <1>6, Zenon DEF Same

LEMMA BCondPack ==
    ASSUME NEW class, NEW a, NEW o, NEW c
    PROVE  Same(Pack(<< <<class, 8>>, <<a, 19>>, <<o, 1>>, <<c, 4>> >>),
                Shifted(Shifted(Shifted(Shifted(Sign(class, 8), class, 2^8), a, 2^19), o, 2^1), c, 2^4))
BY Pack4, Zenon

LEMMA BCondWord ==
    ASSUME NEW class \in Int, class = 84, NEW a \in Int, NEW o \in Int, NEW c \in Int, NEW w,
           Same(w, Pack(<< <<class, 8>>, <<a, 19>>, <<o, 1>>, <<c, 4>> >>))
    PROVE  w \in Int /\ Bits(w, 23, 5) = Rem(a, 2^19) /\ Quot(w, 2^24) = 84
<1>1. PICK f1 \in Int : f1 = Shifted(Sign(class, 8), class, 2^8) /\ f1 = 84
  <2>1. Bits(class, 7, 7) = 0
    <3>1. Bits(class, 7, 7) = (84 \div 2^7) % 2^1
      BY SMT DEF Bits
    <3> QED BY SMT, <3>1, Powers
  <2>2. Sign(class, 8) = 0
    <3>1. Sign(class, 8) = IF Bits(class, 7, 7) = 1 THEN -1 ELSE 0
      BY SMT DEF Sign
    <3> QED BY SMT, <2>1, <3>1
  <2>3. Shifted(0, class, 2^8) = 0 * 256 + (84 % 256)
    BY SMT, Powers DEF Shifted
  <2> QED BY SMT, <2>2, <2>3
<1>2. PICK f2 \in Int : f2 = Shifted(f1, a, 2^19)
  BY ShiftedType, WidthsAre, Zenon
<1>3. PICK f3 \in Int : f3 = Shifted(f2, o, 2^1)
  BY ShiftedType, WidthsAre, Zenon
<1>4. w \in Int /\ w = Shifted(f3, c, 2^4)
  <2>1. Same(Pack(<< <<class, 8>>, <<a, 19>>, <<o, 1>>, <<c, 4>> >>),
             Shifted(Shifted(Shifted(Shifted(Sign(class, 8), class, 2^8), a, 2^19), o, 2^1), c, 2^4))
    BY BCondPack, Zenon
  <2>2. w = Shifted(f3, c, 2^4)
    BY <1>1, <1>2, <1>3, <2>1, Zenon DEF Same
  <2> QED BY <2>2, ShiftedType, WidthsAre, Zenon
<1>5. Quot(w, 2^4) = f3
  <2>1. Ends(w, 0, f3, c, 4)
    BY <1>4, BitsAre, WidthsAre, Zenon DEF Ends
  <2>2. Same(Quot(w, 2^4), f3)
    BY <2>1, Above, SumsAre, Zenon
  <2> QED BY <2>2 DEF Same
<1>6. Quot(w, 2^5) = f2
  <2>1. Ends(w, 4, f2, o, 1)
    BY <1>3, <1>4, <1>5, WidthsAre, Zenon DEF Ends
  <2>2. Same(Quot(w, 2^5), f2)
    BY <2>1, Above, SumsAre, Zenon
  <2> QED BY <2>2 DEF Same
<1>7. Ends(w, 5, f1, a, 19)
  BY <1>2, <1>4, <1>6, WidthsAre, Zenon DEF Ends
<1>8. Same(Field(w, 5, 19), Rem(a, 2^19)) /\ Same(Quot(w, 2^24), f1)
  BY <1>7, FieldAt, Above, SumsAre, Zenon
<1>9. Bits(w, 23, 5) = Field(w, 5, 19)
  BY <1>4, BitsAre
<1> QED BY <1>1, <1>4, <1>8, <1>9 DEF Same

LEMMA CbzWord ==
    ASSUME NEW v1 \in 0..1, v1 = 1, NEW class \in Int, class = 26, NEW nz \in 0..1, NEW a \in Int,
           NEW rt \in Int, NEW w,
           Same(w, Pack(<< <<v1, 1>>, <<class, 6>>, <<nz, 1>>, <<a, 19>>, <<rt, 5>> >>))
    PROVE  w \in Int /\ Bits(w, 23, 5) = Rem(a, 2^19) /\ Quot(w, 2^24) = nz - 76
<1>1. PICK f1 \in Int : f1 = Shifted(Sign(v1, 1), v1, 2^1) /\ f1 = -1
  BY SignBit
<1>2. PICK f2 \in Int : f2 = Shifted(f1, class, 2^6) /\ f2 = -38
  <2>1. PICK f2 \in Int : f2 = Shifted(f1, class, 2^6)
    BY ShiftedType, WidthsAre, Zenon
  <2>2. f2 = f1 * 64 + (26 % 64)
    BY SMT, <2>1, Powers DEF Shifted
  <2> QED BY SMT, <1>1, <2>1, <2>2
<1>3. PICK f3 \in Int : f3 = Shifted(f2, nz, 2^1) /\ f3 = nz - 76
  <2> nz \in Int
    OBVIOUS
  <2>1. PICK f3 \in Int : f3 = Shifted(f2, nz, 2^1)
    BY ShiftedType, WidthsAre, Zenon
  <2>2. f3 = f2 * 2 + (nz % 2)
    BY SMT, <2>1, Powers DEF Shifted
  <2> QED BY SMT, <1>2, <2>1, <2>2
<1>4. PICK f4 \in Int : f4 = Shifted(f3, a, 2^19)
  BY ShiftedType, WidthsAre, Zenon
<1>5. w \in Int /\ w = Shifted(f4, rt, 2^5)
  <2>1. Same(Pack(<< <<v1, 1>>, <<class, 6>>, <<nz, 1>>, <<a, 19>>, <<rt, 5>> >>),
             Shifted(Shifted(Shifted(Shifted(Shifted(Sign(v1, 1), v1, 2^1), class, 2^6), nz, 2^1),
                     a, 2^19), rt, 2^5))
    BY Pack5, Zenon
  <2>2. w = Shifted(f4, rt, 2^5)
    BY <1>1, <1>2, <1>3, <1>4, <2>1, Zenon DEF Same
  <2> QED BY <2>2, ShiftedType, WidthsAre, Zenon
<1>6. Quot(w, 2^5) = f4
  <2>1. Ends(w, 0, f4, rt, 5)
    BY <1>5, BitsAre, WidthsAre, Zenon DEF Ends
  <2>2. Same(Quot(w, 2^5), f4)
    BY <2>1, Above, SumsAre, Zenon
  <2> QED BY <2>2 DEF Same
<1>7. Ends(w, 5, f3, a, 19)
  BY <1>4, <1>5, <1>6, WidthsAre, Zenon DEF Ends
<1>8. Same(Field(w, 5, 19), Rem(a, 2^19)) /\ Same(Quot(w, 2^24), f3)
  BY <1>7, FieldAt, Above, SumsAre, Zenon
<1>9. Bits(w, 23, 5) = Field(w, 5, 19)
  BY <1>5, BitsAre
<1> QED BY <1>3, <1>5, <1>8, <1>9 DEF Same

\* The NOP word is of no class of branches.
LEMMA NopWord ==
    Quot(ARM!NOP_WORD, 2^24) = -43
<1>1. PICK v1 \in Int, v2 \in Int, v3 \in Int, v4 \in Int : v1 = 213 /\ v2 = 3 /\ v3 = 32 /\ v4 = 31
  BY SMT
<1>2. PICK w : Same(w, Pack(<< <<v1, 8>>, <<v2, 8>>, <<v3, 8>>, <<v4, 8>> >>)) /\ w = ARM!NOP_WORD
  <2>1. ARM!NOP_WORD = Pack(<< <<v1, 8>>, <<v2, 8>>, <<v3, 8>>, <<v4, 8>> >>)
    BY <1>1, PacksAlike, Zenon DEF ARM!NOP_WORD
  <2> QED BY <2>1 DEF Same
<1>3. PICK f1 \in Int : f1 = Shifted(Sign(v1, 8), v1, 2^8) /\ f1 = -43
  <2>1. Bits(v1, 7, 7) = 1
    <3>1. Bits(v1, 7, 7) = (213 \div 2^7) % 2^1
      BY SMT, <1>1 DEF Bits
    <3> QED BY SMT, <3>1, Powers
  <2>2. Sign(v1, 8) = -1
    <3>1. Sign(v1, 8) = IF Bits(v1, 7, 7) = 1 THEN -1 ELSE 0
      BY SMT DEF Sign
    <3> QED BY SMT, <2>1, <3>1
  <2>3. Shifted(-1, v1, 2^8) = -1 * 256 + (213 % 256)
    BY SMT, <1>1, Powers DEF Shifted
  <2> QED BY SMT, <2>2, <2>3
<1>4. PICK f2 \in Int : f2 = Shifted(f1, v2, 2^8)
  BY ShiftedType, WidthsAre, Zenon
<1>5. PICK f3 \in Int : f3 = Shifted(f2, v3, 2^8)
  BY ShiftedType, WidthsAre, Zenon
<1>6. w \in Int /\ w = Shifted(f3, v4, 2^8)
  <2>1. Same(Pack(<< <<v1, 8>>, <<v2, 8>>, <<v3, 8>>, <<v4, 8>> >>),
             Shifted(Shifted(Shifted(Shifted(Sign(v1, 8), v1, 2^8), v2, 2^8), v3, 2^8), v4, 2^8))
    BY Pack4, Zenon
  <2>2. w = Shifted(f3, v4, 2^8)
    BY <1>2, <1>3, <1>4, <1>5, <2>1, Zenon DEF Same
  <2> QED BY <2>2, ShiftedType, WidthsAre, Zenon
<1>7. Quot(w, 2^8) = f3
  <2>1. Ends(w, 0, f3, v4, 8)
    BY <1>6, BitsAre, WidthsAre, Zenon DEF Ends
  <2>2. Same(Quot(w, 2^8), f3)
    BY <2>1, Above, SumsAre, Zenon
  <2> QED BY <2>2 DEF Same
<1>8. Quot(w, 2^16) = f2
  <2>1. Ends(w, 8, f2, v3, 8)
    BY <1>5, <1>6, <1>7, WidthsAre, Zenon DEF Ends
  <2>2. Same(Quot(w, 2^16), f2)
    BY <2>1, Above, SumsAre, Zenon
  <2> QED BY <2>2 DEF Same
<1>9. Ends(w, 16, f1, v2, 8)
  BY <1>4, <1>6, <1>8, WidthsAre, Zenon DEF Ends
<1>10. Same(Quot(w, 2^24), f1)
  BY <1>9, Above, SumsAre, Zenon
<1> QED BY <1>2, <1>3, <1>10 DEF Same

\* Bits from up = lo + n on, of what is left above bit lo.
LEMMA Higher ==
    ASSUME NEW w \in Int, NEW lo, NEW n, NEW up, Adds(lo, n, up)
    PROVE  Same(Quot(Quot(w, 2^lo), 2^n), Quot(w, 2^up))
<1>1. 2^lo * 2^n = 2^up /\ 2^lo \in Nat \ {0} /\ 2^n \in Nat \ {0}
  <2>1. lo \in Nat /\ n \in Nat /\ lo + n <= 30 /\ up = lo + n
    BY SMT DEF Adds, Width
  <2> QED BY <2>1, PowerSum
<1>2. Quot(Quot(w, 2^lo), 2^n) = Quot(w, 2^lo * 2^n)
  BY <1>1, QuotQuot
<1> QED BY <1>1, <1>2, Zenon DEF Same

\* What the decoder looks at to tell the classes, from the top eight bits t.
ClassBits(w, t) ==
    /\ Bits(w, 28, 24) = t % 32
    /\ Bits(w, 28, 23) = 34 => t % 32 = 17
    /\ Bits(w, 28, 23) = 37 => t % 32 = 18
    /\ Bits(w, 29, 27) = (t \div 8) % 8
    /\ Bits(w, 31, 26) = (t \div 4) % 64
    /\ Bits(w, 31, 24) = t % 256
    /\ Bits(w, 31, 25) = (t \div 2) % 128

LEMMA ClassBitsAre ==
    ASSUME NEW w \in Int, NEW t \in Int, Same(t, Quot(w, 2^24))
    PROVE  ClassBits(w, t)
<1>1. PICK x \in Int : x = Quot(w, 2^23)
  BY SMT DEF Quot
<1>2. /\ Bits(w, 28, 24) = Rem(t, 2^5)
      /\ Bits(w, 28, 23) = Rem(x, 2^6)
      /\ Bits(w, 29, 27) = Rem(Quot(w, 2^27), 2^3)
      /\ Bits(w, 31, 26) = Rem(Quot(w, 2^26), 2^6)
      /\ Bits(w, 31, 24) = Rem(t, 2^8)
      /\ Bits(w, 31, 25) = Rem(Quot(w, 2^25), 2^7)
  <2>1. /\ Bits(w, 28, 24) = Field(w, 24, 5) /\ Bits(w, 28, 23) = Field(w, 23, 6)
        /\ Bits(w, 29, 27) = Field(w, 27, 3) /\ Bits(w, 31, 26) = Field(w, 26, 6)
        /\ Bits(w, 31, 24) = Field(w, 24, 8) /\ Bits(w, 31, 25) = Field(w, 25, 7)
    BY BitsAre
  <2> QED BY <1>1, <2>1, Zenon DEF Field, Same
<1>3. /\ t = Quot(x, 2^1) /\ Quot(w, 2^25) = Quot(t, 2^1)
      /\ Quot(w, 2^26) = Quot(t, 2^2) /\ Quot(w, 2^27) = Quot(t, 2^3)
  <2>1. /\ Same(Quot(Quot(w, 2^23), 2^1), Quot(w, 2^24))
        /\ Same(Quot(Quot(w, 2^24), 2^1), Quot(w, 2^25))
        /\ Same(Quot(Quot(w, 2^24), 2^2), Quot(w, 2^26))
        /\ Same(Quot(Quot(w, 2^24), 2^3), Quot(w, 2^27))
    BY Higher, SumsAre, Zenon
  <2> QED BY <1>1, <2>1, Zenon DEF Same
<1>4. /\ Bits(w, 28, 24) = t % 32 /\ Bits(w, 28, 23) = x % 64 /\ t = x \div 2
      /\ Bits(w, 29, 27) = (t \div 8) % 8 /\ Bits(w, 31, 26) = (t \div 4) % 64
      /\ Bits(w, 31, 24) = t % 256 /\ Bits(w, 31, 25) = (t \div 2) % 128
  BY SMT, <1>2, <1>3, Powers DEF Quot, Rem
<1>5. x % 64 = 34 => t % 32 = 17
  BY SMT, <1>4
<1>6. x % 64 = 37 => t % 32 = 18
  BY SMT, <1>4
<1> QED BY <1>4, <1>5, <1>6, SMT DEF ClassBits

\* Which branch the decoder takes a word for.
LEMMA ARMClass ==
    ASSUME NEW w \in Int, NEW t \in Int, Same(t, Quot(w, 2^24))
    PROVE  /\ t \in 20..23 => ARM!ARMDecode(w) = ARM!DecodeB(w)
           /\ t \in -108..-105 => ARM!ARMDecode(w) = ARM!DecodeBl(w)
           /\ t = 84 => ARM!ARMDecode(w) = ARM!DecodeBCond(w)
           /\ t \in {-76, -75} => ARM!ARMDecode(w) = ARM!DecodeCbz(w)
<1> DEFINE Other == /\ w \notin {0, ARM!NOP_WORD}
                    /\ ARM!Bits(w, 28, 24) # 11 /\ ARM!Bits(w, 28, 24) # 10
                    /\ ARM!Bits(w, 28, 23) # 34 /\ ARM!Bits(w, 28, 23) # 37
                    /\ ARM!Bits(w, 29, 27) # 7
<1>1. ClassBits(w, t)
  BY ClassBitsAre, Zenon
<1>2. t # 0 /\ t # -43 => w \notin {0, ARM!NOP_WORD}
  <2>1. w = ARM!NOP_WORD => t = -43
    BY NopWord DEF Same
  <2>2. w = 0 => t = 0
    <3>1. 2^24 \in Nat \ {0}
      BY SMT, Powers
    <3>2. Quot(0, 2^24) = 0
      BY SMT, <3>1 DEF Quot
    <3> QED BY <3>2 DEF Same
  <2> QED BY <2>1, <2>2
<1>3. t % 32 \in 20..21 \union {22, 23} /\ (t \div 8) % 8 # 7 /\ t # 0 /\ t # -43 => Other
  <2>1. ASSUME t % 32 \in 20..21 \union {22, 23}, (t \div 8) % 8 # 7, t # 0, t # -43
        PROVE  Other
    <3>1. t % 32 # 10 /\ t % 32 # 11 /\ t % 32 # 17 /\ t % 32 # 18
      BY SMT, <2>1
    <3> QED BY <1>1, <1>2, <2>1, <3>1, PacksAlike, SMT DEF ClassBits
  <2> QED BY <2>1
<1>4. ASSUME t \in 20..23
      PROVE  ARM!ARMDecode(w) = ARM!DecodeB(w)
  <2>1. /\ t % 32 \in 20..21 \union {22, 23} /\ (t \div 8) % 8 # 7 /\ t # 0 /\ t # -43
        /\ (t \div 4) % 64 = 5 /\ t % 256 # 84 /\ (t \div 2) % 128 # 90 /\ (t \div 2) % 128 # 107
    BY SMT, <1>4
  <2>2. Other
    BY <1>3, <2>1
  <2>3. /\ ARM!Bits(w, 31, 26) = 5 /\ ARM!Bits(w, 31, 26) # 37 /\ ARM!Bits(w, 31, 24) # 84
        /\ ARM!Bits(w, 31, 25) # 90 /\ ARM!Bits(w, 31, 25) # 107
    BY <1>1, <2>1, PacksAlike, SMT DEF ClassBits
  <2> QED BY <2>2, <2>3, SMT DEF ARM!ARMDecode
<1>5. ASSUME t \in -108..-105
      PROVE  ARM!ARMDecode(w) = ARM!DecodeBl(w)
  <2>1. /\ t % 32 \in 20..21 \union {22, 23} /\ (t \div 8) % 8 # 7 /\ t # 0 /\ t # -43
        /\ (t \div 4) % 64 = 37 /\ t % 256 # 84 /\ (t \div 2) % 128 # 90 /\ (t \div 2) % 128 # 107
    BY SMT, <1>5
  <2>2. Other
    BY <1>3, <2>1
  <2>3. /\ ARM!Bits(w, 31, 26) = 37 /\ ARM!Bits(w, 31, 26) # 5 /\ ARM!Bits(w, 31, 24) # 84
        /\ ARM!Bits(w, 31, 25) # 90 /\ ARM!Bits(w, 31, 25) # 107
    BY <1>1, <2>1, PacksAlike, SMT DEF ClassBits
  <2> QED BY <2>2, <2>3, SMT DEF ARM!ARMDecode
<1>6. ASSUME t = 84
      PROVE  ARM!ARMDecode(w) = ARM!DecodeBCond(w)
  <2>1. /\ t % 32 \in 20..21 \union {22, 23} /\ (t \div 8) % 8 # 7 /\ t # 0 /\ t # -43
        /\ (t \div 4) % 64 # 37 /\ (t \div 4) % 64 # 5 /\ t % 256 = 84 /\ (t \div 2) % 128 # 90
        /\ (t \div 2) % 128 # 107
    BY SMT, <1>6
  <2>2. Other
    BY <1>3, <2>1
  <2>3. /\ ARM!Bits(w, 31, 26) # 37 /\ ARM!Bits(w, 31, 26) # 5 /\ ARM!Bits(w, 31, 24) = 84
        /\ ARM!Bits(w, 31, 25) # 90 /\ ARM!Bits(w, 31, 25) # 107
    BY <1>1, <2>1, PacksAlike, SMT DEF ClassBits
  <2> QED BY <2>2, <2>3, SMT DEF ARM!ARMDecode
<1>7. ASSUME t \in {-76, -75}
      PROVE  ARM!ARMDecode(w) = ARM!DecodeCbz(w)
  <2>1. /\ t % 32 \in 20..21 \union {22, 23} /\ (t \div 8) % 8 # 7 /\ t # 0 /\ t # -43
        /\ (t \div 4) % 64 # 37 /\ (t \div 4) % 64 # 5 /\ t % 256 # 84 /\ (t \div 2) % 128 = 90
    BY SMT, <1>7
  <2>2. Other
    BY <1>3, <2>1
  <2>3. /\ ARM!Bits(w, 31, 26) # 37 /\ ARM!Bits(w, 31, 26) # 5 /\ ARM!Bits(w, 31, 24) # 84
        /\ ARM!Bits(w, 31, 25) = 90 /\ ARM!Bits(w, 31, 25) # 107
    BY <1>1, <2>1, PacksAlike, SMT DEF ClassBits
  <2> QED BY <2>2, <2>3, SMT DEF ARM!ARMDecode
<1> QED BY <1>4, <1>5, <1>6, <1>7

\* A count of words that fits its field, shifted by two and extended.
LEMMA ARMDisplacement ==
    ASSUME NEW offset \in Int, NEW a \in Int, offset % 4 = 0, a = offset \div 4
    PROVE  /\ -(2^25) <= a /\ a < 2^25 => ARM!SignExtend(4 * Rem(a, 2^26), 28) = offset
           /\ -(2^18) <= a /\ a < 2^18 => ARM!SignExtend(4 * Rem(a, 2^19), 21) = offset
<1>1. offset = 4 * a
  BY SMT
<1>2. /\ 2^25 = 33554432 /\ 2^26 = 67108864 /\ 2^27 = 134217728 /\ 2^28 = 268435456
      /\ 2^18 = 262144 /\ 2^19 = 524288 /\ 2^20 = 1048576 /\ 2^21 = 2097152
  BY SMT, Powers
<1>3. ASSUME -(2^25) <= a, a < 2^25
      PROVE  ARM!SignExtend(4 * Rem(a, 2^26), 28) = offset
  <2>1. PICK r \in Int : r = Rem(a, 2^26) /\ r = IF a < 0 THEN a + 67108864 ELSE a
    BY SMT, <1>2, <1>3 DEF Rem
  <2>2. ARM!SignExtend(4 * r, 28) = IF 4 * r >= 134217728 THEN 4 * r - 268435456 ELSE 4 * r
    BY SMT, <1>2 DEF ARM!SignExtend
  <2> QED BY SMT, <1>1, <1>2, <1>3, <2>1, <2>2
<1>4. ASSUME -(2^18) <= a, a < 2^18
      PROVE  ARM!SignExtend(4 * Rem(a, 2^19), 21) = offset
  <2>1. PICK r \in Int : r = Rem(a, 2^19) /\ r = IF a < 0 THEN a + 524288 ELSE a
    BY SMT, <1>2, <1>4 DEF Rem
  <2>2. ARM!SignExtend(4 * r, 21) = IF 4 * r >= 1048576 THEN 4 * r - 2097152 ELSE 4 * r
    BY SMT, <1>2 DEF ARM!SignExtend
  <2> QED BY SMT, <1>1, <1>2, <1>4, <2>1, <2>2
<1> QED BY <1>3, <1>4

\* The decoder finds the displacement that the encoder wrote.
LEMMA ARMBIs ==
    ASSUME NEW link \in 0..1, NEW offset \in Int, -(2^18) <= offset \div 4, offset \div 4 < 2^18,
           NEW w, ARM!EncodeB(link, offset) = <<w>>
    PROVE  ARM!ARMDecode(w).jal = TRUE /\ ARM!ARMDecode(w).imm = offset
<1>1. PICK a \in Int : a = offset \div 4
  BY SMT
<1>2. PICK class \in Int : class = 5
  BY SMT
<1>3. offset % 4 = 0 /\ Same(w, Pack(<< <<link, 1>>, <<class, 5>>, <<a, 26>> >>))
  <2> DEFINE word == ARM!Pack(<< <<link, 1>>, <<5, 5>>, <<offset \div 4, 26>> >>)
  <2>1. ARM!EncodeB(link, offset) = IF offset % 4 = 0 THEN <<word>> ELSE <<>>
    BY DEF ARM!EncodeB, ARM!Checked, ARM!Rejected
  <2>2. \A x : <<>> # <<x>> /\ (<<x>> = <<w>> => x = w)
    OBVIOUS
  <2> HIDE DEF word
  <2>3. offset % 4 = 0 /\ word = w
    BY <2>1, <2>2
  <2> USE DEF word
  <2> QED BY <1>1, <1>2, <2>3, PacksAlike, Zenon DEF Same
<1>4. w \in Int /\ Bits(w, 25, 0) = Rem(a, 2^26) /\ Quot(w, 2^26) = 5 - 32 * link
  BY <1>2, <1>3, BWord
<1>5. PICK t \in Int : Same(t, Quot(w, 2^24)) /\ (t \in 20..23 \/ t \in -108..-105)
  <2>1. PICK t \in Int : t = Quot(w, 2^24)
    BY SMT, <1>4, Powers DEF Quot
  <2>2. Same(Quot(t, 2^2), Quot(w, 2^26))
    BY <1>4, <2>1, Higher, SumsAre, Zenon
  <2>3. t \div 4 = 5 - 32 * link
    BY SMT, <1>4, <2>2, Powers DEF Same, Quot
  <2>4. link = 0 \/ link = 1
    BY SMT
  <2>5. t \in 20..23 \/ t \in -108..-105
    BY SMT, <2>3, <2>4
  <2> QED BY <2>1, <2>5 DEF Same
<1>6. ARM!ARMDecode(w) = ARM!DecodeB(w) \/ ARM!ARMDecode(w) = ARM!DecodeBl(w)
  BY <1>4, <1>5, ARMClass, Zenon
<1>7. ARM!DecodeB(w).jal = TRUE /\ ARM!DecodeB(w).imm = ARM!SignExtend(4 * ARM!Bits(w, 25, 0), 28)
  BY DEF ARM!DecodeB, ARM!NoSignals
<1>8. ARM!DecodeBl(w).jal = TRUE /\ ARM!DecodeBl(w).imm = ARM!SignExtend(4 * ARM!Bits(w, 25, 0), 28)
  BY DEF ARM!DecodeBl, ARM!DecodeB, ARM!NoSignals
<1>9. ARM!SignExtend(4 * ARM!Bits(w, 25, 0), 28) = offset
  <2>1. -(2^25) <= a /\ a < 2^25
    BY SMT, <1>1, Powers
  <2>2. ARM!SignExtend(4 * Rem(a, 2^26), 28) = offset
    BY <1>1, <1>3, <2>1, ARMDisplacement
  <2>3. ARM!Bits(w, 25, 0) = Rem(a, 2^26)
    BY <1>4, PacksAlike
  <2> QED BY <2>2, <2>3
<1> QED BY <1>6, <1>7, <1>8, <1>9, Zenon

LEMMA ARMBCondIs ==
    ASSUME NEW cond \in DOMAIN ARM!CondCode, NEW offset \in Int,
           -(2^18) <= offset \div 4, offset \div 4 < 2^18,
           NEW w, ARM!EncodeBCond(cond, offset) = <<w>>
    PROVE  ARM!ARMDecode(w).branch = TRUE /\ ARM!ARMDecode(w).imm = offset
<1>1. PICK a \in Int : a = offset \div 4
  BY SMT
<1>2. PICK class \in Int, o \in Int, c \in Int : class = 84 /\ o = 0 /\ c = ARM!CondCode[cond]
  BY DEF ARM!CondCode
<1>3. offset % 4 = 0 /\ Same(w, Pack(<< <<class, 8>>, <<a, 19>>, <<o, 1>>, <<c, 4>> >>))
  <2> DEFINE word == ARM!Pack(<< <<84, 8>>, <<offset \div 4, 19>>, <<0, 1>>,
                <<ARM!CondCode[cond], 4>> >>)
  <2>1. ARM!EncodeBCond(cond, offset) = IF offset % 4 = 0 THEN <<word>> ELSE <<>>
    BY DEF ARM!EncodeBCond, ARM!Checked, ARM!Rejected
  <2>2. \A x : <<>> # <<x>> /\ (<<x>> = <<w>> => x = w)
    OBVIOUS
  <2> HIDE DEF word
  <2>3. offset % 4 = 0 /\ word = w
    BY <2>1, <2>2
  <2> USE DEF word
  <2> QED BY <1>1, <1>2, <2>3, PacksAlike, Zenon DEF Same
<1>4. w \in Int /\ Bits(w, 23, 5) = Rem(a, 2^19) /\ Quot(w, 2^24) = 84
  BY <1>2, <1>3, BCondWord
<1>5. ARM!ARMDecode(w) = ARM!DecodeBCond(w)
  <2>1. PICK t \in Int : t = 84 /\ Same(t, Quot(w, 2^24))
    BY <1>4 DEF Same
  <2> QED BY <1>4, <2>1, ARMClass, Zenon
<1>6. /\ ARM!DecodeBCond(w).branch = TRUE
      /\ ARM!DecodeBCond(w).imm = ARM!SignExtend(4 * ARM!Bits(w, 23, 5), 21)
  BY DEF ARM!DecodeBCond, ARM!NoSignals
<1>7. ARM!SignExtend(4 * Rem(a, 2^19), 21) = offset
  BY <1>1, <1>3, ARMDisplacement
<1>8. ARM!Bits(w, 23, 5) = Rem(a, 2^19)
  BY <1>4, PacksAlike
<1> QED BY <1>5, <1>6, <1>7, <1>8, Zenon

LEMMA ARMCbzIs ==
    ASSUME NEW i, i.rd \in Int, NEW offset \in Int,
           -(2^18) <= offset \div 4, offset \div 4 < 2^18,
           NEW w, ARM!EncodeCbz(i, offset) = <<w>>
    PROVE  ARM!ARMDecode(w).branch = TRUE /\ ARM!ARMDecode(w).imm = offset
<1>1. PICK a \in Int : a = offset \div 4
  BY SMT
<1>2. PICK v1 \in 0..1, class \in Int, nz \in 0..1, rt \in Int :
         v1 = 1 /\ class = 26 /\ nz = (IF i.mn = "CBZ" THEN 0 ELSE 1) /\ rt = i.rd
  OBVIOUS
<1>3. offset % 4 = 0 /\ Same(w, Pack(<< <<v1, 1>>, <<class, 6>>, <<nz, 1>>, <<a, 19>>, <<rt, 5>> >>))
  <2> DEFINE word == ARM!Pack(<< <<1, 1>>, <<26, 6>>, <<IF i.mn = "CBZ" THEN 0 ELSE 1, 1>>,
                                 <<offset \div 4, 19>>, <<i.rd, 5>> >>)
  <2>1. ARM!EncodeCbz(i, offset) = IF offset % 4 = 0 THEN <<word>> ELSE <<>>
    BY DEF ARM!EncodeCbz, ARM!Checked, ARM!Rejected
  <2>2. \A x : <<>> # <<x>> /\ (<<x>> = <<w>> => x = w)
    OBVIOUS
  <2> HIDE DEF word
  <2>3. offset % 4 = 0 /\ word = w
    BY <2>1, <2>2
  <2> USE DEF word
  <2> QED BY <1>1, <1>2, <2>3, PacksAlike, Zenon DEF Same
<1>4. w \in Int /\ Bits(w, 23, 5) = Rem(a, 2^19) /\ Quot(w, 2^24) = nz - 76
  BY <1>2, <1>3, CbzWord
<1>5. ARM!ARMDecode(w) = ARM!DecodeCbz(w)
  <2>1. PICK t \in Int : t \in {-76, -75} /\ Same(t, Quot(w, 2^24))
    <3>1. nz - 76 \in {-76, -75} /\ nz - 76 \in Int
      BY SMT
    <3> QED BY <1>4, <3>1 DEF Same
  <2> QED BY <1>4, <2>1, ARMClass, Zenon
<1>6. /\ ARM!DecodeCbz(w).branch = TRUE
      /\ ARM!DecodeCbz(w).imm = ARM!SignExtend(4 * ARM!Bits(w, 23, 5), 21)
  BY DEF ARM!DecodeCbz, ARM!NoSignals
<1>7. ARM!SignExtend(4 * Rem(a, 2^19), 21) = offset
  BY <1>1, <1>3, ARMDisplacement
<1>8. ARM!Bits(w, 23, 5) = Rem(a, 2^19)
  BY <1>4, PacksAlike
<1> QED BY <1>5, <1>6, <1>7, <1>8, Zenon

-----------------------------------------------------------------------------
(* x86: what is written in one byte, or in four, is read back.              *)

Int32(v) == v \in Int /\ -2147483648 <= v /\ v <= 2147483647

LEMMA Disp8Is ==
    ASSUME NEW v \in Int, -128 <= v, v <= 127, NEW b, b[2] = v % 256
    PROVE  Same(X86!Disp8(b, 2), v)
<1>1. PICK x \in Int : x = v % 256 /\ x = IF v >= 0 THEN v ELSE v + 256
  BY SMT
<1>2. X86!SignExtend(x, 8) = IF x >= 128 THEN x - 256 ELSE x
  BY SMT, Powers DEF X86!SignExtend
<1>3. X86!SignExtend(x, 8) = v
  BY SMT, <1>1, <1>2
<1> QED BY <1>1, <1>3, Zenon DEF X86!Disp8, Same

\* The bytes of v, from k on.
FourAt(b, k, v) ==
    /\ k \in Int
    /\ b[k] = v % 256
    /\ b[k + 1] = (v \div 256) % 256
    /\ b[k + 2] = (v \div 65536) % 256
    /\ b[k + 3] = (v \div 16777216) % 256

LEMMA Rel32Is ==
    ASSUME NEW v, Int32(v), NEW b, NEW k, FourAt(b, k, v)
    PROVE  Same(X86!Rel32(b, k), v)
<1> v \in Int
  BY DEF Int32
<1>1. PICK r \in Int, d0 \in Int :
         /\ r = v \div 256 /\ d0 = v % 256
         /\ v = 256 * r + d0 /\ 0 <= d0 /\ d0 < 256
  BY SMT
<1>2. PICK p \in Int, d1 \in Int :
         /\ p = r \div 256 /\ d1 = r % 256
         /\ r = 256 * p + d1 /\ 0 <= d1 /\ d1 < 256
  BY SMT
<1>3. PICK q \in Int, d2 \in Int :
         /\ q = p \div 256 /\ d2 = p % 256
         /\ p = 256 * q + d2 /\ 0 <= d2 /\ d2 < 256
  BY SMT
<1>4. v \div 65536 = p
  <2>1. PICK s \in Int : s = 256 * d1 + d0 /\ 0 <= s /\ s < 65536
    BY SMT, <1>1, <1>2
  <2>2. v = 65536 * p + s
    BY SMT, <1>1, <1>2, <2>1
  <2> QED BY SMT, <2>1, <2>2
<1>5. PICK s \in Int : /\ s = 65536 * d2 + 256 * d1 + d0 /\ 0 <= s /\ s < 16777216
                       /\ v = 16777216 * q + s
  <2>1. PICK s \in Int : s = 65536 * d2 + 256 * d1 + d0 /\ 0 <= s /\ s < 16777216
    BY SMT, <1>1, <1>2, <1>3
  <2>2. v = 16777216 * q + s
    BY SMT, <1>1, <1>2, <1>3, <2>1
  <2> QED BY SMT, <2>1, <2>2
<1>6. v \div 16777216 = q
  BY SMT, <1>5
<1>7. -128 <= q /\ q <= 127
  BY SMT, <1>5 DEF Int32
<1>8. PICK x \in Int : x = q % 256 /\ x = IF q >= 0 THEN q ELSE q + 256
  BY SMT, <1>7
<1>9. X86!SignExtend(x, 8) = q
  <2>1. X86!SignExtend(x, 8) = IF x >= 128 THEN x - 256 ELSE x
    BY SMT, Powers DEF X86!SignExtend
  <2> QED BY SMT, <1>7, <1>8, <2>1
<1>10. b[k] = d0 /\ b[k + 1] = d1 /\ b[k + 2] = d2 /\ b[k + 3] = x
  BY SMT, <1>1, <1>2, <1>3, <1>4, <1>6, <1>8 DEF FourAt
<1>11. X86!Rel32(b, k) = d0 + 256 * d1 + 65536 * d2 + 16777216 * q
  <2>1. X86!Rel32(b, k) = b[k] + 256 * b[k + 1] + 65536 * b[k + 2]
          + 16777216 * X86!SignExtend(b[k + 3], 8)
    BY SMT DEF X86!Rel32
  <2> QED BY SMT, <1>9, <1>10, <2>1
<1>12. X86!Rel32(b, k) = v
  BY SMT, <1>5, <1>11
<1> QED BY <1>12 DEF Same

Branching(c, offset) == (c.jal = TRUE \/ c.branch = TRUE) /\ c.imm = offset

LEMMA X86BranchIs ==
    ASSUME NEW i, X86!IsBranch(i), NEW offset \in Int, Int32(offset - 5), Int32(offset - 6),
           NEW long \in BOOLEAN, NEW e, NEW b, BranchLaid(i, offset, long, e, b)
    PROVE  Branching(X86!X86Decode(b), offset)
<1>1. \A n, d : X86!Jump(n, d).jal = TRUE /\ X86!Jump(n, d).imm = n + d
  BY DEF X86!Jump, X86!Sized, X86!NoSignals
<1>2. \A n, d, c : X86!Jcc(n, d, c).branch = TRUE /\ X86!Jcc(n, d, c).imm = n + d
  BY DEF X86!Jcc, X86!Sized, X86!NoSignals
<1>3. i.mn # "JMP" => \E c \in 0..15 : c = X86!JccCode[i.mn]
  BY DEF X86!IsBranch, X86!JccCode
<1>4. CASE ~long
  <2>1. /\ b[2] = (offset - 2) % 256 /\ FitsSigned(offset - 2, 8)
        /\ b[1] = IF i.mn = "JMP" THEN 235 ELSE 112 + X86!JccCode[i.mn]
    BY <1>4 DEF BranchLaid
  <2>2. PICK v \in Int : v = offset - 2 /\ -128 <= v /\ v <= 127
    BY SMT, <2>1, Powers DEF FitsSigned
  <2>3. X86!Disp8(b, 2) = v
    BY <2>1, <2>2, Disp8Is DEF Same
  <2>4. 2 + v = offset
    BY SMT, <2>2
  <2>5. b[1] = 235 \/ b[1] \in 112..127
    BY SMT, <1>3, <2>1
  <2>6. \/ X86!X86Decode(b) = X86!Jump(2, X86!Disp8(b, 2))
        \/ X86!X86Decode(b) = X86!Jcc(2, X86!Disp8(b, 2), b[1] % 16)
    BY <2>5, X86DecodeIs
  <2> QED BY <1>1, <1>2, <2>3, <2>4, <2>6 DEF Branching
<1>5. CASE long /\ i.mn = "JMP"
  <2>1. PICK v \in Int : v = offset - 5 /\ Int32(v)
    OBVIOUS
  <2>2. b[1] = 233 /\ FourAt(b, 2, v)
    BY SMT, <1>5, <2>1 DEF BranchLaid, FourAt
  <2>3. X86!Rel32(b, 2) = v
    <3>1. FourAt(b, 2, v)
      BY <2>2
    <3>2. Same(X86!Rel32(b, 2), v)
      BY <2>1, <3>1, Rel32Is, Zenon
    <3> QED BY <3>2 DEF Same
  <2>4. 5 + v = offset
    BY SMT, <2>1
  <2>5. X86!X86Decode(b) = X86!Jump(5, X86!Rel32(b, 2))
    BY <2>2, X86DecodeIs
  <2> QED BY <1>1, <2>3, <2>4, <2>5 DEF Branching
<1>6. CASE long /\ i.mn # "JMP"
  <2>1. PICK v \in Int : v = offset - 6 /\ Int32(v)
    OBVIOUS
  <2>2. b[1] = 15 /\ b[2] = 128 + X86!JccCode[i.mn] /\ FourAt(b, 3, v)
    BY SMT, <1>6, <2>1 DEF BranchLaid, FourAt
  <2>3. X86!Rel32(b, 3) = v
    <3>1. Same(X86!Rel32(b, 3), v)
      BY <2>1, <2>2, Rel32Is, Zenon
    <3> QED BY <3>1 DEF Same
  <2>4. 6 + v = offset
    BY SMT, <2>1
  <2>5. b[2] \in 128..143
    BY SMT, <1>3, <1>6, <2>2
  <2>6. X86!X86Decode(b) = X86!Jcc(6, X86!Rel32(b, 3), b[2] % 16)
    BY <2>2, <2>5, X86DecodeIs
  <2> QED BY <1>2, <2>3, <2>4, <2>6 DEF Branching
<1> QED BY <1>4, <1>5, <1>6

LEMMA X86CallIs ==
    ASSUME NEW offset \in Int, Int32(offset - 5), NEW b,
           StartsWith(b, << 232 >> \o X86!Imm32(offset - 5))
    PROVE  X86!X86Decode(b).jal = TRUE /\ X86!X86Decode(b).imm = offset
<1>1. PICK v \in Int : v = offset - 5 /\ Int32(v)
  OBVIOUS
<1>2. PICK o \in Seq(Int) : o = << 232 >> /\ Len(o) = 1 /\ o[1] = 232
  <2>1. << 232 >> \in Seq(Int) /\ Len(<< 232 >>) = 1 /\ << 232 >>[1] = 232
    OBVIOUS
  <2> QED BY <2>1
<1>3. PICK e : e = o \o X86!Imm32(v)
  OBVIOUS
<1>4. Behind(e, o, v)
  BY <1>3, Imm32Behind
<1>5. /\ Len(e) = 5 /\ e[1] = 232 /\ e[2] = v % 256 /\ e[3] = (v \div 256) % 256
      /\ e[4] = (v \div 65536) % 256 /\ e[5] = (v \div 16777216) % 256
  <2>1. Len(o) + 1 = 2 /\ Len(o) + 2 = 3 /\ Len(o) + 3 = 4 /\ Len(o) + 4 = 5 /\ 1 \in 1..Len(o)
    BY <1>2
  <2> QED BY <1>2, <1>4, <2>1, SMT DEF Behind
<1>6. StartsWith(b, e)
  BY <1>1, <1>2, <1>3
<1>7. b[1] = e[1] /\ b[2] = e[2] /\ b[3] = e[3] /\ b[4] = e[4] /\ b[5] = e[5]
  BY <1>5, <1>6, SMT DEF StartsWith
<1>8. b[1] = 232 /\ FourAt(b, 2, v)
  BY SMT, <1>5, <1>7 DEF FourAt
<1>9. X86!Rel32(b, 2) = v
  <2>1. FourAt(b, 2, v)
    BY <1>8
  <2>2. Same(X86!Rel32(b, 2), v)
    BY <1>1, <2>1, Rel32Is, Zenon
  <2> QED BY <2>2 DEF Same
<1>10. 5 + v = offset
  BY SMT, <1>1
<1>11. X86!X86Decode(b) = X86!Jump(5, X86!Rel32(b, 2))
  BY <1>8, X86DecodeIs
<1>12. X86!Jump(5, v).jal = TRUE /\ X86!Jump(5, v).imm = 5 + v
  BY DEF X86!Jump, X86!Sized, X86!NoSignals
<1> QED BY <1>9, <1>10, <1>11, <1>12

-----------------------------------------------------------------------------
(* Every branch leads to its label.                                         *)

Reaches(c, i, pc, labels) == (c.jal \/ c.branch) /\ pc + c.imm = labels[i.label]

\* The line of a branch to a name, placed at pc.
BranchLine(isa, i, pc, labels) ==
    /\ WellFormed(isa, i) /\ ~IsLabel(i) /\ i.label # NoLabel
    /\ pc \in Int /\ \A l \in DOMAIN labels : labels[l] \in Int

LEMMA RISCVReaches ==
    ASSUME NEW i, NEW pc, NEW labels, BranchLine("riscv", i, pc, labels),
           NEW w, RV!RISCVEncode(i, pc, labels) = <<w>>
    PROVE  Reaches(RV!RISCVDecode(w), i, pc, labels)
<1>1. i.mn = "JAL" \/ i.mn \in DOMAIN RV!BranchFunct3
  BY DEF BranchLine, WellFormed, Branches, IsLabel
<1>2. i.rd \in Int /\ i.rs1 \in Int /\ i.rs2 \in Int
  BY DEF BranchLine, WellFormed, NumRegs
<1>3. RV!Resolves(i, labels)
  <2>1. RV!Rejected # <<w>>
    BY DEF RV!Rejected
  <2> QED BY <2>1 DEF RV!RISCVEncode
<1>4. PICK offset \in Int : offset = labels[i.label] - pc /\ pc + offset = labels[i.label]
                            /\ offset = RV!Offset(i, pc, labels)
  <2>1. i.label # RV!NoLabel
    BY DEF BranchLine, NoLabel, RV!NoLabel
  <2>2. RV!Offset(i, pc, labels) = labels[i.label] - pc
    BY <2>1 DEF RV!Offset
  <2>3. labels[i.label] \in Int /\ pc \in Int
    BY <1>3, <2>1 DEF RV!Resolves, BranchLine
  <2> QED BY <2>2, <2>3
<1>5. CASE i.mn = "JAL"
  <2>1. RV!RISCVEncode(i, pc, labels) = RV!EncodeJal(i, offset)
    BY <1>3, <1>4, <1>5 DEF RV!RISCVEncode, RV!RTypes, RV!IAlus, RV!Shifts, RV!BranchFunct3
  <2>2. RV!RISCVDecode(w).jal = TRUE /\ RV!RISCVDecode(w).imm = offset
    BY <1>2, <2>1, RISCVJalIs
  <2> QED BY <1>4, <2>2 DEF Reaches
<1>6. CASE i.mn \in DOMAIN RV!BranchFunct3
  <2>1. RV!RISCVEncode(i, pc, labels) = RV!EncodeBranch(i, offset)
    BY <1>3, <1>4, <1>6 DEF RV!RISCVEncode, RV!RTypes, RV!IAlus, RV!Shifts, RV!BranchFunct3
  <2>2. RV!RISCVDecode(w).branch = TRUE /\ RV!RISCVDecode(w).imm = offset
    BY <1>2, <1>6, <2>1, RISCVBranchIs
  <2> QED BY <1>4, <2>2 DEF Reaches
<1> QED BY <1>1, <1>5, <1>6

\* On ARM, when the displacement in words fits the 19 bits of a conditional
\* branch, into which it is masked without a check.
Near(offset) == -(2^18) <= offset \div 4 /\ offset \div 4 < 2^18

LEMMA ARMReaches ==
    ASSUME NEW i, NEW pc, NEW labels, BranchLine("arm", i, pc, labels),
           Near(labels[i.label] - pc), NEW w, ARM!ARMEncode(i, pc, labels) = <<w>>
    PROVE  Reaches(ARM!ARMDecode(w), i, pc, labels)
<1>1. i.mn \in {"B", "BL", "B.", "CBZ", "CBNZ"}
  BY DEF BranchLine, WellFormed, Branches, IsLabel
<1>2. i.rd \in Int
  BY DEF BranchLine, WellFormed, NumRegs
<1>3. ARM!Rejected # <<w>>
  BY DEF ARM!Rejected
<1>4. ARM!Resolves(i, labels)
  BY <1>3 DEF ARM!ARMEncode
<1>5. PICK offset \in Int : offset = labels[i.label] - pc /\ pc + offset = labels[i.label]
                            /\ offset = ARM!Offset(i, pc, labels)
  <2>1. i.label # ARM!NoLabel
    BY DEF BranchLine, NoLabel, ARM!NoLabel
  <2>2. ARM!Offset(i, pc, labels) = labels[i.label] - pc
    BY <2>1 DEF ARM!Offset
  <2>3. labels[i.label] \in Int /\ pc \in Int
    BY <1>4, <2>1 DEF ARM!Resolves, BranchLine
  <2> QED BY <2>2, <2>3
<1>6. -(2^18) <= offset \div 4 /\ offset \div 4 < 2^18
  BY <1>5 DEF Near
<1>7. CASE i.mn \in {"B", "BL"}
  <2>1. PICK link \in 0..1 : ARM!ARMEncode(i, pc, labels) = ARM!EncodeB(link, offset)
    <3>1. i.mn = "B" => ARM!ARMEncode(i, pc, labels) = ARM!EncodeB(0, offset)
      BY <1>4, <1>5 DEF ARM!ARMEncode, ARM!ArithOpc, ARM!LogicOpc
    <3>2. i.mn = "BL" => ARM!ARMEncode(i, pc, labels) = ARM!EncodeB(1, offset)
      BY <1>4, <1>5 DEF ARM!ARMEncode, ARM!ArithOpc, ARM!LogicOpc
    <3> QED BY <1>7, <3>1, <3>2
  <2>2. ARM!ARMDecode(w).jal = TRUE /\ ARM!ARMDecode(w).imm = offset
    BY <1>6, <2>1, ARMBIs
  <2> QED BY <1>5, <2>2 DEF Reaches
<1>8. CASE i.mn = "B."
  <2>1. i.form \in DOMAIN ARM!CondCode /\ ARM!ARMEncode(i, pc, labels) = ARM!EncodeBCond(i.form, offset)
    BY <1>3, <1>4, <1>5, <1>8 DEF ARM!ARMEncode, ARM!ArithOpc, ARM!LogicOpc
  <2>2. ARM!ARMDecode(w).branch = TRUE /\ ARM!ARMDecode(w).imm = offset
    BY <1>6, <2>1, ARMBCondIs
  <2> QED BY <1>5, <2>2 DEF Reaches
<1>9. CASE i.mn \in {"CBZ", "CBNZ"}
  <2>1. ARM!ARMEncode(i, pc, labels) = ARM!EncodeCbz(i, offset)
    BY <1>4, <1>5, <1>9 DEF ARM!ARMEncode, ARM!ArithOpc, ARM!LogicOpc
  <2>2. ARM!ARMDecode(w).branch = TRUE /\ ARM!ARMDecode(w).imm = offset
    BY <1>2, <1>6, <2>1, ARMCbzIs
  <2> QED BY <1>5, <2>2 DEF Reaches
<1> QED BY <1>1, <1>7, <1>8, <1>9

LEMMA X86Reaches ==
    ASSUME NEW i, NEW pc, NEW labels, BranchLine("x86", i, pc, labels), NEW long \in BOOLEAN,
           Int32(labels[i.label] - pc - 5), Int32(labels[i.label] - pc - 6),
           X86!X86Encode(i, pc, labels, long) # Rejected,
           NEW b, StartsWith(b, X86!X86Encode(i, pc, labels, long))
    PROVE  Reaches(X86!X86Decode(b), i, pc, labels)
<1>1. i.mn = "CALL" \/ X86!IsBranch(i)
  BY DEF BranchLine, WellFormed, Branches, IsLabel, X86!IsBranch
<1>2. X86!Resolves(i, labels)
  BY DEF X86!X86Encode, X86!Rejected, Rejected
<1>3. PICK offset \in Int : offset = labels[i.label] - pc /\ pc + offset = labels[i.label]
                            /\ offset = X86!Offset(i, pc, labels)
  <2>1. i.label # X86!NoLabel
    BY DEF BranchLine, NoLabel, X86!NoLabel
  <2>2. X86!Offset(i, pc, labels) = labels[i.label] - pc
    BY <2>1 DEF X86!Offset
  <2>3. labels[i.label] \in Int /\ pc \in Int
    BY <1>2, <2>1 DEF X86!Resolves, BranchLine
  <2> QED BY <2>2, <2>3
<1>4. Int32(offset - 5) /\ Int32(offset - 6)
  BY <1>3, Zenon
<1>5. CASE i.mn = "CALL"
  <2>1. X86!X86Encode(i, pc, labels, long) = << 232 >> \o X86!Imm32(offset - 5)
    BY <1>2, <1>3, <1>5 DEF X86!X86Encode, X86!IsBranch, X86!JccCode, X86!AluOpcode
  <2>2. X86!X86Decode(b).jal = TRUE /\ X86!X86Decode(b).imm = offset
    BY <1>4, <2>1, X86CallIs
  <2> QED BY <1>3, <2>2 DEF Reaches
<1>6. CASE X86!IsBranch(i)
  <2>1. X86!X86Encode(i, pc, labels, long) = X86!EncodeBranch(i, offset, long)
    BY <1>2, <1>3, <1>6 DEF X86!X86Encode, X86!IsBranch, X86!JccCode, X86!AluOpcode
  <2>2. PICK e : e = X86!EncodeBranch(i, offset, long)
    OBVIOUS
  <2>3. BranchLaid(i, offset, long, e, b)
    BY <1>6, <2>1, <2>2, BranchBytes
  <2>4. Branching(X86!X86Decode(b), offset)
    BY <1>4, <1>6, <2>3, X86BranchIs
  <2> QED BY <1>3, <2>4 DEF Reaches, Branching
<1> QED BY <1>1, <1>5, <1>6

\* No line is longer than six bytes, on RISC-V and ARM than four.
Longest == IF job.isa = "x86" THEN 6 ELSE 4

LEMMA AddressesAreBounded ==
    ASSUME Assembled
    PROVE  /\ \A k \in DOMAIN text : layout.at[k] \in Nat /\ layout.at[k] < Longest * Len(text)
           /\ \A l \in DOMAIN layout.labels :
                 layout.labels[l] \in Nat /\ layout.labels[l] < Longest * Len(text)
<1> DEFINE n == Len(text)
           B(k) == Before(job.isa, text, wide, k)
           S == {k \in 0..n : B(k + 1) <= Longest * k}
<1>1. n \in Nat /\ DOMAIN text = 1..n
  BY LayoutType
<1>2. /\ B(1) = 0
      /\ \A k \in 1..n + 1 : B(k) \in Nat
      /\ \A k \in 1..n : B(k + 1) = B(k) + Own(job.isa, text, wide, k)
  BY <1>1, BeforeIs
<1>3. \A k \in 1..n : Own(job.isa, text, wide, k) \in 0..Longest
  <2> TAKE k \in 1..n
  <2>1. Own(job.isa, text, wide, k) \in 0..6
    BY OwnType
  <2>2. job.isa # "x86" => Own(job.isa, text, wide, k) \in {0, 4}
    BY DEF Own, SizeAt
  <2> QED BY <2>1, <2>2 DEF Longest
<1>4. Longest \in {4, 6}
  BY DEF Longest
<1> HIDE DEF n, B
<1>5. 0 \in S
  <2>1. 0 + 1 = 1 /\ Longest * 0 = 0 /\ 0 \in 0..n
    BY <1>1, <1>4
  <2> QED BY <1>2, <2>1
<1>6. ASSUME NEW k \in 0..(n - 1), k \in S PROVE k + 1 \in S
  <2>1. k + 1 \in 1..n /\ k + 1 \in 1..n + 1 /\ k + 1 \in 0..n
    BY <1>1
  <2>2. PICK x \in Nat, y \in Nat, z \in Nat :
           x = B(k + 1) /\ y = Own(job.isa, text, wide, k + 1) /\ z = Longest
    BY <1>2, <1>3, <1>4, <2>1
  <2>3. y <= z /\ x <= z * k /\ z \in {4, 6}
    BY <1>3, <1>4, <1>6, <2>1, <2>2
  <2>4. x + y <= z * (k + 1)
    BY <1>1, <2>3
  <2> QED BY <1>2, <2>1, <2>2, <2>4
<1>7. 0..n \subseteq S
  <2> HIDE DEF S
  <2> QED BY <1>1, <1>5, <1>6, NatByInduction
<1>8. ASSUME NEW k \in 1..n PROVE B(k) \in Nat /\ B(k) < Longest * n
  <2>1. k - 1 \in 0..n /\ (k - 1) + 1 = k /\ k \in 1..n + 1
    BY <1>1
  <2>2. B(k) <= Longest * (k - 1) /\ B(k) \in Nat
    BY <1>2, <1>7, <2>1
  <2>3. Longest * (k - 1) < Longest * n
    BY <1>1, <1>4
  <2> QED BY <1>1, <1>4, <2>2, <2>3
<1>9. \A k \in DOMAIN text : layout.at[k] = B(k)
  BY LayoutType DEF B
<1>10. \A l \in DOMAIN layout.labels :
          layout.labels[l] = B(Definition(text, l)) /\ Definition(text, l) \in 1..n
  <2>1. layout = Pass1(job.isa, text, wide)
    BY DEF Assembled, Relaxed
  <2> QED BY <1>1, <2>1, Pass1Is, DefinitionIs DEF B
<1> QED BY <1>1, <1>8, <1>9, <1>10, Zenon DEF n

\* A text whose branches the displacements of its instruction set can span.  The
\* assembler of RISC-V refuses the others; those of ARM and x86 do not look.
Spanned ==
    /\ job.isa = "arm" => Len(text) <= 2^18
    /\ job.isa = "x86" => Len(text) <= 2^28

LEMMA BranchesReach ==
    Loaded /\ Relaxed /\ Imaged => (Spanned => BranchesReachTheirLabels)
<1> SUFFICES ASSUME Assembled, Spanned PROVE BranchesReachTheirLabels
  BY DEF Assembled, BranchesReachTheirLabels
<1>1. ASSUME NEW k \in DOMAIN text, ~IsLabel(text[k]), text[k].label # NoLabel
      PROVE  Reaches(Decoded(job.isa, image, layout.at[k]), text[k], layout.at[k], layout.labels)
  <2> DEFINE i == text[k]
             pc == layout.at[k]
  <2>1. BranchLine(job.isa, i, pc, layout.labels)
    BY <1>1, LayoutType DEF BranchLine, Assembled, Loaded
  <2>2. i.label \in DOMAIN layout.labels
    <3>1. Part(k) # Rejected
      BY <1>1, PartsAreWritten
    <3>2. Part(k) = Encoded(job.isa, i, pc, layout.labels, k \in wide)
      BY <1>1 DEF Part
    <3>3. RV!Resolves(i, layout.labels) \/ ARM!Resolves(i, layout.labels)
            \/ X86!Resolves(i, layout.labels)
      <4> HIDE DEF i, pc
      <4>1. CASE job.isa = "riscv"
        BY <3>1, <3>2, <4>1 DEF Encoded, RV!RISCVEncode, RV!Rejected, Rejected
      <4>2. CASE job.isa = "arm"
        BY <3>1, <3>2, <4>2 DEF Encoded, ARM!ARMEncode, ARM!Rejected, Rejected
      <4>3. CASE job.isa = "x86"
        BY <3>1, <3>2, <4>3 DEF Encoded, X86!X86Encode, X86!Rejected, Rejected
      <4> QED BY <4>1, <4>2, <4>3 DEF Assembled, Loaded, ISAs
    <3> QED BY <1>1, <3>3 DEF RV!Resolves, ARM!Resolves, X86!Resolves, NoLabel, RV!NoLabel,
                              ARM!NoLabel, X86!NoLabel
  <2>3. PICK to \in Nat, from \in Nat, n \in Nat :
           /\ to = layout.labels[i.label] /\ from = pc /\ n = Len(text)
           /\ to < Longest * n /\ from < Longest * n
    BY <2>2, AddressesAreBounded, LayoutType
  <2> HIDE DEF i, pc
  <2>4. CASE job.isa = "riscv"
    <3>1. Part(k) = <<WordAt(image, pc)>>
      BY <1>1, <2>4, WordIsThere DEF pc
    <3>2. Part(k) = RV!RISCVEncode(i, pc, layout.labels)
      BY <1>1, <2>4 DEF Part, Encoded, i, pc
    <3>3. PICK w : w = WordAt(image, pc)
      OBVIOUS
    <3>4. Reaches(RV!RISCVDecode(w), i, pc, layout.labels)
      BY <2>1, <2>4, <3>1, <3>2, <3>3, RISCVReaches
    <3>5. Decoded(job.isa, image, pc) = RV!RISCVDecode(w)
      BY <2>4, <3>3 DEF Decoded
    <3> QED BY <3>4, <3>5 DEF i, pc
  <2>5. CASE job.isa = "arm"
    <3>1. Part(k) = <<WordAt(image, pc)>>
      BY <1>1, <2>5, WordIsThere DEF pc
    <3>2. Part(k) = ARM!ARMEncode(i, pc, layout.labels)
      BY <1>1, <2>5 DEF Part, Encoded, i, pc
    <3>3. PICK w : w = WordAt(image, pc)
      OBVIOUS
    <3>4. Near(to - from)
      <4>1. n <= 2^18 /\ Longest = 4
        BY <2>3, <2>5 DEF Spanned, Longest
      <4>2. to < 4 * 2^18 /\ from < 4 * 2^18
        BY SMT, <2>3, <4>1, Powers
      <4> QED BY SMT, <4>2, Powers DEF Near
    <3>5. Near(layout.labels[i.label] - pc)
      BY <2>3, <3>4
    <3>6. Reaches(ARM!ARMDecode(w), i, pc, layout.labels)
      BY <2>1, <2>5, <3>1, <3>2, <3>3, <3>5, ARMReaches
    <3>7. Decoded(job.isa, image, pc) = ARM!ARMDecode(w)
      BY <2>5, <3>3 DEF Decoded
    <3> QED BY <3>6, <3>7 DEF i, pc
  <2>6. CASE job.isa = "x86"
    <3>1. PICK long \in BOOLEAN : long = (k \in wide)
      <4>1. (k \in wide) = TRUE \/ (k \in wide) = FALSE
        OBVIOUS
      <4> QED BY <4>1
    <3>2. Part(k) = X86!X86Encode(i, pc, layout.labels, long)
      BY <1>1, <2>6, <3>1 DEF Part, Encoded, i, pc
    <3>3. PICK b : b = BytesAt(image, pc)
      OBVIOUS
    <3>4. StartsWith(b, Part(k))
      BY <2>6, <3>3, BytesAreThere DEF pc
    <3>5. Part(k) # Rejected
      BY <1>1, PartsAreWritten
    <3>6. Int32(to - from - 5) /\ Int32(to - from - 6)
      <4>1. n <= 2^28 /\ Longest = 6
        BY <2>3, <2>6 DEF Spanned, Longest
      <4>2. to < 6 * 2^28 /\ from < 6 * 2^28
        BY SMT, <2>3, <4>1, Powers
      <4> QED BY SMT, <4>2, Powers DEF Int32
    <3>7. Int32(layout.labels[i.label] - pc - 5) /\ Int32(layout.labels[i.label] - pc - 6)
      BY <2>3, <3>6, Zenon
    <3>8. Reaches(X86!X86Decode(b), i, pc, layout.labels)
      BY <2>1, <2>6, <3>2, <3>4, <3>5, <3>7, X86Reaches
    <3>9. Decoded(job.isa, image, pc) = X86!X86Decode(b)
      BY <2>6, <3>3 DEF Decoded
    <3> QED BY <3>8, <3>9 DEF i, pc
  <2> QED BY <2>4, <2>5, <2>6 DEF Assembled, Loaded, ISAs
<1> QED BY <1>1, Zenon DEF BranchesReachTheirLabels, Reaches

\* In every text that displacements can span, the displacement the decoder reads at a
\* branch leads to the label the branch was written with, in every displacement format
\* of the three instruction sets: BranchesReachTheirLabels.
THEOREM BranchesAreRight ==
    AssemblerSpec => [](Spanned => BranchesReachTheirLabels)
<1> QED BY LoadedIsKept, RelaxedIsKept, WrittenIsKept, BranchesReach, PTL
=============================================================================
