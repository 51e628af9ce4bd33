---------------------- MODULE ReservationStation_proofs ----------------------
(***************************************************************************)
(* Proofs about ReservationStation: slots and age stamps are a list in issue *)
(* order, for every number of slots.                                         *)
(***************************************************************************)
EXTENDS ReservationStation, TLAPS, FiniteSetTheorems, SequenceTheorems,
        WellFoundedInduction

-----------------------------------------------------------------------------
(* Age stamps are natural numbers.                                          *)

\* A nonempty set of natural numbers has a smallest element.
LEMMA LeastElement ==
    ASSUME NEW T \in SUBSET Nat, T # {}
    PROVE  \E m \in T : \A k \in T : m <= k
<1>1. \E m \in T : \A k \in T : ~(<<k, m>> \in OpToRel(<, Nat))
  BY WFMin, NatLessThanWellFounded
<1>2. \A m, k \in Nat : <<k, m>> \in OpToRel(<, Nat) <=> k < m
  BY DEF OpToRel
<1>3. PICK m \in T : \A k \in T : ~(<<k, m>> \in OpToRel(<, Nat))
  BY <1>1
<1>4. ASSUME NEW k \in T PROVE m <= k
  <2>1. k \in Nat /\ m \in Nat
    OBVIOUS
  <2>2. ~(k < m)
    BY <1>2, <1>3, <2>1
  <2> QED BY <2>1, <2>2
<1> QED BY <1>4

-----------------------------------------------------------------------------
(* Types.                                                                   *)

\* What the result bus can carry.
Bus == Broadcast \cup {NoInput}

LEMMA CaptureType ==
    ASSUME NEW src \in Operand, NEW cdb \in Bus
    PROVE  Capture(src, cdb) \in Operand
BY DEF Capture, Operand, Broadcast, Bus

LEMMA SnoopType ==
    ASSUME NEW e \in Pending, NEW cdb \in Bus
    PROVE  /\ Snoop(e, cdb) \in Pending
           /\ Snoop(e, cdb).rob_tag = e.rob_tag
<1>1. e.src1 \in Operand /\ e.src2 \in Operand
  BY DEF Pending
<1>2. Capture(e.src1, cdb) \in Operand /\ Capture(e.src2, cdb) \in Operand
  BY <1>1, CaptureType
<1> QED BY <1>2 DEF Snoop, Pending

\* Of a set of slots there is a first.
LEMMA FirstIs ==
    ASSUME NEW S \in SUBSET Slot, S # {}
    PROVE  FirstOf(S) \in S
<1>1. S \in SUBSET Nat
  BY DEF Slot
<1>2. \E s \in S : \A t \in S : s <= t
  BY <1>1, LeastElement
<1> QED BY <1>2 DEF FirstOf

\* The entry evaluate() selects is the oldest of those that can run.
LEMMA SelectedIs ==
    ASSUME TypeOK, NEW store_mask, NEW rob_head, NEW sel, sel = Selected(store_mask, rob_head)
    PROVE  LET at == RunnableSlots(store_mask, rob_head)
           IN /\ at = {} => sel = -1
              /\ at # {} => sel \in at /\ \A t \in at : age[sel] <= age[t]
              /\ sel = -1 => at = {}
<1> DEFINE at == RunnableSlots(store_mask, rob_head)
           old == {s \in at : \A t \in at : age[s] <= age[t]}
<1>1. at \in SUBSET Slot
  BY DEF RunnableSlots, Occupied
<1>2. ASSUME at # {} PROVE sel \in old
  <2>1. {age[s] : s \in at} \in SUBSET Nat
    BY <1>1, RsAssumption DEF TypeOK
  <2> DEFINE ages == {age[s] : s \in at}
  <2>2. PICK m \in ages : \A k \in ages : m <= k
    <3>1. ages # {}
      BY <1>2
    <3> HIDE DEF ages
    <3> QED BY <2>1, <3>1, LeastElement DEF ages
  <2>3. old # {} /\ old \in SUBSET Slot
    BY <1>1, <2>2
  <2>4. sel = FirstOf(old)
    BY <1>2 DEF Selected
  <2> HIDE DEF old
  <2> QED BY <2>3, <2>4, FirstIs
<1>3. at = {} => sel = -1
  BY DEF Selected
<1>4. sel \in Slot => sel # -1
  BY RsAssumption DEF Slot
<1> QED BY <1>1, <1>2, <1>3, <1>4

LEMMA BusType ==
    ASSUME TypeOK, NEW sel, sel = -1 \/ sel \in Occupied, NEW cdb \in Broadcasts(sel)
    PROVE  cdb \in Bus
<1>1. CASE sel = -1
  BY <1>1 DEF Broadcasts, Bus
<1>2. CASE sel # -1
  <2>1. slots[sel] \in Pending
    BY <1>2 DEF Occupied, TypeOK
  <2> QED BY <1>2, <2>1 DEF Broadcasts, Bus, Broadcast, Pending
<1> QED BY <1>1, <1>2

-----------------------------------------------------------------------------
(* The order of a set of stamped slots.                                     *)

Older(S, a, s) == {t \in S : a[t] < a[s]}
SlotAt(S, a, i) == CHOOSE s \in S : Cardinality(Older(S, a, s)) = i - 1
Rank(S, a, s)  == Cardinality(Older(S, a, s)) + 1
OrderOf(content, S, a) == [i \in 1..Cardinality(S) |-> content[SlotAt(S, a, i)]]

\* No two slots of the set have the same stamp.
Distinct(S, a) == \A s, t \in S : a[s] = a[t] => s = t

LEMMA SlotsFinite ==
    ASSUME NEW S \in SUBSET Slot
    PROVE  /\ IsFiniteSet(S) /\ Cardinality(S) \in Nat /\ Cardinality(S) <= RS_SIZE
           /\ Cardinality(S) = RS_SIZE <=> S = Slot
<1>1. RS_SIZE \in Nat \ {0}
  BY RsAssumption
<1>2. IsFiniteSet(Slot) /\ Cardinality(Slot) = RS_SIZE
  BY <1>1, FS_Interval DEF Slot
<1>3. IsFiniteSet(S) /\ Cardinality(S) <= Cardinality(Slot) /\ (Cardinality(S) = Cardinality(Slot) => S = Slot)
  BY <1>2, FS_Subset
<1> QED BY <1>2, <1>3, FS_CardinalityType

\* Ranks number the slots of a set without gap, in the order of their stamps.
LEMMA RanksOrder ==
    ASSUME NEW S \in SUBSET Slot, NEW a \in [Slot -> Nat], NEW s \in S, NEW t \in S, a[s] < a[t]
    PROVE  Rank(S, a, s) < Rank(S, a, t)
<1>1. Older(S, a, s) \in SUBSET Older(S, a, t) /\ s \in Older(S, a, t) /\ s \notin Older(S, a, s)
  BY DEF Older
<1>2. Older(S, a, t) \in SUBSET Slot /\ Older(S, a, s) \in SUBSET Slot
  BY DEF Older
<1>3. IsFiniteSet(Older(S, a, t)) /\ Cardinality(Older(S, a, t)) \in Nat /\ Cardinality(Older(S, a, s)) \in Nat
  BY <1>2, SlotsFinite
<1>4. Cardinality(Older(S, a, s)) <= Cardinality(Older(S, a, t))
      /\ Cardinality(Older(S, a, s)) # Cardinality(Older(S, a, t))
  BY <1>1, <1>3, FS_Subset
<1> QED BY <1>3, <1>4 DEF Rank

LEMMA RankType ==
    ASSUME NEW S \in SUBSET Slot, NEW a \in [Slot -> Nat], NEW s \in S
    PROVE  Rank(S, a, s) \in 1..Cardinality(S)
<1>1. Older(S, a, s) \in SUBSET S /\ s \notin Older(S, a, s) /\ Older(S, a, s) # S
  BY DEF Older
<1>2. IsFiniteSet(S) /\ Cardinality(S) \in Nat /\ Cardinality(Older(S, a, s)) \in Nat
  BY <1>1, SlotsFinite
<1>3. Cardinality(Older(S, a, s)) <= Cardinality(S) /\ Cardinality(Older(S, a, s)) # Cardinality(S)
  BY <1>1, <1>2, FS_Subset
<1> QED BY <1>2, <1>3 DEF Rank

LEMMA Ranks ==
    ASSUME NEW S \in SUBSET Slot, NEW a \in [Slot -> Nat], Distinct(S, a)
    PROVE  /\ \A s, t \in S : Rank(S, a, s) < Rank(S, a, t) <=> a[s] < a[t]
           /\ \A s \in S : SlotAt(S, a, Rank(S, a, s)) = s
           /\ \A i \in 1..Cardinality(S) : SlotAt(S, a, i) \in S /\ Rank(S, a, SlotAt(S, a, i)) = i
<1>1. IsFiniteSet(S) /\ Cardinality(S) \in Nat
  BY SlotsFinite
<1>2. \A s \in S : a[s] \in Nat /\ Rank(S, a, s) \in 1..Cardinality(S)
  BY RankType
<1>3. \A s, t \in S : Rank(S, a, s) < Rank(S, a, t) <=> a[s] < a[t]
  <2> SUFFICES ASSUME NEW s \in S, NEW t \in S
               PROVE  Rank(S, a, s) < Rank(S, a, t) <=> a[s] < a[t]
    OBVIOUS
  <2>1. a[s] < a[t] => Rank(S, a, s) < Rank(S, a, t)
    BY RanksOrder
  <2>2. a[t] < a[s] => Rank(S, a, t) < Rank(S, a, s)
    BY RanksOrder
  <2>3. a[s] = a[t] => s = t
    BY DEF Distinct
  <2> QED BY <1>1, <1>2, <2>1, <2>2, <2>3
<1>4. \A s, t \in S : Rank(S, a, s) = Rank(S, a, t) => s = t
  BY <1>1, <1>2, <1>3 DEF Distinct
<1> DEFINE f == [s \in S |-> Rank(S, a, s)]
<1>5. f \in Injection(S, 1..Cardinality(S))
  BY <1>2, <1>4 DEF Injection, IsInjective
<1>6. f \in Surjection(S, 1..Cardinality(S))
  <2>1. IsFiniteSet(1..Cardinality(S)) /\ Cardinality(1..Cardinality(S)) = Cardinality(S)
    BY <1>1, FS_Interval
  <2> HIDE DEF f
  <2> QED BY <1>5, <2>1, FS_Injection
<1>7. \A i \in 1..Cardinality(S) : \E s \in S : Rank(S, a, s) = i
  BY <1>6 DEF Surjection
<1>8. ASSUME NEW s \in S, NEW i \in 1..Cardinality(S)
      PROVE  Cardinality(Older(S, a, s)) = i - 1 <=> Rank(S, a, s) = i
  <2>1. Older(S, a, s) \in SUBSET Slot
    BY DEF Older
  <2>2. Cardinality(Older(S, a, s)) \in Nat
    BY <2>1, SlotsFinite
  <2> QED BY <1>1, <2>2 DEF Rank
<1>9. \A i \in 1..Cardinality(S) : SlotAt(S, a, i) \in S /\ Rank(S, a, SlotAt(S, a, i)) = i
  BY <1>7, <1>8 DEF SlotAt
<1>10. \A s \in S : SlotAt(S, a, Rank(S, a, s)) = s
  BY <1>2, <1>4, <1>9
<1> QED BY <1>3, <1>9, <1>10

\* A slot that leaves moves the younger ones up by one.
LEMMA RankWithout ==
    ASSUME NEW S \in SUBSET Slot, NEW a \in [Slot -> Nat], NEW x \in S, NEW s \in S \ {x}
    PROVE  Rank(S \ {x}, a, s) = IF a[x] < a[s] THEN Rank(S, a, s) - 1 ELSE Rank(S, a, s)
<1>1. Older(S, a, s) \in SUBSET Slot
  BY DEF Older
<1>2. IsFiniteSet(Older(S, a, s)) /\ Cardinality(Older(S, a, s)) \in Nat
  BY <1>1, SlotsFinite
<1>3. CASE a[x] < a[s]
  <2>1. Older(S \ {x}, a, s) = Older(S, a, s) \ {x} /\ x \in Older(S, a, s)
    BY <1>3 DEF Older
  <2>2. Cardinality(Older(S \ {x}, a, s)) = Cardinality(Older(S, a, s)) - 1
    <3> DEFINE O == Older(S, a, s)
    <3>1. Cardinality(O \ {x}) = Cardinality(O) - 1
      <4>1. IsFiniteSet(O) /\ x \in O
        BY <1>2, <2>1
      <4> HIDE DEF O
      <4> QED BY <4>1, FS_RemoveElement
    <3> QED BY <2>1, <3>1
  <2>3. Rank(S \ {x}, a, s) = Rank(S, a, s) - 1
    BY <1>2, <2>2 DEF Rank
  <2> QED BY <1>3, <2>3
<1>4. CASE ~(a[x] < a[s])
  <2>1. Older(S \ {x}, a, s) = Older(S, a, s)
    BY <1>4 DEF Older
  <2> QED BY <1>4, <2>1 DEF Rank
<1> QED BY <1>3, <1>4

\* Taking a slot out of the order takes its place out of the list.
LEMMA OrderWithout ==
    ASSUME NEW S \in SUBSET Slot, NEW a \in [Slot -> Nat], Distinct(S, a), NEW x \in S,
           NEW j \in 1..Cardinality(S \ {x})
    PROVE  SlotAt(S \ {x}, a, j) = SlotAt(S, a, IF j < Rank(S, a, x) THEN j ELSE j + 1)
<1> DEFINE T == S \ {x}
           s == SlotAt(T, a, j)
<1>1. T \in SUBSET Slot /\ Distinct(T, a)
  BY DEF Distinct
<1>2. s \in T /\ Rank(T, a, s) = j
  BY <1>1, Ranks
<1>3. s \in S /\ s # x /\ a[s] \in Nat /\ a[x] \in Nat /\ a[s] # a[x]
  BY <1>2 DEF Distinct
<1>4. Rank(S, a, s) < Rank(S, a, x) <=> a[s] < a[x]
  BY <1>3, Ranks
<1>5. Rank(S, a, s) \in Int /\ Rank(S, a, x) \in Int
  <2>1. Cardinality(S) \in Nat
    BY SlotsFinite
  <2> QED BY <1>3, <2>1, RankType
<1>6. j = IF a[x] < a[s] THEN Rank(S, a, s) - 1 ELSE Rank(S, a, s)
  <2> HIDE DEF s
  <2> QED BY <1>2, RankWithout
<1>7. SlotAt(S, a, Rank(S, a, s)) = s
  BY <1>3, Ranks
<1>8. a[x] < a[s] \/ a[s] < a[x]
  BY <1>3
<1> HIDE DEF s
<1>9. Rank(S, a, s) # Rank(S, a, x)
  BY <1>3, Ranks
<1>10. Rank(S, a, s) = IF j < Rank(S, a, x) THEN j ELSE j + 1
  BY <1>3, <1>4, <1>5, <1>6, <1>8, <1>9
<1> QED BY <1>7, <1>10 DEF s

\* Only the stamps of the set matter.
LEMMA OrderKept ==
    ASSUME NEW S, NEW a, NEW b, \A s \in S : b[s] = a[s], NEW i
    PROVE  /\ \A s \in S : Rank(S, b, s) = Rank(S, a, s)
           /\ SlotAt(S, b, i) = SlotAt(S, a, i)
<1>1. \A s \in S : Older(S, b, s) = Older(S, a, s)
  BY DEF Older
<1> QED BY <1>1 DEF Rank, SlotAt

\* A slot stamped later than all others comes last.
LEMMA OrderWith ==
    ASSUME NEW S \in SUBSET Slot, NEW a \in [Slot -> Nat], Distinct(S, a),
           NEW y \in Slot, y \notin S, \A s \in S : a[s] < a[y]
    PROVE  /\ Distinct(S \cup {y}, a)
           /\ Cardinality(S \cup {y}) = Cardinality(S) + 1
           /\ SlotAt(S \cup {y}, a, Cardinality(S) + 1) = y
           /\ \A i \in 1..Cardinality(S) : SlotAt(S \cup {y}, a, i) = SlotAt(S, a, i)
<1> DEFINE T == S \cup {y}
<1>1. T \in SUBSET Slot /\ \A s \in T : a[s] \in Nat
  OBVIOUS
<1>2. Distinct(T, a)
  BY <1>1 DEF Distinct
<1>3. IsFiniteSet(S) /\ Cardinality(S) \in Nat /\ Cardinality(T) = Cardinality(S) + 1
  BY SlotsFinite, FS_AddElement
<1>4. Rank(T, a, y) = Cardinality(S) + 1
  <2>1. Older(T, a, y) = S
    BY <1>1 DEF Older
  <2> QED BY <2>1 DEF Rank
<1>5. \A s \in S : Rank(T, a, s) = Rank(S, a, s)
  <2>1. \A s \in S : Older(T, a, s) = Older(S, a, s)
    BY <1>1 DEF Older
  <2> QED BY <2>1 DEF Rank
<1>6. SlotAt(T, a, Cardinality(S) + 1) = y
  <2>1. y \in T
    OBVIOUS
  <2> HIDE DEF T
  <2> QED BY <1>1, <1>2, <1>4, <2>1, Ranks
<1>7. ASSUME NEW i \in 1..Cardinality(S) PROVE SlotAt(T, a, i) = SlotAt(S, a, i)
  <2>1. PICK s \in S : s = SlotAt(S, a, i) /\ Rank(S, a, s) = i
    BY Ranks
  <2>2. s \in T /\ Rank(T, a, s) = i
    BY <1>5, <2>1
  <2> HIDE DEF T
  <2> QED BY <1>1, <1>2, <2>1, <2>2, Ranks
<1> QED BY <1>2, <1>3, <1>6, <1>7

-----------------------------------------------------------------------------
(* The edge.                                                                *)

\* The occupied slots carry different stamps, all older than the next.
StampInv == Distinct(Occupied, age) /\ \A s \in Occupied : age[s] < age_counter
Inv == TypeOK /\ StampInv

LEMMA OrderIs == IssueOrder = OrderOf(slots, Occupied, age)
BY DEF IssueOrder, OrderOf, SlotAt, Older, OlderThan

\* The list and the slots are the same instructions.
LEMMA OrderType ==
    ASSUME Inv
    PROVE  /\ IssueOrder \in Seq(Pending) /\ DOMAIN IssueOrder = 1..Cardinality(Occupied)
           /\ Len(IssueOrder) = Cardinality(Occupied) /\ Len(IssueOrder) \in Nat
           /\ \A s \in Occupied : /\ Rank(Occupied, age, s) \in DOMAIN IssueOrder
                                  /\ IssueOrder[Rank(Occupied, age, s)] = slots[s]
           /\ \A i \in DOMAIN IssueOrder :
                 SlotAt(Occupied, age, i) \in Occupied /\ Rank(Occupied, age, SlotAt(Occupied, age, i)) = i
<1>1. /\ Occupied \in SUBSET Slot /\ age \in [Slot -> Nat] /\ Distinct(Occupied, age)
      /\ \A s \in Occupied : slots[s] \in Pending
  BY RsAssumption DEF Inv, TypeOK, StampInv, Occupied
<1>2. Cardinality(Occupied) \in Nat
  BY <1>1, SlotsFinite
<1>3. \A i \in 1..Cardinality(Occupied) :
          SlotAt(Occupied, age, i) \in Occupied /\ Rank(Occupied, age, SlotAt(Occupied, age, i)) = i
  BY <1>1, Ranks
<1>4. IssueOrder \in Seq(Pending) /\ DOMAIN IssueOrder = 1..Cardinality(Occupied)
      /\ Len(IssueOrder) = Cardinality(Occupied)
  <2>1. IssueOrder \in [1..Cardinality(Occupied) -> Pending]
    BY <1>1, <1>3, OrderIs DEF OrderOf
  <2> QED BY <1>2, <2>1
<1>5. ASSUME NEW s \in Occupied
      PROVE  Rank(Occupied, age, s) \in DOMAIN IssueOrder /\ IssueOrder[Rank(Occupied, age, s)] = slots[s]
  <2>1. Rank(Occupied, age, s) \in 1..Cardinality(Occupied) /\ SlotAt(Occupied, age, Rank(Occupied, age, s)) = s
    BY <1>1, RankType, Ranks
  <2> QED BY <1>4, <2>1, OrderIs DEF OrderOf
<1> QED BY <1>2, <1>3, <1>4, <1>5

\* Both select the same instruction.
LEMMA SelectedRefines ==
    ASSUME Inv, NEW store_mask, NEW rob_head,
           NEW sel, sel = Selected(store_mask, rob_head)
    PROVE  /\ sel = -1 \/ sel \in Occupied
           /\ Abstract!Selected(store_mask, rob_head)
                = IF sel = -1 THEN 0 ELSE Rank(Occupied, age, sel)
           /\ Abstract!Broadcasts(Abstract!Selected(store_mask, rob_head)) = Broadcasts(sel)
<1> DEFINE at == RunnableSlots(store_mask, rob_head)
           places == Abstract!RunnableAt(store_mask, rob_head)
<1>1. /\ at = {} => sel = -1
      /\ at # {} => sel \in at /\ \A t \in at : age[sel] <= age[t]
      /\ sel = -1 => at = {}
  BY SelectedIs DEF Inv
<1>2. /\ Occupied \in SUBSET Slot /\ age \in [Slot -> Nat] /\ Distinct(Occupied, age)
      /\ at \subseteq Occupied
  BY RsAssumption DEF Inv, TypeOK, StampInv, Occupied, RunnableSlots
<1>3. \A s \in Occupied : s \in at <=> Rank(Occupied, age, s) \in places
  BY OrderType DEF RunnableSlots, Abstract!RunnableAt, Runnable, Abstract!Runnable,
     OlderStorePending, Abstract!OlderStorePending
<1>4. \A i \in places : \E s \in at : i = Rank(Occupied, age, s)
  <2> SUFFICES ASSUME NEW i \in places PROVE \E s \in at : i = Rank(Occupied, age, s)
    OBVIOUS
  <2>1. i \in DOMAIN IssueOrder
    BY DEF Abstract!RunnableAt
  <2>2. PICK s \in Occupied : s = SlotAt(Occupied, age, i) /\ Rank(Occupied, age, s) = i
    BY <2>1, OrderType
  <2> QED BY <1>3, <2>2
<1>5. CASE sel = -1
  <2>1. places = {}
    BY <1>1, <1>4, <1>5
  <2>2. Abstract!Selected(store_mask, rob_head) = 0
    BY <2>1 DEF Abstract!Selected
  <2> QED BY <1>5, <2>2 DEF Broadcasts, Abstract!Broadcasts
<1>6. CASE sel # -1
  <2> DEFINE r == Rank(Occupied, age, sel)
  <2>1. sel \in at /\ sel \in Occupied /\ r \in places /\ IssueOrder[r] = slots[sel]
    BY <1>1, <1>2, <1>3, <1>6, OrderType
  <2>2. \A s \in Occupied : Rank(Occupied, age, s) \in Nat \ {0} /\ age[s] \in Nat
    <3>1. Cardinality(Occupied) \in Nat
      BY <1>2, SlotsFinite
    <3> QED BY <1>2, <3>1, RankType
  <2>3. ASSUME NEW i \in places PROVE r <= i
    <3>1. PICK s \in at : i = Rank(Occupied, age, s)
      BY <1>4
    <3>2. s \in Occupied /\ age[sel] <= age[s]
      BY <1>1, <1>2, <1>6, <3>1
    <3>3. Rank(Occupied, age, s) < Rank(Occupied, age, sel) <=> age[s] < age[sel]
      BY <1>2, <2>1, <3>2, Ranks
    <3> QED BY <2>1, <2>2, <3>1, <3>2, <3>3
  <2>4. places \subseteq Nat
    BY <1>2, <1>4, <2>2
  <2>5. (CHOOSE i \in places : \A j \in places : i <= j) = r
    <3> HIDE DEF places, r
    <3>1. \A i \in places : (\A j \in places : i <= j) => i = r
      BY <2>1, <2>3, <2>4
    <3> QED BY <2>1, <2>3, <3>1
  <2>6. Abstract!Selected(store_mask, rob_head) = r
    BY <2>1, <2>5 DEF Abstract!Selected
  <2>7. r # 0
    BY <2>1, <2>2
  <2> HIDE DEF r
  <2>8. Abstract!Broadcasts(r) = Broadcasts(sel)
    BY <1>6, <2>1, <2>7 DEF Broadcasts, Abstract!Broadcasts
  <2> QED BY <1>6, <2>1, <2>6, <2>8 DEF r
<1> QED BY <1>5, <1>6

LEMMA SequenceIs ==
    ASSUME NEW T, NEW n \in Nat, NEW f \in [1..n -> T]
    PROVE  f \in Seq(T) /\ Len(f) = n
OBVIOUS

LEMMA AppendIs ==
    ASSUME NEW T, NEW f \in Seq(T), NEW e \in T, NEW g, g = [j \in 1..(Len(f) + 1) |-> g[j]],
           \A j \in 1..Len(f) : g[j] = f[j], g[Len(f) + 1] = e
    PROVE  g = Append(f, e)
<1>1. PICK n \in Nat : n = Len(f)
  BY LenProperties
<1>2. \A j \in 1..(n + 1) : j \in 1..n \/ j = n + 1
  OBVIOUS
<1>3. \A j \in 1..n : f[j] \in T
  BY <1>1, ElementOfSeq
<1>4. \A j \in 1..(n + 1) : g[j] \in T
  BY <1>1, <1>2, <1>3
<1>5. g \in [1..(n + 1) -> T]
  BY <1>1, <1>4
<1>6. g \in Seq(T) /\ Len(g) = n + 1
  BY <1>5, SequenceIs
<1>7. /\ Append(f, e) \in Seq(T) /\ Len(Append(f, e)) = n + 1
      /\ \A j \in 1..n : Append(f, e)[j] = f[j]
      /\ Append(f, e)[n + 1] = e
  BY <1>1, AppendProperties
<1>8. \A j \in 1..(n + 1) : g[j] = Append(f, e)[j]
  BY <1>1, <1>2, <1>7
<1> QED BY <1>6, <1>7, <1>8, SeqEqual

\* The entries that stay, and the slots they are in.
KeptIn(sel, cdb) ==
    [s \in Slot |-> IF s = sel \/ slots[s] = Free THEN Free ELSE Snoop(slots[s], cdb)]
AgesIn(sel) == [s \in Slot |-> IF s = sel THEN 0 ELSE age[s]]

\* What Advance does of the list: the executed instruction leaves it and the
\* others see the broadcast.
KeptList(i, cdb) ==
    LET kept == IF i = 0 THEN IssueOrder ELSE Abstract!Without(i)
    IN [j \in DOMAIN kept |-> Abstract!Snoop(kept[j], cdb)]

\* The slots in S, with these contents and stamps, are that list.
Lists(S, content, stamps, list) ==
    /\ S \in SUBSET Slot
    /\ content \in [Slot -> Pending \cup {Free}]
    /\ \A s \in Slot : content[s] = Free <=> s \notin S
    /\ list \in Seq(Pending) /\ list = OrderOf(content, S, stamps) /\ Len(list) = Cardinality(S)
    /\ stamps \in [Slot -> Nat] /\ Distinct(S, stamps) /\ \A s \in S : stamps[s] < age_counter

LEMMA KeptRefines ==
    ASSUME Inv, NEW sel, sel = -1 \/ sel \in Occupied, NEW cdb \in Bus, NEW S, S = Occupied \ {sel},
           NEW i, i = IF sel = -1 THEN 0 ELSE Rank(Occupied, age, sel)
    PROVE  Lists(S, KeptIn(sel, cdb), AgesIn(sel), KeptList(i, cdb))
<1>1. /\ Occupied \in SUBSET Slot /\ age \in [Slot -> Nat] /\ Distinct(Occupied, age)
      /\ \A s \in Occupied : slots[s] \in Pending /\ age[s] < age_counter
      /\ \A s \in Slot : s \in Occupied <=> slots[s] # Free
  BY RsAssumption DEF Inv, TypeOK, StampInv, Occupied
<1>2. S \in SUBSET Slot /\ (sel = -1 => S = Occupied) /\ \A s \in S : s # sel /\ s \in Occupied
  <2>1. -1 \notin Slot
    BY RsAssumption DEF Slot
  <2> QED BY <1>1, <2>1
<1>3. \A s \in S : KeptIn(sel, cdb)[s] = Snoop(slots[s], cdb) /\ Snoop(slots[s], cdb) \in Pending
  BY <1>1, <1>2, SnoopType DEF KeptIn
<1>4. \A s \in Slot : s \notin S => KeptIn(sel, cdb)[s] = Free
  BY <1>1 DEF KeptIn
<1>5. KeptIn(sel, cdb) \in [Slot -> Pending \cup {Free}]
  <2>1. \A s \in Slot : KeptIn(sel, cdb)[s] \in Pending \cup {Free}
    BY <1>3, <1>4
  <2>2. KeptIn(sel, cdb) = [s \in Slot |-> KeptIn(sel, cdb)[s]]
    BY DEF KeptIn
  <2> QED BY <2>1, <2>2
<1>6. \A s \in Slot : KeptIn(sel, cdb)[s] = Free <=> s \notin S
  BY <1>3, <1>4, RsAssumption
<1>7. /\ AgesIn(sel) \in [Slot -> Nat] /\ \A s \in S : AgesIn(sel)[s] = age[s]
      /\ Distinct(S, age) /\ Distinct(S, AgesIn(sel))
      /\ \A s \in S : AgesIn(sel)[s] < age_counter
  BY <1>1, <1>2 DEF AgesIn, Distinct
<1>8. Cardinality(S) \in Nat /\ Cardinality(Occupied) \in Nat
  BY <1>1, <1>2, SlotsFinite
<1>9. \A e : Abstract!Snoop(e, cdb) = Snoop(e, cdb)
  BY DEF Abstract!Snoop, Snoop, Abstract!Capture, Capture
<1>10. /\ DOMAIN KeptList(i, cdb) = 1..Cardinality(S)
       /\ \A j \in 1..Cardinality(S) : KeptList(i, cdb)[j] = Snoop(slots[SlotAt(S, age, j)], cdb)
       /\ KeptList(i, cdb) = [j \in 1..Cardinality(S) |-> KeptList(i, cdb)[j]]
  <2>1. /\ DOMAIN IssueOrder = 1..Cardinality(Occupied) /\ Len(IssueOrder) = Cardinality(Occupied)
        /\ \A j \in 1..Cardinality(Occupied) : IssueOrder[j] = slots[SlotAt(Occupied, age, j)]
    BY OrderIs, OrderType DEF OrderOf
  <2>2. CASE sel = -1
    BY <1>2, <1>9, <2>1, <2>2 DEF KeptList
  <2>3. CASE sel # -1
    <3>1. sel \in Occupied /\ i = Rank(Occupied, age, sel) /\ i \in 1..Cardinality(Occupied)
      BY <1>1, <2>3, RankType
    <3>2. Cardinality(S) = Cardinality(Occupied) - 1
      BY <1>1, <3>1, SlotsFinite, FS_RemoveElement
    <3>3. i # 0 /\ KeptList(i, cdb) = [j \in DOMAIN Abstract!Without(i) |-> Snoop(Abstract!Without(i)[j], cdb)]
      BY <1>9, <3>1 DEF KeptList
    <3>4. /\ DOMAIN Abstract!Without(i) = 1..Cardinality(S)
          /\ \A j \in 1..Cardinality(S) : Abstract!Without(i)[j] = IssueOrder[IF j < i THEN j ELSE j + 1]
      BY <2>1, <3>2 DEF Abstract!Without
    <3>5. ASSUME NEW j \in 1..Cardinality(S)
          PROVE  IssueOrder[IF j < i THEN j ELSE j + 1] = slots[SlotAt(S, age, j)]
      <4>1. SlotAt(S, age, j) = SlotAt(Occupied, age, IF j < i THEN j ELSE j + 1)
        BY <1>1, <3>1, OrderWithout
      <4>2. (IF j < i THEN j ELSE j + 1) \in 1..Cardinality(Occupied)
        BY <1>8, <3>1, <3>2
      <4> QED BY <2>1, <4>1, <4>2
    <3>6. PICK list : list = Abstract!Without(i)
      OBVIOUS
    <3>7. KeptList(i, cdb) = [j \in 1..Cardinality(S) |-> Snoop(list[j], cdb)]
      BY <3>3, <3>4, <3>6
    <3>8. \A j \in 1..Cardinality(S) : list[j] = slots[SlotAt(S, age, j)]
      BY <3>4, <3>5, <3>6
    <3> QED BY <3>7, <3>8
  <2> QED BY <2>2, <2>3
<1>11. ASSUME NEW j \in 1..Cardinality(S)
       PROVE  /\ KeptList(i, cdb)[j] = KeptIn(sel, cdb)[SlotAt(S, AgesIn(sel), j)]
              /\ KeptList(i, cdb)[j] \in Pending
  <2>1. SlotAt(S, AgesIn(sel), j) = SlotAt(S, age, j)
    BY <1>7, OrderKept
  <2>2. SlotAt(S, age, j) \in S
    BY <1>1, <1>2, <1>7, Ranks
  <2> QED BY <1>3, <1>10, <2>1, <2>2
<1>12. KeptList(i, cdb) = OrderOf(KeptIn(sel, cdb), S, AgesIn(sel))
  BY <1>10, <1>11 DEF OrderOf
<1>13. KeptList(i, cdb) \in Seq(Pending) /\ Len(KeptList(i, cdb)) = Cardinality(S)
  <2> DEFINE list == KeptList(i, cdb)
  <2>1. PICK n \in Nat : n = Cardinality(S)
    BY <1>8
  <2>2. list \in [1..n -> Pending]
    BY <1>10, <1>11, <2>1
  <2> HIDE DEF list
  <2>3. list \in Seq(Pending) /\ Len(list) = n
    BY <2>2, SequenceIs
  <2> QED BY <2>1, <2>3 DEF list
<1> QED BY <1>2, <1>5, <1>6, <1>7, <1>12, <1>13 DEF Lists

\* Removing, snooping and issuing: the list sees the same, and the stamps stay
\* in order.
LEMMA AdvanceRefines ==
    ASSUME Inv, NEW store_mask, NEW rob_head, NEW issue \in Issues \cup {NoInput},
           NEW sel, sel = Selected(store_mask, rob_head), NEW cdb \in Broadcasts(sel),
           Advance(sel, cdb, issue)
    PROVE  /\ Abstract!Advance(Abstract!Selected(store_mask, rob_head), cdb, issue)
           /\ Inv'
<1> DEFINE S == Occupied \ {sel}
           i == Abstract!Selected(store_mask, rob_head)
           kept == KeptIn(sel, cdb)
           ages == AgesIn(sel)
           room == {s \in Slot : kept[s] = Free}
           into == FirstOf(room)
           list == KeptList(i, cdb)
<1>1. /\ sel = -1 \/ sel \in Occupied
      /\ i = IF sel = -1 THEN 0 ELSE Rank(Occupied, age, sel)
  BY SelectedRefines
<1>2. cdb \in Bus
  BY <1>1, BusType DEF Inv
<1>3. /\ S \in SUBSET Slot /\ kept \in [Slot -> Pending \cup {Free}]
      /\ \A s \in Slot : kept[s] = Free <=> s \notin S
      /\ list \in Seq(Pending) /\ list = OrderOf(kept, S, ages) /\ Len(list) = Cardinality(S)
      /\ ages \in [Slot -> Nat] /\ Distinct(S, ages)
      /\ \A s \in S : ages[s] < age_counter
  <2>1. Lists(S, kept, ages, list)
    BY <1>1, <1>2, KeptRefines, Zenon
  <2> QED BY <2>1 DEF Lists
<1>4. IF issue # NoInput /\ room # {}
      THEN /\ age_counter < MAX_AGE
           /\ slots' = [kept EXCEPT ![into] = Snoop(issue, cdb)]
           /\ age' = [ages EXCEPT ![into] = age_counter]
           /\ age_counter' = age_counter + 1
      ELSE slots' = kept /\ age' = ages /\ age_counter' = age_counter
  BY DEF Advance, KeptIn, AgesIn
<1>5. \A e : Abstract!Snoop(e, cdb) = Snoop(e, cdb)
  BY DEF Abstract!Snoop, Snoop, Abstract!Capture, Capture
<1>6. (issue # NoInput /\ Len(list) < RS_SIZE => IssueOrder' = Append(list, Snoop(issue, cdb)))
      /\ (~(issue # NoInput /\ Len(list) < RS_SIZE) => IssueOrder' = list)
      => Abstract!Advance(i, cdb, issue)
  BY <1>5 DEF Abstract!Advance, KeptList
<1>7. room = Slot \ S /\ (room # {} <=> Cardinality(S) < RS_SIZE)
  <2>1. room = Slot \ S
    BY <1>3
  <2>2. Cardinality(S) \in Nat /\ Cardinality(S) <= RS_SIZE /\ (Cardinality(S) = RS_SIZE <=> S = Slot)
    BY <1>3, SlotsFinite
  <2> QED BY <1>3, <2>1, <2>2, RsAssumption
<1>8. \A s \in Slot : ages[s] \in 0..MAX_AGE
  BY RsAssumption DEF Inv, TypeOK, AgesIn
<1>9. age_counter \in 0..MAX_AGE /\ MAX_AGE \in Nat /\ Free \notin Pending
  BY RsAssumption DEF Inv, TypeOK
<1>10. CASE issue # NoInput /\ room # {}
  <2>1. into \in Slot /\ into \notin S
    <3>1. room \in SUBSET Slot
      OBVIOUS
    <3>2. into \in room
      BY <1>10, <3>1, FirstIs
    <3> QED BY <1>7, <3>2
  <2>2. Snoop(issue, cdb) \in Pending
    BY <1>2, <1>10, IssueAssumption, SnoopType
  <2> HIDE DEF kept, ages, into, list, i, S, room
  <2>3. /\ slots' \in [Slot -> Pending \cup {Free}] /\ age' \in [Slot -> Nat]
        /\ age' \in [Slot -> 0..MAX_AGE]
        /\ age_counter' \in 0..MAX_AGE
        /\ slots'[into] = Snoop(issue, cdb) /\ age'[into] = age_counter
        /\ \A s \in S : slots'[s] = kept[s] /\ age'[s] = ages[s]
        /\ \A s \in Slot : s # into => slots'[s] = kept[s]
    BY <1>3, <1>4, <1>8, <1>9, <1>10, <2>1, <2>2
  <2>4. Occupied' = S \cup {into}
    BY <1>3, <1>9, <2>1, <2>2, <2>3 DEF Occupied
  <2>5. Distinct(S, age')
    BY <1>3, <2>3 DEF Distinct
  <2>6. \A s \in S : age'[s] < age'[into]
    BY <1>3, <2>3
  <2>7. /\ Distinct(S \cup {into}, age')
        /\ Cardinality(S \cup {into}) = Cardinality(S) + 1
        /\ SlotAt(S \cup {into}, age', Cardinality(S) + 1) = into
        /\ \A j \in 1..Cardinality(S) : SlotAt(S \cup {into}, age', j) = SlotAt(S, age', j)
    <3>1. PICK b : b = age'
      OBVIOUS
    <3>2. b \in [Slot -> Nat] /\ Distinct(S, b) /\ \A s \in S : b[s] < b[into]
      BY <2>3, <2>5, <2>6, <3>1
    <3>3. /\ Distinct(S \cup {into}, b)
          /\ Cardinality(S \cup {into}) = Cardinality(S) + 1
          /\ SlotAt(S \cup {into}, b, Cardinality(S) + 1) = into
          /\ \A j \in 1..Cardinality(S) : SlotAt(S \cup {into}, b, j) = SlotAt(S, b, j)
      BY <1>3, <2>1, <3>2, OrderWith
    <3> QED BY <3>1, <3>3
  <2>8. \A j \in 1..Cardinality(S) :
            /\ SlotAt(S, age', j) = SlotAt(S, ages, j) /\ SlotAt(S, ages, j) \in S
    <3>1. PICK b : b = age'
      OBVIOUS
    <3>2. \A s \in S : b[s] = ages[s]
      BY <2>3, <3>1
    <3>3. \A j : SlotAt(S, b, j) = SlotAt(S, ages, j)
      BY <3>2, OrderKept
    <3>4. \A j \in 1..Cardinality(S) : SlotAt(S, ages, j) \in S
      BY <1>3, Ranks
    <3> QED BY <3>1, <3>3, <3>4
  <2>9. IssueOrder' = [j \in 1..(Cardinality(S) + 1) |-> slots'[SlotAt(S \cup {into}, age', j)]]
    <3>1. IssueOrder' = [j \in 1..Cardinality(Occupied') |-> slots'[SlotAt(Occupied', age', j)]]
      BY DEF IssueOrder, SlotAt, Older, OlderThan
    <3> QED BY <2>4, <2>7, <3>1
  <2>10. IssueOrder' = Append(list, Snoop(issue, cdb))
    <3>1. Cardinality(S) \in Nat
      BY <1>3, SlotsFinite
    <3>2. /\ \A j \in 1..Cardinality(S) : slots'[SlotAt(S \cup {into}, age', j)] = list[j]
          /\ slots'[SlotAt(S \cup {into}, age', Cardinality(S) + 1)] = Snoop(issue, cdb)
      BY <1>3, <2>3, <2>7, <2>8 DEF OrderOf
    <3>3. PICK g : g = IssueOrder'
      OBVIOUS
    <3>4. /\ g = [j \in 1..(Len(list) + 1) |-> g[j]] /\ g[Len(list) + 1] = Snoop(issue, cdb)
          /\ \A j \in 1..Len(list) : g[j] = list[j]
      <4>1. Len(list) = Cardinality(S) /\ Cardinality(S) + 1 \in 1..(Cardinality(S) + 1)
            /\ \A j \in 1..Cardinality(S) : j \in 1..(Cardinality(S) + 1)
        BY <1>3, <3>1
      <4> QED BY <2>9, <3>2, <3>3, <4>1
    <3>5. list \in Seq(Pending)
      BY <1>3
    <3>6. g = Append(list, Snoop(issue, cdb))
      BY <2>2, <3>4, <3>5, AppendIs, Zenon
    <3> QED BY <3>3, <3>6
  <2>11. Inv'
    <3>1. \A s \in Occupied' : age'[s] < age_counter'
      BY <1>3, <1>4, <1>9, <1>10, <2>3, <2>4
    <3> QED BY <2>3, <2>4, <2>7, <3>1 DEF Inv, TypeOK, StampInv
  <2> QED BY <1>3, <1>6, <1>7, <1>10, <2>10, <2>11 DEF i
<1>11. CASE ~(issue # NoInput /\ room # {})
  <2>1. slots' = kept /\ age' = ages /\ age_counter' = age_counter
    BY <1>4, <1>11
  <2> HIDE DEF kept, ages, into, list, i, S, room
  <2>2. Occupied' = S
    BY <1>3, <2>1 DEF Occupied
  <2>3. IssueOrder' = list
    <3>1. IssueOrder' = OrderOf(slots', Occupied', age')
      BY DEF IssueOrder, OrderOf, SlotAt, Older, OlderThan
    <3> QED BY <1>3, <2>1, <2>2, <3>1
  <2>4. Inv'
    BY <1>3, <1>8, <1>9, <2>1, <2>2 DEF Inv, TypeOK, StampInv
  <2> QED BY <1>3, <1>6, <1>7, <1>11, <2>3, <2>4 DEF i
<1> QED BY <1>10, <1>11

LEMMA StepRefines == Inv /\ [Next]_vars => Inv' /\ [Abstract!Next]_IssueOrder
<1>1. ASSUME Inv, Flush PROVE Inv' /\ Abstract!Next
  <2>1. Occupied' = {} /\ Cardinality(Occupied') = 0
    BY <1>1, FS_EmptySet DEF Flush, Occupied
  <2>2. IssueOrder' = <<>>
    BY <2>1 DEF IssueOrder
  <2>3. Inv'
    BY <1>1, <2>1, RsAssumption DEF Flush, Inv, TypeOK, StampInv, Distinct
  <2> QED BY <2>2, <2>3 DEF Abstract!Next, Abstract!Flush
<1>2. ASSUME Inv, NEW store_mask \in SUBSET Tag, NEW rob_head \in Tag, NEW issue \in Issues \cup {NoInput},
             NEW cdb \in Broadcasts(Selected(store_mask, rob_head)),
             Advance(Selected(store_mask, rob_head), cdb, issue)
      PROVE  Inv' /\ Abstract!Next
  <2>1. /\ Abstract!Advance(Abstract!Selected(store_mask, rob_head), cdb, issue)
        /\ Inv'
    BY <1>2, AdvanceRefines
  <2>2. cdb \in Abstract!Broadcasts(Abstract!Selected(store_mask, rob_head))
    BY <1>2, SelectedRefines
  <2> QED BY <2>1, <2>2 DEF Abstract!Next, Abstract!Tag, Tag
<1>3. ASSUME Inv, UNCHANGED vars PROVE Inv' /\ IssueOrder' = IssueOrder
  BY <1>3 DEF vars, Inv, TypeOK, StampInv, Distinct, Occupied, IssueOrder, OlderThan
<1> QED BY <1>1, <1>2, <1>3 DEF Next

LEMMA InitRefines == Init => Inv /\ Abstract!Init
<1> SUFFICES ASSUME Init PROVE Inv /\ Abstract!Init
  OBVIOUS
<1>1. Occupied = {} /\ Cardinality(Occupied) = 0
  BY FS_EmptySet DEF Init, Occupied
<1>2. IssueOrder = <<>>
  BY <1>1 DEF IssueOrder
<1> QED BY <1>1, <1>2, RsAssumption DEF Init, Inv, TypeOK, StampInv, Distinct, Abstract!Init

\* Slots hold instructions or nothing, and stamps stay below the bound.
THEOREM TypeCorrect == Spec => []TypeOK
<1>1. Inv => TypeOK
  BY DEF Inv
<1> QED BY <1>1, InitRefines, StepRefines, PTL DEF Spec

\* For every number of slots, filling the first free one and comparing stamps is
\* the same as keeping a list in issue order: the oldest runnable instruction is
\* the one executed, and no broadcast is missed.
THEOREM KeepsIssueOrder == Spec => ImplementsIssueQueue
BY InitRefines, StepRefines, PTL DEF Spec, ImplementsIssueQueue, Abstract!Spec
=============================================================================
