------------------------- MODULE ReservationStation -------------------------
(***************************************************************************)
(* The reservation station as it is coded (src/sim/components/ooo/          *)
(* reservation_station.py): RS_SIZE slots, the first free one is filled, an *)
(* age stamp from a counter tells which entry is oldest.                    *)
(***************************************************************************)
EXTENDS IssueEntry, FiniteSets

CONSTANTS Free,      \* content of a slot that holds no instruction
          MAX_AGE    \* bound on the age counter (a Python int has none)

ASSUME RsAssumption == RS_SIZE \in Nat \ {0} /\ MAX_AGE \in Nat /\ Free \notin Pending

VARIABLES slots, age, age_counter
vars == <<slots, age, age_counter>>

Slot == 0..(RS_SIZE - 1)

TypeOK ==
    /\ slots \in [Slot -> Pending \cup {Free}]
    /\ age \in [Slot -> 0..MAX_AGE]
    /\ age_counter \in 0..MAX_AGE

Init ==
    /\ slots = [s \in Slot |-> Free]
    /\ age = [s \in Slot |-> 0]
    /\ age_counter = 0

Occupied == {s \in Slot : slots[s] # Free}
full     == Occupied = Slot
FirstOf(S) == CHOOSE s \in S : \A t \in S : s <= t

RunnableSlots(store_mask, rob_head) ==
    {s \in Occupied : Runnable(slots[s], store_mask, rob_head)}

\* Mutant: the first runnable slot, whatever its age.
FirstRunnable(store_mask, rob_head) ==
    LET at == RunnableSlots(store_mask, rob_head) IN IF at = {} THEN -1 ELSE FirstOf(at)

\* The slot evaluate() picks: scanning upwards, a strictly smaller age wins.
\* The value -1 stands for None.
Selected(store_mask, rob_head) ==
    LET at == RunnableSlots(store_mask, rob_head)
    IN IF at = {} THEN -1
       ELSE FirstOf({s \in at : \A t \in at : age[s] <= age[t]})

-----------------------------------------------------------------------------
(* The clock edge: remove the selected entry, snoop, issue.                 *)

Flush ==
    /\ slots' = [s \in Slot |-> Free]
    /\ age' = [s \in Slot |-> 0]
    /\ age_counter' = 0

Advance(sel, cdb, issue) ==
    LET kept  == [s \in Slot |-> IF s = sel \/ slots[s] = Free THEN Free
                                 ELSE Snoop(slots[s], cdb)]
        ages  == [s \in Slot |-> IF s = sel THEN 0 ELSE age[s]]
        room  == {s \in Slot : kept[s] = Free}
        into  == FirstOf(room)
    IN IF issue # NoInput /\ room # {}
       THEN /\ age_counter < MAX_AGE
            /\ slots' = [kept EXCEPT ![into] = Snoop(issue, cdb)]
            /\ age' = [ages EXCEPT ![into] = age_counter]
            /\ age_counter' = age_counter + 1
       ELSE /\ slots' = kept
            /\ age' = ages
            /\ UNCHANGED age_counter

\* The CDB is driven by the station's own selection in every preset.
Broadcasts(sel) ==
    IF sel = -1 THEN {NoInput} ELSE {[tag |-> slots[sel].rob_tag, value |-> v] : v \in Values}

Next ==
    \/ Flush
    \/ \E store_mask \in SUBSET Tag, rob_head \in Tag, issue \in Issues \cup {NoInput} :
         LET sel == Selected(store_mask, rob_head)
         IN \E cdb \in Broadcasts(sel) : Advance(sel, cdb, issue)

Spec == Init /\ [][Next]_vars

-----------------------------------------------------------------------------
(* Properties.                                                              *)

\* The occupied slots in the order of their age stamps, without the stamps.
OlderThan(s) == {t \in Occupied : age[t] < age[s]}
IssueOrder ==
    [i \in 1..Cardinality(Occupied) |->
        slots[CHOOSE s \in Occupied : Cardinality(OlderThan(s)) = i - 1]]

Abstract == INSTANCE IssueQueue WITH waiting <- IssueOrder

\* First-free-slot allocation and age stamps behave as one list in issue order:
\* slot reuse never lets a younger instruction pass an older runnable one, and
\* a result broadcast in the cycle an instruction enters is not missed by it.
ImplementsIssueQueue == Abstract!Spec
=============================================================================
