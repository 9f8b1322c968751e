--------------------------- MODULE TimeWheelProofs ---------------------------
(***************************************************************************)
(* Proofs about TimeWheel, for every number of slots, slot duration,       *)
(* capacity, block size and clock; the last section adds what holds on the *)
(* steady clock of MCTimeWheel.                                            *)
(***************************************************************************)
EXTENDS MCTimeWheel, FiniteSetTheorems, TLAPS

-----------------------------------------------------------------------------
(* Division and remainder: the array is indexed modulo its length.          *)

\* The quotient brackets the dividend.
LEMMA DivBounds ==
    ASSUME NEW a \in Nat, NEW d \in Nat \ {0}
    PROVE  /\ a \div d \in Nat
           /\ (a \div d) * d <= a
           /\ a < (a \div d + 1) * d
BY SMT

\* Subtracting k divisors takes k off the quotient.
LEMMA DivShift ==
    ASSUME NEW a \in Nat, NEW d \in Nat \ {0}, NEW k \in Nat, k * d <= a
    PROVE  (a - k * d) \div d = a \div d - k
BY SMTT(20)

\* Quotient and remainder, and the range of the remainder.
LEMMA ModDef ==
    ASSUME NEW a \in Nat, NEW d \in Nat \ {0}
    PROVE  /\ a = (a \div d) * d + (a % d)
           /\ (a % d) \in 0 .. d - 1
BY SMT

\* Two different numbers less than c apart have different remainders: within
\* one rotation no two slots share an array entry.
LEMMA ModDistinct ==
    ASSUME NEW a \in Nat, NEW b \in Nat, NEW c \in Nat \ {0},
           a < b, b - a < c
    PROVE  (a % c) # (b % c)
<1> DEFINE qa == a \div c
           qb == b \div c
<1>1. /\ a = qa * c + (a % c)
      /\ b = qb * c + (b % c)
      /\ qa \in Nat /\ qb \in Nat
    BY ModDef, DivBounds
<1>2. SUFFICES ASSUME (a % c) = (b % c) PROVE FALSE
    OBVIOUS
<1>3. b - a = (qb - qa) * c
    BY <1>1, <1>2, SMT
<1>4. CASE qb <= qa
    BY <1>3, <1>4, <1>1, SMT
<1>5. CASE qb > qa
    BY <1>3, <1>5, <1>1, SMT
<1>6. QED
    BY <1>1, <1>4, <1>5

\* Multiplying keeps the order.
LEMMA TimesMonotone ==
    ASSUME NEW a \in Nat, NEW b \in Nat, NEW d \in Nat, a <= b
    PROVE  a * d \in Nat /\ b * d \in Nat /\ a * d <= b * d
BY SMT

-----------------------------------------------------------------------------
(* Steps and types.                                                        *)

\* A step of the scheduler, whatever is pushed and wherever a block begins: the
\* modules that put the scheduler into a program make it do no more than this.
WheelStep ==
    \/ \E s \in Nat : Push(s)
    \/ \E d \in Int, n \in BlockSizes : BeginDrain(d, n)
    \/ Admit
    \/ StopAdmitting
    \/ FireSlot
    \/ FinishDrain

\* Next is such a step.
LEMMA NextIsWheelStep == [Next]_vars => [WheelStep]_vars
<1>1. 0 .. MaxStart \subseteq Nat /\ Drifts \subseteq Int
    BY BoundAssumption, ClockAssumption
<1>2. QED
    BY <1>1 DEF Next, Drain, AtBound, WheelStep

\* Slots and samples are counted in natural numbers.
LEMMA WheelTypes ==
    ASSUME TypeOK
    PROVE  /\ WheelTime \in Nat
           /\ Horizon \in Nat
           /\ AdmitLimit \in Nat
           /\ TargetIndex \in Nat
           /\ NextIndex \in Nat
           /\ slotIndex <= NextIndex
           /\ Steps \in 0 .. NSlots
<1>1. WheelTime \in Nat /\ Horizon \in Nat
    BY WheelAssumption DEF TypeOK, WheelTime, Horizon
<1>2. AdmitLimit \in Nat
    BY <1>1 DEF AdmitLimit
<1>3. TargetIndex \in Nat
    BY DivBounds, WheelAssumption DEF TypeOK, TargetIndex, SlotOf
<1>4. NextIndex \in Nat /\ slotIndex <= NextIndex
    BY <1>3 DEF TypeOK, NextIndex
<1>5. Steps \in 0 .. NSlots
    BY <1>4, WheelAssumption DEF TypeOK, Steps
<1>6. QED
    BY <1>1, <1>2, <1>3, <1>4, <1>5

\* Every accepted grain has a start_sample.
LEMMA StartIsNat ==
    ASSUME TypeOK, NEW g \in Grains
    PROVE  starts[g] \in Nat
<1>1. starts \in Seq(Nat)
    BY DEF TypeOK
<1>2. QED
    BY <1>1 DEF Grains

\* Any index modulo NSlots is an index of the array.
LEMMA IndexInArray ==
    ASSUME NEW n \in Nat
    PROVE  (n % NSlots) \in SlotIndices
BY ModDef, WheelAssumption DEF SlotIndices

\* Where the wheel would put a grain that is not refused: delta slots ahead,
\* which is the grain's own slot, less than a rotation away, with room left.
LEMMA SchedulePlaces ==
    ASSUME TypeOK, NEW g \in Grains, RejectReason(g) = "none"
    PROVE  /\ SlotDelta(g) \in 0 .. NSlots - 1
           /\ slotIndex + SlotDelta(g) = SlotOf(starts[g])
           /\ ArrayIndex(SlotDelta(g)) \in SlotIndices
           /\ Len(slots[ArrayIndex(SlotDelta(g))]) < SlotCapacity
<1> USE WheelAssumption
<1>1. starts[g] \in Nat /\ WheelTime \in Nat /\ Horizon \in Nat /\ slotIndex \in Nat
    BY WheelTypes, StartIsNat DEF TypeOK
<1>2. /\ WheelTime <= starts[g]
      /\ starts[g] < WheelTime + Horizon
      /\ ~SlotIsFull(ArrayIndex(SlotDelta(g)))
  <2>1. CASE starts[g] < WheelTime
      BY <1>1, <2>1 DEF RejectReason
  <2>2. CASE starts[g] >= WheelTime + Horizon
      BY <1>1, <2>2, WheelTypes DEF RejectReason
  <2>3. CASE starts[g] \in WheelTime .. WheelTime + Horizon - 1
      BY <1>1, <2>3 DEF RejectReason
  <2>4. QED
      BY <1>1, <2>1, <2>2, <2>3
<1>3. SlotDelta(g) = SlotOf(starts[g]) - slotIndex
    BY <1>1, <1>2, DivShift, Zenon DEF SlotDelta, SlotOf, WheelTime
<1>4. starts[g] - WheelTime \in Nat /\ starts[g] - WheelTime < NSlots * SlotDuration
    BY <1>1, <1>2 DEF Horizon
<1>5. SlotDelta(g) \in Nat /\ SlotDelta(g) * SlotDuration <= starts[g] - WheelTime
    BY <1>4, DivBounds DEF SlotDelta
<1>6. SlotDelta(g) < NSlots
    BY <1>4, <1>5, SMT
<1>7. ArrayIndex(SlotDelta(g)) \in SlotIndices
    BY <1>1, <1>5, IndexInArray DEF ArrayIndex
<1>8. SlotOf(starts[g]) \in Nat
    BY <1>1, DivBounds DEF SlotOf
<1>9. Len(slots[ArrayIndex(SlotDelta(g))]) < SlotCapacity
  <2> DEFINE slot == slots[ArrayIndex(SlotDelta(g))]
  <2>1. slot \in Seq(Grains)
      BY <1>7 DEF TypeOK
  <2>2. Len(slot) \in Nat
      BY <2>1
  <2>3. ~(Len(slot) >= SlotCapacity)
      BY <1>2 DEF SlotIsFull
  <2>4. QED
      BY <2>2, <2>3
<1>10. QED
    BY <1>1, <1>3, <1>5, <1>6, <1>7, <1>8, <1>9

\* The number published as queue_size is a number.
LEMMA WheelLenType == WheelLen \in Nat
<1> DEFINE Places == SlotIndices \X (1 .. SlotCapacity)
<1>1. IsFiniteSet(SlotIndices) /\ IsFiniteSet(1 .. SlotCapacity)
    BY FS_Interval, WheelAssumption DEF SlotIndices
<1>2. IsFiniteSet(Places)
    BY <1>1, FS_Product
<1>3. IsFiniteSet({p \in Places : p[2] <= Len(slots[p[1]])})
    BY <1>2, FS_Subset
<1>4. QED
    BY <1>3, FS_CardinalityType DEF WheelLen

LEMMA InitTypeOK == Init => TypeOK
BY WheelAssumption, SMTT(30) DEF Init, TypeOK, Grains, SlotIndices, Reasons

\* Appending an accepted grain to `starts' leaves every other grain alone.
LEMMA PushKeepsGrains ==
    ASSUME TypeOK, NEW s \in Nat, starts' = Append(starts, s)
    PROVE  /\ Grains \subseteq Grains'
           /\ Len(starts) + 1 \in Grains'
           /\ starts' \in Seq(Nat)
           /\ \A g \in Grains : starts'[g] = starts[g]
<1>1. starts \in Seq(Nat) /\ Len(starts) \in Nat
    BY DEF TypeOK
<1>2. /\ starts' \in Seq(Nat)
      /\ Len(starts') = Len(starts) + 1
      /\ \A g \in 1 .. Len(starts) : starts'[g] = starts[g]
    BY <1>1
<1>3. QED
    BY <1>1, <1>2 DEF Grains

\* Push, Init and the drain's steps keep every variable in its type.
LEMMA PushTypeOK == TypeOK /\ (\E s \in Nat : Push(s)) => TypeOK'
<1>1. SUFFICES ASSUME TypeOK, NEW s \in Nat, Push(s)
               PROVE  TypeOK'
    OBVIOUS
<1>2. s \in Nat
    OBVIOUS
<1>3. /\ Grains \subseteq Grains'
      /\ Len(starts) + 1 \in Grains'
      /\ starts' \in Seq(Nat)
    BY <1>1, <1>2, PushKeepsGrains DEF Push
<1>4. ingress' \in Seq(Grains') /\ Len(ingress') <= IngressCapacity
  <2>1. ingress \in Seq(Grains') /\ Len(ingress) \in Nat
      BY <1>1, <1>3 DEF TypeOK
  <2>2. QED
      BY <1>1, <1>3, <2>1, WheelAssumption DEF Push
<1>5. slots' \in [SlotIndices -> Seq(Grains')]
    BY <1>1, <1>3 DEF Push, TypeOK, wheelVars
<1>6. out' \in Seq(Grains')
    BY <1>1, <1>3 DEF Push, TypeOK
<1>7. /\ overdue' \subseteq Grains'
      /\ fired' \subseteq Grains'
      /\ rejected' \in [Reasons -> SUBSET Grains']
    BY <1>1, <1>3 DEF Push, TypeOK
<1>8. QED
    BY <1>1, <1>3, <1>4, <1>5, <1>6, <1>7 DEF Push, TypeOK, wheelVars

LEMMA BeginDrainTypeOK ==
    ASSUME TypeOK, NEW d \in Int, NEW n \in BlockSizes, BeginDrain(d, n)
    PROVE  TypeOK'
<1>1. d \in Int /\ n \in Nat
    BY ClockAssumption
<1>2. AdmitLimit \in Nat
    BY WheelTypes
<1>3. Grains' = Grains
    BY DEF BeginDrain, Grains
<1>4. QED
    BY <1>1, <1>2, <1>3 DEF BeginDrain, TypeOK, wheelVars

\* Wheel::schedule either accepts a grain or has one of its three reasons.
LEMMA RejectReasonType ==
    ASSUME TypeOK, NEW g \in Grains
    PROVE  RejectReason(g) \in Reasons \union {"none"}
<1>1. starts[g] \in Nat /\ WheelTime \in Nat /\ Horizon \in Nat
    BY WheelTypes, StartIsNat
<1>2. CASE starts[g] < WheelTime
    BY <1>1, <1>2 DEF RejectReason, Reasons
<1>3. CASE starts[g] >= WheelTime + Horizon
    BY <1>1, <1>3 DEF RejectReason, Reasons
<1>4. CASE starts[g] \in WheelTime .. WheelTime + Horizon - 1
    BY <1>1, <1>4 DEF RejectReason, Reasons
<1>5. QED
    BY <1>1, <1>2, <1>3, <1>4

\* Counting one grain in a bucket leaves a QueueStats.
LEMMA HistogramStep ==
    ASSUME NEW q \in QueueStats, NEW b \in 0 .. HistogramBuckets - 1
    PROVE  [q EXCEPT !.histogram[b] = @ + 1] \in QueueStats
<1> DEFINE h == [q.histogram EXCEPT ![b] = @ + 1]
<1>1. q.histogram \in [0 .. HistogramBuckets - 1 -> Nat]
    BY DEF QueueStats
<1>2. h \in [0 .. HistogramBuckets - 1 -> Nat]
    BY <1>1, WheelAssumption
<1>3. [q EXCEPT !.histogram = h] \in QueueStats
  <2> HIDE DEF h
  <2>1. QED
      BY <1>2 DEF QueueStats
<1>4. [q EXCEPT !.histogram[b] = @ + 1] = [q EXCEPT !.histogram = h]
    BY DEF QueueStats
<1>5. QED
    BY <1>3, <1>4

\* So does counting one more rejection, or publishing the queue size.
LEMMA CounterStep ==
    ASSUME NEW q \in QueueStats, NEW r \in Reasons, NEW n \in Nat
    PROVE  /\ [q EXCEPT ![r] = @ + 1] \in QueueStats
           /\ [q EXCEPT !.queue_size = n] \in QueueStats
<1>1. CASE r = "too_late"
    BY <1>1 DEF QueueStats
<1>2. CASE r = "too_early"
    BY <1>2 DEF QueueStats
<1>3. CASE r = "slot_full"
    BY <1>3 DEF QueueStats
<1>4. QED
    BY <1>1, <1>2, <1>3 DEF Reasons

LEMMA ScheduleTypeOK ==
    ASSUME TypeOK, NEW g \in Grains, Schedule(g), starts' = starts
    PROVE  /\ slots' \in [SlotIndices -> Seq(Grains)]
           /\ \A i \in SlotIndices : Len(slots'[i]) <= SlotCapacity
           /\ stats' \in QueueStats
           /\ rejected' = rejected
<1> DEFINE idx == ArrayIndex(SlotDelta(g))
<1>1. /\ SlotDelta(g) \in Nat
      /\ idx \in SlotIndices
      /\ Len(slots[idx]) < SlotCapacity
    BY SchedulePlaces, WheelAssumption DEF Schedule
<1>2. /\ slots \in [SlotIndices -> Seq(Grains)]
      /\ \A i \in SlotIndices : Len(slots[i]) <= SlotCapacity
    BY DEF TypeOK
<1>3. slots' = [slots EXCEPT ![idx] = Append(@, g)]
    BY DEF Schedule
<1>4. slots' \in [SlotIndices -> Seq(Grains)]
    BY <1>1, <1>2, <1>3
<1>5. Len(Append(slots[idx], g)) <= SlotCapacity
    BY <1>1, <1>2, WheelAssumption
<1>6. \A i \in SlotIndices : Len(slots'[i]) <= SlotCapacity
    BY <1>1, <1>2, <1>3, <1>5
<1>7. Bucket(SlotDelta(g)) \in 0 .. HistogramBuckets - 1
    BY <1>1, WheelAssumption DEF Bucket
<1>8. stats' \in QueueStats
    BY <1>7, HistogramStep DEF Schedule, TypeOK
<1>9. QED
    BY <1>4, <1>6, <1>8 DEF Schedule

LEMMA RejectTypeOK ==
    ASSUME TypeOK, NEW g \in Grains, Reject(g)
    PROVE  /\ slots' = slots
           /\ rejected' \in [Reasons -> SUBSET Grains]
           /\ stats' \in QueueStats
<1>1. RejectReason(g) \in Reasons
    BY RejectReasonType DEF Reject
<1>2. rejected' \in [Reasons -> SUBSET Grains]
    BY <1>1 DEF Reject, TypeOK
<1>3. stats' \in QueueStats
    BY <1>1, CounterStep DEF Reject, TypeOK
<1>4. QED
    BY <1>2, <1>3 DEF Reject

LEMMA AdmitTypeOK == TypeOK /\ Admit => TypeOK'
<1>1. SUFFICES ASSUME TypeOK, Admit PROVE TypeOK'
    OBVIOUS
<1>2. Grains' = Grains /\ starts' = starts
    BY <1>1 DEF Admit, Grains
<1>3. /\ Head(ingress) \in Grains
      /\ ingress' \in Seq(Grains)
      /\ Len(ingress') <= IngressCapacity
    BY <1>1, WheelAssumption DEF Admit, Ready, TypeOK
<1>4. CASE Schedule(Head(ingress))
    BY <1>1, <1>2, <1>3, <1>4, ScheduleTypeOK DEF Admit, TypeOK
<1>5. CASE Reject(Head(ingress))
    BY <1>1, <1>2, <1>3, <1>5, RejectTypeOK DEF Admit, TypeOK
<1>6. QED
    BY <1>1, <1>4, <1>5 DEF Admit

LEMMA StopAdmittingTypeOK == TypeOK /\ StopAdmitting => TypeOK'
BY DEF TypeOK, StopAdmitting, Grains, wheelVars

LEMMA FireSlotTypeOK == TypeOK /\ FireSlot => TypeOK'
<1>1. SUFFICES ASSUME TypeOK, FireSlot PROVE TypeOK'
    OBVIOUS
<1> DEFINE idx == FiringIndex(fireAt)
<1>2. Grains' = Grains
    BY <1>1 DEF FireSlot, Grains
<1>3. fireAt + 1 \in 0 .. NSlots
  <2>1. fireAt < Steps /\ fireAt \in 0 .. NSlots /\ Steps \in 0 .. NSlots
      BY <1>1, WheelTypes DEF FireSlot, TypeOK
  <2>2. QED
      BY <2>1, WheelAssumption
<1>4. idx \in SlotIndices
  <2>1. slotIndex + fireAt \in Nat
      BY <1>1, WheelAssumption DEF TypeOK
  <2>2. QED
      BY <2>1, IndexInArray DEF FiringIndex
<1>5. slots[idx] \in Seq(Grains)
    BY <1>1, <1>4 DEF TypeOK
<1>6. out' \in Seq(Grains)
    BY <1>1, <1>5 DEF FireSlot, TypeOK
<1>7. Range(slots[idx]) \subseteq Grains
    BY <1>5 DEF Range
<1>8. /\ slots' \in [SlotIndices -> Seq(Grains)]
      /\ \A i \in SlotIndices : Len(slots'[i]) <= SlotCapacity
    BY <1>1, <1>4, WheelAssumption DEF FireSlot, TypeOK
<1>9. QED
    BY <1>1, <1>2, <1>3, <1>6, <1>7, <1>8 DEF FireSlot, TypeOK

LEMMA FinishDrainTypeOK == TypeOK /\ FinishDrain => TypeOK'
<1>1. SUFFICES ASSUME TypeOK, FinishDrain PROVE TypeOK'
    OBVIOUS
<1>2. Grains' = Grains
    BY <1>1 DEF FinishDrain, Grains
<1>3. NextIndex \in Nat /\ WheelLen \in Nat
    BY <1>1, WheelTypes, WheelLenType
<1>4. stats' \in QueueStats
  <2>1. stats \in QueueStats
      BY <1>1 DEF TypeOK
  <2>2. stats' = [stats EXCEPT !.queue_size = WheelLen]
      BY <1>1 DEF FinishDrain
  <2>3. QED
      BY <1>3, <2>1, <2>2, CounterStep DEF Reasons
<1>5. QED
    BY <1>1, <1>2, <1>3, <1>4, WheelAssumption DEF FinishDrain, TypeOK

LEMMA NextTypeOK == TypeOK /\ [WheelStep]_vars => TypeOK'
<1>1. SUFFICES ASSUME TypeOK, [WheelStep]_vars PROVE TypeOK'
    OBVIOUS
<1>2. CASE \E s \in Nat : Push(s)
    BY <1>1, <1>2, PushTypeOK
<1>3. CASE \E d \in Int, n \in BlockSizes : BeginDrain(d, n)
    BY <1>1, <1>3, BeginDrainTypeOK
<1>4. CASE Admit \/ StopAdmitting \/ FireSlot \/ FinishDrain
    BY <1>1, <1>4, AdmitTypeOK, StopAdmittingTypeOK, FireSlotTypeOK,
       FinishDrainTypeOK
<1>5. CASE UNCHANGED vars
    BY <1>1, <1>5 DEF vars, TypeOK, Grains
<1>6. QED
    BY <1>1, <1>2, <1>3, <1>4, <1>5 DEF WheelStep

\* In every reachable state every variable of the wheel has its type, and no
\* slot has outgrown the capacity it was allocated with (Wheel::schedule), for
\* any interleaving of the producer with drain_block_safe.
THEOREM TypeCorrect == Spec => []TypeOK
<1>1. QED
    BY InitTypeOK, NextTypeOK, NextIsWheelStep, PTL DEF Spec

-----------------------------------------------------------------------------
(* The inductive invariant.  WheelPlacement alone is not inductive: that a  *)
(* slot is emptied before the read head passes it needs the firing loop's   *)
(* counter to stay within Steps, and TooEarlyUnreachable needs admitBefore  *)
(* to be the wheel's own limit for as long as grains are admitted.          *)

\* What each step of drain_block_safe has established for the next one.
PhaseOK ==
    /\ pc # "advance" => fireAt = 0
    /\ fireAt <= Steps
    /\ pc = "admit" => admitBefore = AdmitLimit

\* Only grains of slots that have elapsed have been handed to the engine.
FiredBehind == \A h \in fired : SlotOf(starts[h]) < slotIndex + fireAt

WheelInv ==
    /\ TypeOK
    /\ PhaseOK
    /\ WheelPlacement
    /\ NeverEarly
    /\ FiredBehind
    /\ TooEarlyUnreachable

\* The slot and the start_sample of a grain in the array.
LEMMA PlacedGrain ==
    ASSUME WheelInv, NEW i \in SlotIndices, NEW k \in DOMAIN slots[i]
    PROVE  /\ slots[i][k] \in Grains
           /\ starts[slots[i][k]] \in Nat
           /\ SlotOf(starts[slots[i][k]]) \in Nat
           /\ (SlotOf(starts[slots[i][k]]) % NSlots) = i
           /\ slotIndex + fireAt <= SlotOf(starts[slots[i][k]])
           /\ SlotOf(starts[slots[i][k]]) < slotIndex + NSlots
<1>1. slots[i] \in Seq(Grains)
    BY DEF WheelInv, TypeOK
<1>2. slots[i][k] \in Grains
    BY <1>1
<1>3. starts[slots[i][k]] \in Nat
    BY <1>2, StartIsNat DEF WheelInv
<1>4. SlotOf(starts[slots[i][k]]) \in Nat
    BY <1>3, DivBounds, WheelAssumption DEF SlotOf
<1>5. QED
    BY <1>2, <1>3, <1>4 DEF WheelInv, WheelPlacement

\* The entry the firing loop looks at holds the grains of exactly one slot, the
\* one that is elapsing, and that slot ends by the end of the block.
LEMMA FiringEntry ==
    ASSUME WheelInv, FireSlot, NEW k \in DOMAIN slots[FiringIndex(fireAt)]
    PROVE  /\ FiringIndex(fireAt) \in SlotIndices
           /\ SlotOf(starts[slots[FiringIndex(fireAt)][k]]) = slotIndex + fireAt
           /\ starts[slots[FiringIndex(fireAt)][k]] < blockEnd
<1> DEFINE idx  == FiringIndex(fireAt)
           s    == starts[slots[idx][k]]
           slot == SlotOf(s)
<1>1. /\ slotIndex \in Nat /\ fireAt \in 0 .. NSlots /\ blockEnd \in Nat
      /\ NextIndex \in Nat /\ TargetIndex \in Nat
      /\ Steps \in 0 .. NSlots /\ slotIndex <= NextIndex
    BY WheelTypes DEF WheelInv, TypeOK
<1>2. /\ fireAt < Steps
      /\ slotIndex + fireAt \in Nat
    BY <1>1, WheelAssumption DEF FireSlot
<1>3. idx \in SlotIndices
    BY <1>2, IndexInArray DEF FiringIndex
<1>4. /\ s \in Nat /\ slot \in Nat
      /\ (slot % NSlots) = idx
      /\ slotIndex + fireAt <= slot
      /\ slot < slotIndex + NSlots
    BY <1>3, PlacedGrain
<1>5. slot = slotIndex + fireAt
  <2>1. SUFFICES ASSUME slotIndex + fireAt < slot PROVE FALSE
      BY <1>1, <1>2, <1>4
  <2>2. slot - (slotIndex + fireAt) < NSlots
      BY <1>1, <1>4, WheelAssumption
  <2>3. ((slotIndex + fireAt) % NSlots) # (slot % NSlots)
      BY <1>2, <1>4, <2>1, <2>2, ModDistinct, WheelAssumption
  <2>4. QED
      BY <1>4, <2>3 DEF FiringIndex
<1>6. slot < TargetIndex
  <2>1. slotIndex + fireAt < NextIndex
      BY <1>1, <1>2, WheelAssumption DEF Steps
  <2>2. NextIndex = TargetIndex
      BY <1>1, <1>2, <2>1, WheelAssumption DEF NextIndex
  <2>3. QED
      BY <1>5, <2>1, <2>2
<1>7. s < blockEnd
  <2>1. s < (slot + 1) * SlotDuration
      BY <1>4, DivBounds, WheelAssumption DEF SlotOf
  <2>2. TargetIndex * SlotDuration <= blockEnd
      BY <1>1, DivBounds, WheelAssumption DEF TargetIndex, SlotOf
  <2>3. (slot + 1) * SlotDuration <= TargetIndex * SlotDuration
      BY <1>1, <1>4, <1>6, WheelAssumption, SMT
  <2>4. (slot + 1) * SlotDuration \in Nat /\ TargetIndex * SlotDuration \in Nat
      BY <1>1, <1>4, WheelAssumption
  <2>5. QED
      BY <1>1, <1>4, <2>1, <2>2, <2>3, <2>4
<1>8. QED
    BY <1>3, <1>5, <1>7

LEMMA InitWheelInv == Init => WheelInv
<1>1. SUFFICES ASSUME Init PROVE WheelInv
    OBVIOUS
<1>2. TypeOK
    BY <1>1, InitTypeOK
<1>3. PhaseOK
    BY <1>1, <1>2, WheelTypes DEF Init, PhaseOK
<1>4. WheelPlacement
    BY <1>1 DEF Init, WheelPlacement
<1>5. NeverEarly /\ FiredBehind /\ TooEarlyUnreachable
    BY <1>1 DEF Init, NeverEarly, FiredBehind, TooEarlyUnreachable, Reasons
<1>6. QED
    BY <1>2, <1>3, <1>4, <1>5 DEF WheelInv

\* What a block has to do depends only on the read head and the block's end.
LEMMA SameBlock ==
    ASSUME slotIndex' = slotIndex, blockEnd' = blockEnd
    PROVE  /\ NextIndex' = NextIndex
           /\ Steps' = Steps
           /\ AdmitLimit' = AdmitLimit
BY DEF NextIndex, Steps, AdmitLimit, TargetIndex, SlotOf, WheelTime, Horizon

LEMMA PushWheelInv ==
    ASSUME WheelInv, NEW s \in Nat, Push(s)
    PROVE  WheelInv'
<1>1. TypeOK /\ TypeOK'
    BY PushTypeOK DEF WheelInv
<1>2. \A g \in Grains : starts'[g] = starts[g]
  <2>1. s \in Nat
      OBVIOUS
  <2>2. starts' = Append(starts, s)
      BY DEF Push
  <2>3. QED
      BY <1>1, <2>1, <2>2, PushKeepsGrains
<1>3. PhaseOK'
    BY SameBlock DEF WheelInv, PhaseOK, Push, wheelVars
<1>4. WheelPlacement'
  <2>1. SUFFICES ASSUME NEW i \in SlotIndices, NEW k \in DOMAIN slots[i]
                 PROVE  LET slot == SlotOf(starts'[slots[i][k]])
                        IN  /\ (slot % NSlots) = i
                            /\ slotIndex + fireAt <= slot
                            /\ slot < slotIndex + NSlots
      BY DEF WheelPlacement, SlotOf, SlotIndices, Push, wheelVars
  <2>2. starts'[slots[i][k]] = starts[slots[i][k]]
      BY <1>2, PlacedGrain
  <2>3. QED
      BY <2>2, PlacedGrain
<1>5. NeverEarly'
  <2>1. SUFFICES ASSUME NEW k \in DOMAIN out PROVE starts'[out[k]] < blockEnd
      BY DEF NeverEarly, Push
  <2>2. out[k] \in Grains
      BY <1>1 DEF TypeOK
  <2>3. QED
      BY <1>2, <2>2 DEF WheelInv, NeverEarly
<1>6. FiredBehind'
  <2>1. SUFFICES ASSUME NEW h \in fired
                 PROVE  SlotOf(starts'[h]) < slotIndex + fireAt
      BY DEF FiredBehind, SlotOf, Push, wheelVars
  <2>2. h \in Grains
      BY <1>1 DEF TypeOK
  <2>3. QED
      BY <1>2, <2>2 DEF WheelInv, FiredBehind
<1>7. TooEarlyUnreachable'
    BY DEF WheelInv, TooEarlyUnreachable, Push
<1>8. QED
    BY <1>1, <1>3, <1>4, <1>5, <1>6, <1>7 DEF WheelInv

LEMMA BeginDrainWheelInv ==
    ASSUME WheelInv, NEW d \in Int, NEW n \in BlockSizes, BeginDrain(d, n)
    PROVE  WheelInv'
<1>1. TypeOK /\ TypeOK'
    BY BeginDrainTypeOK DEF WheelInv
<1>2. fireAt' = 0 /\ fireAt = 0
    BY DEF WheelInv, PhaseOK, BeginDrain
<1>3. AdmitLimit' = AdmitLimit
    BY DEF AdmitLimit, WheelTime, Horizon, BeginDrain, wheelVars
<1>4. Steps' \in 0 .. NSlots
  <2>1. TypeOK' => (Steps \in 0 .. NSlots)'
      BY WheelTypes, PTL
  <2>2. QED
      BY <1>1, <2>1
<1>5. PhaseOK'
    BY <1>2, <1>3, <1>4, WheelAssumption DEF PhaseOK, BeginDrain
<1>6. WheelPlacement'
    BY DEF WheelInv, WheelPlacement, SlotOf, BeginDrain, wheelVars
<1>7. NeverEarly'
    BY DEF NeverEarly, BeginDrain
<1>8. FiredBehind' /\ TooEarlyUnreachable'
    BY DEF WheelInv, FiredBehind, TooEarlyUnreachable, SlotOf, BeginDrain, wheelVars
<1>9. QED
    BY <1>1, <1>5, <1>6, <1>7, <1>8 DEF WheelInv

LEMMA AdmitWheelInv == WheelInv /\ Admit => WheelInv'
<1>1. SUFFICES ASSUME WheelInv, Admit PROVE WheelInv'
    OBVIOUS
<1> DEFINE g == Head(ingress)
<1>2. TypeOK /\ TypeOK' /\ g \in Grains
    BY <1>1, AdmitTypeOK DEF WheelInv, TypeOK, Admit, Ready
<1>3. fireAt = 0 /\ slotIndex \in Nat
    BY <1>1 DEF WheelInv, PhaseOK, Admit, TypeOK
<1>4. PhaseOK'
    BY <1>1, SameBlock DEF WheelInv, PhaseOK, Admit
<1>5. NeverEarly' /\ FiredBehind'
    BY <1>1 DEF WheelInv, NeverEarly, FiredBehind, SlotOf, Admit
<1>6. CASE Schedule(g)
  <2> DEFINE idx == ArrayIndex(SlotDelta(g))
             here == SlotOf(starts[g])
  <2>1. /\ idx \in SlotIndices
        /\ here = slotIndex + SlotDelta(g)
        /\ SlotDelta(g) \in 0 .. NSlots - 1
      BY <1>2, <1>6, SchedulePlaces DEF Schedule
  <2>2. slots' = [slots EXCEPT ![idx] = Append(@, g)]
      BY <1>6 DEF Schedule
  <2>3. slots \in [SlotIndices -> Seq(Grains)]
      BY <1>2 DEF TypeOK
  <2>4. (here % NSlots) = idx /\ slotIndex <= here /\ here < slotIndex + NSlots
      BY <1>3, <2>1, WheelAssumption DEF ArrayIndex
  <2>5. WheelPlacement'
    <3>1. SUFFICES ASSUME NEW i \in SlotIndices, NEW k \in DOMAIN slots'[i]
                   PROVE  LET slot == SlotOf(starts[slots'[i][k]])
                          IN  /\ (slot % NSlots) = i
                              /\ slotIndex + fireAt <= slot
                              /\ slot < slotIndex + NSlots
        BY <1>1 DEF WheelPlacement, SlotOf, SlotIndices, Admit
    <3>2. CASE slots'[i][k] = g /\ i = idx
        BY <1>3, <2>4, <3>2
    <3>3. CASE k \in DOMAIN slots[i] /\ slots'[i][k] = slots[i][k]
        BY <1>1, <3>3, PlacedGrain
    <3>4. QED
      <4>1. slots[idx] \in Seq(Grains)
          BY <2>1, <2>3
      <4>2. CASE i = idx
        <5>1. slots'[i] = Append(slots[idx], g)
            BY <2>1, <2>2, <2>3, <4>2
        <5>2. \/ k \in DOMAIN slots[idx] /\ slots'[i][k] = slots[idx][k]
              \/ slots'[i][k] = g
            BY <4>1, <5>1
        <5>3. QED
            BY <3>2, <3>3, <4>2, <5>2
      <4>3. CASE i # idx
          BY <2>2, <2>3, <3>3, <4>3
      <4>4. QED
          BY <4>2, <4>3
  <2>6. TooEarlyUnreachable'
      BY <1>1, <1>6 DEF WheelInv, TooEarlyUnreachable, Schedule
  <2>7. QED
      BY <1>2, <1>4, <1>5, <2>5, <2>6 DEF WheelInv
<1>7. CASE Reject(g)
  <2>1. WheelPlacement'
      BY <1>1, <1>7 DEF WheelInv, WheelPlacement, SlotOf, Admit, Reject
  <2>2. starts[g] < AdmitLimit
      BY <1>1 DEF WheelInv, PhaseOK, Admit, Ready
  <2>3. starts[g] \in Nat /\ WheelTime \in Nat /\ Horizon \in Nat
      BY <1>2, StartIsNat, WheelTypes
  <2>4. RejectReason(g) # "too_early"
    <3>1. CASE starts[g] < WheelTime
        BY <2>3, <3>1 DEF RejectReason
    <3>2. CASE starts[g] \in WheelTime .. WheelTime + Horizon - 1
        BY <2>3, <3>2 DEF RejectReason
    <3>3. QED
        BY <2>2, <2>3, <3>1, <3>2 DEF AdmitLimit
  <2>5. TooEarlyUnreachable'
      BY <1>1, <1>2, <1>7, <2>4 DEF WheelInv, TooEarlyUnreachable, Reject, TypeOK, Reasons
  <2>6. QED
      BY <1>2, <1>4, <1>5, <2>1, <2>5 DEF WheelInv
<1>8. QED
    BY <1>1, <1>6, <1>7 DEF Admit

LEMMA StopAdmittingWheelInv == WheelInv /\ StopAdmitting => WheelInv'
<1>1. SUFFICES ASSUME WheelInv, StopAdmitting PROVE WheelInv'
    OBVIOUS
<1>2. TypeOK'
    BY <1>1, StopAdmittingTypeOK DEF WheelInv
<1>3. PhaseOK'
    BY <1>1, SameBlock DEF WheelInv, PhaseOK, StopAdmitting, wheelVars
<1>4. WheelPlacement' /\ FiredBehind'
    BY <1>1 DEF WheelInv, WheelPlacement, FiredBehind, SlotOf, StopAdmitting,
                wheelVars
<1>5. NeverEarly' /\ TooEarlyUnreachable'
    BY <1>1 DEF WheelInv, NeverEarly, TooEarlyUnreachable, StopAdmitting
<1>6. QED
    BY <1>2, <1>3, <1>4, <1>5 DEF WheelInv

\* Emptying the elapsing slot leaves only grains of slots after it, because
\* less than a rotation is in the array: no other slot shares its entry.
LEMMA FireSlotWheelInv == WheelInv /\ FireSlot => WheelInv'
<1>1. SUFFICES ASSUME WheelInv, FireSlot PROVE WheelInv'
    OBVIOUS
<1> DEFINE idx == FiringIndex(fireAt)
<1>2. TypeOK /\ TypeOK'
    BY <1>1, FireSlotTypeOK DEF WheelInv
<1>3. /\ slotIndex \in Nat /\ fireAt \in Nat /\ Steps \in Nat
      /\ fireAt < Steps /\ slotIndex + fireAt \in Nat
    BY <1>1, <1>2, WheelTypes, WheelAssumption DEF TypeOK, FireSlot
<1>4. /\ idx \in SlotIndices
      /\ slots \in [SlotIndices -> Seq(Grains)]
      /\ slots' = [slots EXCEPT ![idx] = <<>>]
      /\ fireAt' = fireAt + 1 /\ slotIndex' = slotIndex
      /\ starts' = starts /\ blockEnd' = blockEnd
    BY <1>1, <1>2, <1>3, IndexInArray DEF FiringIndex, FireSlot, TypeOK
<1>5. PhaseOK'
  <2>1. Steps' = Steps
      BY <1>4, SameBlock
  <2>2. fireAt' <= Steps'
      BY <1>3, <1>4, <2>1
  <2>3. pc' = "advance"
      BY <1>1 DEF FireSlot
  <2>4. QED
      BY <2>2, <2>3 DEF PhaseOK
<1>6. WheelPlacement'
  <2>1. SUFFICES ASSUME NEW i \in SlotIndices, NEW k \in DOMAIN slots'[i]
                 PROVE  LET slot == SlotOf(starts[slots'[i][k]])
                        IN  /\ (slot % NSlots) = i
                            /\ slotIndex + (fireAt + 1) <= slot
                            /\ slot < slotIndex + NSlots
      BY <1>4 DEF WheelPlacement, SlotOf, SlotIndices
  <2>2. i # idx /\ slots'[i] = slots[i]
      BY <1>4
  <2> DEFINE slot == SlotOf(starts[slots[i][k]])
  <2>3. /\ slot \in Nat
        /\ (slot % NSlots) = i
        /\ slotIndex + fireAt <= slot
        /\ slot < slotIndex + NSlots
      BY <1>1, <2>2, PlacedGrain
  <2>4. slot # slotIndex + fireAt
      BY <2>2, <2>3 DEF FiringIndex
  <2>5. QED
      BY <1>3, <2>2, <2>3, <2>4
<1>7. NeverEarly'
  <2>1. SUFFICES ASSUME NEW k \in DOMAIN out' PROVE starts[out'[k]] < blockEnd
      BY <1>4 DEF NeverEarly
  <2>2. out \in Seq(Grains) /\ slots[idx] \in Seq(Grains)
      BY <1>2, <1>4 DEF TypeOK
  <2>3. out' = out \o slots[idx]
      BY <1>1 DEF FireSlot
  <2>4. \/ k \in DOMAIN out /\ out'[k] = out[k]
        \/ \E j \in DOMAIN slots[idx] : out'[k] = slots[idx][j]
    <3>1. CASE k <= Len(out)
        BY <2>2, <2>3, <3>1
    <3>2. CASE ~(k <= Len(out))
      <4>1. k - Len(out) \in DOMAIN slots[idx]
            /\ out'[k] = slots[idx][k - Len(out)]
          BY <2>2, <2>3, <3>2
      <4>2. QED
          BY <4>1
    <3>3. QED
        BY <3>1, <3>2
  <2>5. \A j \in DOMAIN slots[idx] : starts[slots[idx][j]] < blockEnd
      BY <1>1, FiringEntry
  <2>6. QED
      BY <1>1, <2>4, <2>5 DEF WheelInv, NeverEarly
<1>8. FiredBehind'
  <2>1. SUFFICES ASSUME NEW h \in fired'
                 PROVE  SlotOf(starts[h]) < slotIndex + (fireAt + 1)
      BY <1>4 DEF FiredBehind, SlotOf
  <2>2. CASE h \in fired
    <3>1. h \in Grains
        BY <1>2, <2>2 DEF TypeOK
    <3>2. SlotOf(starts[h]) \in Nat
        BY <1>2, <3>1, StartIsNat, DivBounds, WheelAssumption DEF SlotOf
    <3>3. SlotOf(starts[h]) < slotIndex + fireAt
        BY <1>1, <2>2 DEF WheelInv, FiredBehind
    <3>4. QED
        BY <1>3, <3>2, <3>3
  <2>3. CASE h \in Range(slots[idx])
    <3>1. PICK j \in DOMAIN slots[idx] : h = slots[idx][j]
        BY <2>3 DEF Range
    <3>2. SlotOf(starts[h]) = slotIndex + fireAt
        BY <1>1, <3>1, FiringEntry
    <3>3. QED
        BY <1>3, <3>2
  <2>4. QED
      BY <1>1, <2>2, <2>3 DEF FireSlot
<1>9. TooEarlyUnreachable'
    BY <1>1 DEF WheelInv, TooEarlyUnreachable, FireSlot
<1>10. QED
    BY <1>2, <1>5, <1>6, <1>7, <1>8, <1>9 DEF WheelInv

\* When the read head jumps, every slot it passes has been emptied: either the
\* loop visited each of them, or it went round the whole array.
LEMMA FinishDrainWheelInv == WheelInv /\ FinishDrain => WheelInv'
<1>1. SUFFICES ASSUME WheelInv, FinishDrain PROVE WheelInv'
    OBVIOUS
<1>2. TypeOK /\ TypeOK'
    BY <1>1, FinishDrainTypeOK DEF WheelInv
<1>3. /\ slotIndex \in Nat /\ NextIndex \in Nat /\ slotIndex <= NextIndex
      /\ fireAt = Steps /\ fireAt \in 0 .. NSlots
      /\ slotIndex + fireAt <= NextIndex
    BY <1>1, <1>2, WheelTypes, WheelAssumption, SMTT(30) DEF TypeOK, FinishDrain, Steps
<1>4. slotIndex' = NextIndex /\ fireAt' = 0 /\ starts' = starts
      /\ slots' = slots /\ fired' = fired
    BY <1>1 DEF FinishDrain
<1>5. PhaseOK'
  <2>1. TypeOK' => (Steps \in 0 .. NSlots)'
      BY WheelTypes, PTL
  <2>2. fireAt' <= Steps'
      BY <1>2, <1>4, <2>1, WheelAssumption
  <2>3. pc' = "idle"
      BY <1>1 DEF FinishDrain
  <2>4. QED
      BY <1>4, <2>2, <2>3 DEF PhaseOK
<1>6. WheelPlacement'
  <2>1. SUFFICES ASSUME NEW i \in SlotIndices, NEW k \in DOMAIN slots[i]
                 PROVE  LET slot == SlotOf(starts[slots[i][k]])
                        IN  /\ (slot % NSlots) = i
                            /\ NextIndex + 0 <= slot
                            /\ slot < NextIndex + NSlots
      BY <1>4 DEF WheelPlacement, SlotOf, SlotIndices
  <2> DEFINE slot == SlotOf(starts[slots[i][k]])
  <2>2. /\ slot \in Nat
        /\ (slot % NSlots) = i
        /\ slotIndex + fireAt <= slot
        /\ slot < slotIndex + NSlots
      BY <1>1, PlacedGrain
  <2>3. CASE NextIndex - slotIndex < NSlots
      BY <1>3, <2>2, <2>3, WheelAssumption DEF Steps
  <2>4. CASE ~(NextIndex - slotIndex < NSlots)
      BY <1>3, <2>2, <2>4, WheelAssumption DEF Steps
  <2>5. QED
      BY <2>3, <2>4
<1>7. FiredBehind'
  <2>1. SUFFICES ASSUME NEW h \in fired
                 PROVE  SlotOf(starts[h]) < NextIndex + 0
      BY <1>4 DEF FiredBehind, SlotOf
  <2>2. h \in Grains
      BY <1>2 DEF TypeOK
  <2>3. SlotOf(starts[h]) \in Nat
      BY <1>2, <2>2, StartIsNat, DivBounds, WheelAssumption DEF SlotOf
  <2>4. SlotOf(starts[h]) < slotIndex + fireAt
      BY <1>1 DEF WheelInv, FiredBehind
  <2>5. QED
      BY <1>3, <2>3, <2>4
<1>8. NeverEarly' /\ TooEarlyUnreachable'
    BY <1>1 DEF WheelInv, NeverEarly, TooEarlyUnreachable, FinishDrain
<1>9. QED
    BY <1>2, <1>5, <1>6, <1>7, <1>8 DEF WheelInv

LEMMA NextWheelInv == WheelInv /\ [WheelStep]_vars => WheelInv'
<1>1. SUFFICES ASSUME WheelInv, [WheelStep]_vars PROVE WheelInv'
    OBVIOUS
<1>2. CASE \E s \in Nat : Push(s)
    BY <1>1, <1>2, PushWheelInv
<1>3. CASE \E d \in Int, n \in BlockSizes : BeginDrain(d, n)
    BY <1>1, <1>3, BeginDrainWheelInv
<1>4. CASE Admit \/ StopAdmitting \/ FireSlot \/ FinishDrain
    BY <1>1, <1>4, AdmitWheelInv, StopAdmittingWheelInv,
       FireSlotWheelInv, FinishDrainWheelInv
<1>5. CASE UNCHANGED vars
  <2>1. UNCHANGED vars
      BY <1>5
  <2>2. TypeOK'
      BY <1>1, NextTypeOK DEF WheelInv
  <2>3. PhaseOK'
      BY <1>1, <2>1, SameBlock DEF WheelInv, PhaseOK, vars
  <2>4. WheelPlacement' /\ FiredBehind'
      BY <1>1, <2>1 DEF WheelInv, WheelPlacement, FiredBehind, SlotOf, vars
  <2>5. NeverEarly' /\ TooEarlyUnreachable'
      BY <1>1, <2>1 DEF WheelInv, NeverEarly, TooEarlyUnreachable, vars
  <2>6. QED
      BY <2>2, <2>3, <2>4, <2>5 DEF WheelInv
<1>6. QED
    BY <1>1, <1>2, <1>3, <1>4, <1>5 DEF WheelStep

\* The inductive invariant holds in every reachable state of the scheduler.
THEOREM WheelInvariant == Spec => []WheelInv
<1>1. QED
    BY InitWheelInv, NextWheelInv, NextIsWheelStep, PTL DEF Spec

\* Wheel::schedule and Wheel::advance never mix two rotations of the array,
\* for any number of slots, any block sizes and any jumps of the clock: every
\* grain in the array is in the entry of its own slot, which has not elapsed.
THEOREM PlacementCorrect == Spec => []WheelPlacement
<1>1. WheelInv => WheelPlacement
    BY DEF WheelInv
<1>2. QED
    BY <1>1, WheelInvariant, PTL

\* drain_block_safe hands the engine only grains whose start_sample precedes
\* the end of the block.
THEOREM NeverHeardEarly == Spec => []NeverEarly
<1>1. WheelInv => NeverEarly
    BY DEF WheelInv
<1>2. QED
    BY <1>1, WheelInvariant, PTL

\* The admission test of drain_block_safe keeps Wheel::schedule from ever
\* answering TooEarly, in whatever order the producer submits.
THEOREM TooEarlyNeverCounted == Spec => []TooEarlyUnreachable
<1>1. WheelInv => TooEarlyUnreachable
    BY DEF WheelInv
<1>2. QED
    BY <1>1, WheelInvariant, PTL

\* A grain that fires is of the slot that elapses; every grain that fired
\* before it is of an earlier one.
LEMMA FiringStep ==
    ASSUME WheelInv, [WheelStep]_vars
    PROVE  [\A g \in fired' \ fired, h \in fired :
              SlotOf(starts[h]) <= SlotOf(starts[g])]_vars
<1>1. CASE FireSlot
  <2>1. SUFFICES ASSUME NEW g \in fired' \ fired, NEW h \in fired
                 PROVE  SlotOf(starts[h]) <= SlotOf(starts[g])
      OBVIOUS
  <2>2. PICK k \in DOMAIN slots[FiringIndex(fireAt)] :
            g = slots[FiringIndex(fireAt)][k]
      BY <1>1 DEF FireSlot, Range
  <2>3. SlotOf(starts[g]) = slotIndex + fireAt
      BY <1>1, <2>2, FiringEntry
  <2>4. h \in Grains /\ slotIndex \in Nat /\ fireAt \in Nat
      BY WheelAssumption DEF WheelInv, TypeOK
  <2>5. SlotOf(starts[h]) \in Nat
      BY <2>4, StartIsNat, DivBounds, WheelAssumption DEF WheelInv, SlotOf
  <2>6. SlotOf(starts[h]) < slotIndex + fireAt
      BY DEF WheelInv, FiredBehind
  <2>7. QED
      BY <2>3, <2>4, <2>5, <2>6
<1>2. CASE ~FireSlot
    BY <1>2 DEF WheelStep, Push, BeginDrain, Admit, StopAdmitting,
                FinishDrain, vars
<1>3. QED
    BY <1>1, <1>2

\* Over the whole life of the scheduler, whatever the clock does, no grain is
\* handed over after a grain of a later slot (Wheel::advance).
THEOREM FiringOrder == Spec => FiringNeverGoesBack
<1>1. QED
    BY WheelInvariant, FiringStep, NextIsWheelStep, PTL DEF Spec, FiringNeverGoesBack

-----------------------------------------------------------------------------
(* Where every grain is.  What the ring holds is the tail of the sequence  *)
(* of accepted pushes, so every grain before it has been looked at once,   *)
(* and the entries of one slot are in push order.                          *)

\* How many grains have left the ring.
Taken == Len(starts) - Len(ingress)

\* The ring holds the newest grains, in the order they were pushed.
RingIsSuffix ==
    /\ Taken \in Nat
    /\ \A k \in 1 .. Len(ingress) : ingress[k] = Taken + k

\* Is g in the array?
Placed(g) == \E i \in SlotIndices : \E k \in DOMAIN slots[i] : slots[i][k] = g

\* Each slot holds grains that left the ring, in the order they were pushed.
SlotsInPushOrder ==
    \A i \in SlotIndices :
        /\ \A k \in DOMAIN slots[i] : slots[i][k] <= Taken
        /\ \A j, k \in DOMAIN slots[i] : j < k => slots[i][j] < slots[i][k]

\* A grain that was fired or rejected had left the ring.
ResolvedLeftRing ==
    /\ \A g \in fired : g <= Taken
    /\ \A r \in Reasons : \A g \in rejected[r] : g <= Taken

\* A rejected grain is rejected for one reason, and is nowhere else.
RejectedForGood ==
    \A r \in Reasons : \A g \in rejected[r] :
        /\ g \notin fired /\ ~Placed(g)
        /\ \A q \in Reasons : g \in rejected[q] => q = r

\* A grain that left the ring is somewhere.
NoneForgotten ==
    \A g \in Grains : g <= Taken =>
        Placed(g) \/ g \in fired \/ \E r \in Reasons : g \in rejected[r]

\* What this drain handed over counts as fired.
OutIsFired == \A k \in DOMAIN out : out[k] \in fired

LedgerInv ==
    /\ WheelInv
    /\ RingIsSuffix
    /\ SlotsInPushOrder
    /\ ResolvedLeftRing
    /\ RejectedForGood
    /\ NoneForgotten
    /\ OutIsFired
    /\ DrainOrder

\* The invariant holds when the wheel is empty.
LEMMA InitLedgerInv == Init => LedgerInv
<1>1. SUFFICES ASSUME Init PROVE LedgerInv
    OBVIOUS
<1>2. WheelInv
    BY <1>1, InitWheelInv
<1>3. /\ Len(starts) = 0 /\ Len(ingress) = 0 /\ Taken = 0
      /\ \A i \in SlotIndices : DOMAIN slots[i] = {}
      /\ DOMAIN out = {}
    BY <1>1 DEF Init, Taken
<1>4. RingIsSuffix /\ SlotsInPushOrder
    BY <1>3 DEF RingIsSuffix, SlotsInPushOrder
<1>5. ResolvedLeftRing /\ RejectedForGood
    BY <1>1 DEF Init, ResolvedLeftRing, RejectedForGood, Reasons
<1>6. NoneForgotten
    BY <1>3 DEF NoneForgotten, Grains
<1>7. OutIsFired /\ DrainOrder
    BY <1>3 DEF OutIsFired, DrainOrder
<1>8. QED
    BY <1>2, <1>4, <1>5, <1>6, <1>7 DEF LedgerInv

\* The oldest grain of the ring is the next that was never looked at.
LEMMA RingHead ==
    ASSUME LedgerInv, ingress # <<>>
    PROVE  /\ Head(ingress) \in Grains /\ Head(ingress) = Taken + 1
           /\ Taken \in Nat /\ Len(ingress) \in Nat \ {0}
<1>1. ingress \in Seq(Grains)
    BY DEF LedgerInv, WheelInv, TypeOK
<1>2. Len(ingress) \in Nat \ {0} /\ Head(ingress) = ingress[1] /\ Head(ingress) \in Grains
    BY <1>1
<1>3. QED
    BY <1>2 DEF LedgerInv, RingIsSuffix

\* A push adds the newest grain to the ring, and moves no other.
LEMMA PushLedgerInv ==
    ASSUME LedgerInv, NEW s \in Nat, Push(s)
    PROVE  LedgerInv'
<1>1. WheelInv'
    BY PushWheelInv DEF LedgerInv
<1>2. /\ starts \in Seq(Nat) /\ ingress \in Seq(Grains)
      /\ Len(starts) \in Nat /\ Len(ingress) \in Nat
      /\ out \in Seq(Grains)
      /\ Taken \in Nat
    BY DEF LedgerInv, WheelInv, TypeOK, RingIsSuffix
<1>3. /\ starts' = Append(starts, s) /\ ingress' = Append(ingress, Len(starts) + 1)
      /\ slots' = slots /\ out' = out /\ fired' = fired /\ rejected' = rejected
    BY DEF Push, wheelVars
<1>4. Taken' = Taken
    BY <1>2, <1>3 DEF Taken
<1>5. RingIsSuffix'
  <2>1. \A k \in 1 .. Len(ingress) + 1 : Append(ingress, Len(starts) + 1)[k] = Taken + k
      BY <1>2 DEF LedgerInv, RingIsSuffix, Taken
  <2>2. Len(ingress') = Len(ingress) + 1
      BY <1>2, <1>3
  <2>3. QED
      BY <1>2, <1>3, <1>4, <2>1, <2>2 DEF RingIsSuffix
<1>6. SlotsInPushOrder' /\ ResolvedLeftRing' /\ RejectedForGood' /\ OutIsFired'
    BY <1>3, <1>4 DEF LedgerInv, SlotsInPushOrder, ResolvedLeftRing, RejectedForGood,
                     OutIsFired, Placed, SlotIndices, Reasons
<1>7. NoneForgotten'
  <2>1. SUFFICES ASSUME NEW g \in Grains', g <= Taken
                 PROVE  Placed(g) \/ g \in fired \/ \E r \in Reasons : g \in rejected[r]
      BY <1>3, <1>4, Zenon DEF NoneForgotten, Placed, SlotIndices, Reasons
  <2>2. g \in Grains
      BY <1>2, <1>3, <2>1 DEF Grains, Taken
  <2>3. QED
      BY <2>1, <2>2 DEF LedgerInv, NoneForgotten
<1>8. DrainOrder'
  <2>1. \A k \in DOMAIN out : starts'[out[k]] = starts[out[k]]
    <3>1. \A k \in DOMAIN out : out[k] \in Grains
        BY <1>2
    <3>2. \A g \in Grains : starts'[g] = starts[g]
        BY <1>2, <1>3 DEF Grains
    <3>3. QED
        BY <3>1, <3>2
  <2>2. SUFFICES ASSUME NEW j \in DOMAIN out, NEW k \in DOMAIN out, j < k
                 PROVE  \/ SlotOf(starts'[out[j]]) < SlotOf(starts'[out[k]])
                        \/ /\ SlotOf(starts'[out[j]]) = SlotOf(starts'[out[k]])
                           /\ out[j] < out[k]
      BY <1>3 DEF DrainOrder, SlotOf
  <2>3. starts'[out[j]] = starts[out[j]] /\ starts'[out[k]] = starts[out[k]]
      BY <2>1
  <2>4. QED
      BY <2>2, <2>3, Zenon DEF LedgerInv, DrainOrder
<1>9. QED
    BY <1>1, <1>5, <1>6, <1>7, <1>8 DEF LedgerInv

\* Taking the oldest grain out of the ring leaves a suffix.
LEMMA AdmitShiftsRing ==
    ASSUME LedgerInv, Admit
    PROVE  Taken' = Taken + 1 /\ RingIsSuffix'
<1>1. /\ ingress \in Seq(Grains) /\ Len(starts) \in Nat
      /\ ingress # <<>> /\ ingress' = Tail(ingress) /\ starts' = starts
    BY DEF LedgerInv, WheelInv, TypeOK, Admit, Ready
<1>2. /\ Len(ingress') = Len(ingress) - 1 /\ Len(ingress) \in Nat \ {0}
      /\ \A k \in 1 .. Len(ingress) - 1 : ingress'[k] = ingress[k + 1]
    BY <1>1
<1>3. Taken' = Taken + 1 /\ Taken \in Nat
    BY <1>1, <1>2 DEF Taken, LedgerInv, RingIsSuffix
<1>4. \A k \in 1 .. Len(ingress) - 1 : ingress[k + 1] = Taken + 1 + k
    BY <1>2, <1>3 DEF LedgerInv, RingIsSuffix
<1>5. QED
    BY <1>2, <1>3, <1>4 DEF RingIsSuffix

\* Scheduling puts the newest grain looked at behind the others of its slot.
LEMMA ScheduleLedgerInv ==
    ASSUME LedgerInv, Admit, Schedule(Head(ingress))
    PROVE  LedgerInv'
<1> DEFINE g   == Head(ingress)
           idx == ArrayIndex(SlotDelta(g))
<1>1. WheelInv'
    BY AdmitWheelInv DEF LedgerInv
<1>2. /\ g \in Grains /\ g = Taken + 1 /\ Taken \in Nat
      /\ Taken' = Taken + 1 /\ RingIsSuffix'
    BY RingHead, AdmitShiftsRing DEF Admit, Ready
<1>3. /\ idx \in SlotIndices
      /\ slots \in [SlotIndices -> Seq(Grains)]
      /\ slots' = [slots EXCEPT ![idx] = Append(@, g)]
      /\ starts' = starts /\ out' = out /\ fired' = fired /\ rejected' = rejected
    BY <1>2, SchedulePlaces DEF LedgerInv, WheelInv, TypeOK, Schedule, Admit
<1> DEFINE n == Len(slots[idx])
<1>4. /\ n \in Nat /\ DOMAIN slots[idx] = 1 .. n
      /\ DOMAIN slots'[idx] = 1 .. n + 1
      /\ \A k \in 1 .. n : slots'[idx][k] = slots[idx][k]
      /\ slots'[idx][n + 1] = g
      /\ \A i \in SlotIndices \ {idx} : slots'[i] = slots[i]
    BY <1>3
<1> HIDE DEF g, idx, n
<1>5. \A i \in SlotIndices : \A k \in DOMAIN slots[i] : slots[i][k] \in Nat
    BY <1>3 DEF Grains
<1>6. SlotsInPushOrder'
  <2>1. ASSUME NEW i \in SlotIndices
        PROVE  /\ \A k \in DOMAIN slots'[i] : slots'[i][k] <= Taken + 1
               /\ \A j, k \in DOMAIN slots'[i] : j < k => slots'[i][j] < slots'[i][k]
    <3>1. /\ \A k \in DOMAIN slots[i] : slots[i][k] <= Taken
          /\ \A j, k \in DOMAIN slots[i] : j < k => slots[i][j] < slots[i][k]
        BY DEF LedgerInv, SlotsInPushOrder
    <3>2. \A k \in DOMAIN slots[i] : slots[i][k] \in Nat
        BY <1>5
    <3>3. CASE i = idx
      <4>1. \A k \in 1 .. n : slots'[i][k] \in Nat /\ slots'[i][k] <= Taken
          BY <1>4, <3>1, <3>2, <3>3
      <4>2. \A j, k \in 1 .. n : j < k => slots'[i][j] < slots'[i][k]
          BY <1>4, <3>1, <3>3
      <4>3. DOMAIN slots'[i] = 1 .. n + 1 /\ slots'[i][n + 1] = Taken + 1
          BY <1>2, <1>4, <3>3
      <4>4. ASSUME NEW k \in 1 .. n + 1
            PROVE  slots'[i][k] <= Taken + 1
          BY <1>2, <1>4, <4>1, <4>3
      <4>5. ASSUME NEW j \in 1 .. n + 1, NEW k \in 1 .. n + 1, j < k
            PROVE  slots'[i][j] < slots'[i][k]
        <5>1. CASE k = n + 1
            BY <1>2, <1>4, <4>1, <4>3, <4>5, <5>1
        <5>2. CASE k # n + 1
            BY <1>4, <4>2, <4>5, <5>2
        <5>3. QED
            BY <5>1, <5>2
      <4>6. QED
          BY <4>3, <4>4, <4>5
    <3>4. CASE i # idx
        BY <1>2, <1>4, <3>1, <3>2, <3>4
    <3>5. QED
        BY <3>3, <3>4
  <2>2. QED
      BY <1>2, <2>1, Zenon DEF SlotsInPushOrder, SlotIndices
<1>7. ResolvedLeftRing'
  <2>1. fired \subseteq Nat /\ \A r \in Reasons : rejected[r] \subseteq Nat
      BY DEF LedgerInv, WheelInv, TypeOK, Grains
  <2>2. QED
      BY <1>2, <1>3, <2>1 DEF LedgerInv, ResolvedLeftRing, Reasons
<1>8. \A x : Placed(x)' <=> Placed(x) \/ x = g
    BY <1>3, <1>4 DEF Placed, SlotIndices
<1>9. RejectedForGood'
  <2>1. \A r \in Reasons : g \notin rejected[r]
    <3>1. \A r \in Reasons : \A x \in rejected[r] : x <= Taken
        BY DEF LedgerInv, ResolvedLeftRing
    <3>2. ~(g <= Taken)
        BY <1>2
    <3>3. QED
        BY <3>1, <3>2
  <2>2. QED
      BY <1>3, <1>8, <2>1 DEF LedgerInv, RejectedForGood, Reasons
<1>10. NoneForgotten'
  <2>1. SUFFICES ASSUME NEW x \in Grains, x <= Taken + 1
                 PROVE  \/ Placed(x)' \/ x \in fired
                        \/ \E r \in Reasons : x \in rejected[r]
      BY <1>2, <1>3, Zenon DEF NoneForgotten, Grains, Reasons
  <2>2. x <= Taken \/ x = g
      BY <1>2, <2>1 DEF Grains
  <2>3. QED
      BY <1>8, <2>2 DEF LedgerInv, NoneForgotten
<1>11. OutIsFired' /\ DrainOrder'
    BY <1>3 DEF LedgerInv, OutIsFired, DrainOrder, SlotOf
<1>12. QED
    BY <1>1, <1>2, <1>6, <1>7, <1>9, <1>10, <1>11 DEF LedgerInv

\* A grain is rejected once, and had not been anywhere before.
LEMMA RejectLedgerInv ==
    ASSUME LedgerInv, Admit, Reject(Head(ingress))
    PROVE  LedgerInv'
<1> DEFINE g == Head(ingress)
           q == RejectReason(g)
<1>1. WheelInv'
    BY AdmitWheelInv DEF LedgerInv
<1>2. /\ g \in Grains /\ g = Taken + 1 /\ Taken \in Nat
      /\ Taken' = Taken + 1 /\ RingIsSuffix'
    BY RingHead, AdmitShiftsRing DEF Admit, Ready
<1>3. /\ slots' = slots /\ starts' = starts /\ out' = out /\ fired' = fired
      /\ q \in Reasons /\ rejected \in [Reasons -> SUBSET Grains]
      /\ rejected' = [rejected EXCEPT ![q] = @ \union {g}]
    BY <1>2, RejectReasonType DEF LedgerInv, WheelInv, TypeOK, Reject, Admit
<1> HIDE DEF g, q
<1>4. /\ fired \subseteq Nat
      /\ \A r \in Reasons : rejected[r] \subseteq Nat
      /\ \A i \in SlotIndices : \A k \in DOMAIN slots[i] : slots[i][k] \in Nat
    BY SMTT(30) DEF LedgerInv, WheelInv, TypeOK, Grains
<1>5. g \notin fired /\ ~Placed(g) /\ \A r \in Reasons : g \notin rejected[r]
  <2>1. ~(g <= Taken)
      BY <1>2
  <2>2. QED
      BY <2>1, Zenon DEF LedgerInv, ResolvedLeftRing, SlotsInPushOrder, Placed
<1>6. \A x : Placed(x)' <=> Placed(x)
    BY <1>3, Zenon DEF Placed, SlotIndices
<1>7. \A r \in Reasons : \A x : x \in rejected'[r] <=> x \in rejected[r] \/ (r = q /\ x = g)
    BY <1>3
<1>8. SlotsInPushOrder'
  <2>1. \A i \in SlotIndices : \A k \in DOMAIN slots[i] : slots[i][k] <= Taken + 1
      BY <1>2, <1>4 DEF LedgerInv, SlotsInPushOrder
  <2>2. QED
      BY <1>2, <1>3, <2>1, Zenon DEF LedgerInv, SlotsInPushOrder, SlotIndices
<1>9. ResolvedLeftRing'
  <2>1. /\ \A x \in fired : x <= Taken + 1
        /\ \A r \in Reasons : \A x \in rejected[r] : x <= Taken + 1
      BY <1>2, <1>4 DEF LedgerInv, ResolvedLeftRing
  <2>2. g <= Taken + 1
      BY <1>2
  <2>3. QED
      BY <1>2, <1>3, <1>7, <2>1, <2>2, Zenon DEF ResolvedLeftRing, Reasons
<1>10. RejectedForGood'
  <2>1. SUFFICES ASSUME NEW r \in Reasons, NEW x \in rejected'[r]
                 PROVE  /\ x \notin fired /\ ~Placed(x)
                        /\ \A p \in Reasons : x \in rejected'[p] => p = r
      BY <1>3, <1>6, ZenonT(40) DEF RejectedForGood, Reasons
  <2>2. CASE x = g
      BY <1>5, <1>7, <2>1, <2>2, Zenon
  <2>3. CASE x # g
      BY <1>7, <2>1, <2>3, Zenon DEF LedgerInv, RejectedForGood
  <2>4. QED
      BY <2>2, <2>3
<1>11. NoneForgotten'
  <2>1. SUFFICES ASSUME NEW x \in Grains, x <= Taken + 1
                 PROVE  \/ Placed(x) \/ x \in fired
                        \/ \E r \in Reasons : x \in rejected'[r]
      BY <1>2, <1>3, <1>6, Zenon DEF NoneForgotten, Grains, Reasons
  <2>2. x <= Taken \/ x = g
      BY <1>2, <2>1 DEF Grains
  <2>3. QED
      BY <1>3, <1>7, <2>1, <2>2, Zenon DEF LedgerInv, NoneForgotten
<1>12. OutIsFired' /\ DrainOrder'
    BY <1>3 DEF LedgerInv, OutIsFired, DrainOrder, SlotOf
<1>13. QED
    BY <1>1, <1>2, <1>8, <1>9, <1>10, <1>11, <1>12 DEF LedgerInv

\* Emptying a slot hands its grains over behind those of earlier slots, and in
\* the order they were pushed.
LEMMA FireSlotLedgerInv ==
    ASSUME LedgerInv, FireSlot
    PROVE  LedgerInv'
<1> DEFINE idx == FiringIndex(fireAt)
           now == slotIndex + fireAt
           n   == Len(slots[idx])
           m   == Len(out)
<1>1. WheelInv'
    BY FireSlotWheelInv DEF LedgerInv
<1>2. /\ slotIndex \in Nat /\ fireAt \in Nat /\ now \in Nat
      /\ idx \in SlotIndices
      /\ slots \in [SlotIndices -> Seq(Grains)] /\ out \in Seq(Grains)
  <2>1. slotIndex \in Nat /\ fireAt \in Nat /\ now \in Nat
      BY WheelAssumption DEF LedgerInv, WheelInv, TypeOK
  <2>2. QED
      BY <2>1, IndexInArray DEF LedgerInv, WheelInv, TypeOK, FiringIndex
<1>3. /\ out' = out \o slots[idx]
      /\ fired' = fired \union Range(slots[idx])
      /\ slots' = [slots EXCEPT ![idx] = <<>>]
      /\ UNCHANGED <<ingress, starts, rejected>>
    BY DEF FireSlot
<1>4. /\ n \in Nat /\ m \in Nat
      /\ DOMAIN slots[idx] = 1 .. n /\ DOMAIN out = 1 .. m
      /\ DOMAIN out' = 1 .. m + n
      /\ \A k \in 1 .. m : out'[k] = out[k]
      /\ \A k \in 1 .. m + n : k > m => k - m \in 1 .. n /\ out'[k] = slots[idx][k - m]
      /\ \A x : x \in Range(slots[idx]) <=> \E k \in 1 .. n : slots[idx][k] = x
      /\ DOMAIN slots'[idx] = {}
      /\ \A i \in SlotIndices \ {idx} : slots'[i] = slots[i]
    BY <1>2, <1>3 DEF Range
<1>5. \A k \in 1 .. n : SlotOf(starts[slots[idx][k]]) = now
    BY <1>4, FiringEntry DEF LedgerInv
<1>6. \A k \in 1 .. m : SlotOf(starts[out[k]]) < now
    BY <1>4 DEF LedgerInv, OutIsFired, WheelInv, FiredBehind
<1>7. Taken' = Taken
    BY <1>3 DEF Taken
<1> HIDE DEF idx, now, n, m
<1>8. RingIsSuffix'
    BY <1>3, <1>7, Zenon DEF LedgerInv, RingIsSuffix
<1>9. SlotsInPushOrder'
  <2>1. ASSUME NEW i \in SlotIndices
        PROVE  /\ \A k \in DOMAIN slots'[i] : slots'[i][k] <= Taken
               /\ \A j, k \in DOMAIN slots'[i] : j < k => slots'[i][j] < slots'[i][k]
    <3>1. CASE i = idx
        BY <1>4, <3>1, Zenon
    <3>2. CASE i # idx
        BY <1>4, <3>2, Zenon DEF LedgerInv, SlotsInPushOrder
    <3>3. QED
        BY <3>1, <3>2
  <2>2. QED
      BY <1>7, <2>1, Zenon DEF SlotsInPushOrder, SlotIndices
<1>10. ASSUME NEW x
       PROVE  /\ Placed(x)' => Placed(x)
              /\ Placed(x) => Placed(x)' \/ x \in Range(slots[idx])
  <2>1. Placed(x)' => Placed(x)
    <3>1. SUFFICES ASSUME NEW i \in SlotIndices, NEW k \in DOMAIN slots'[i], slots'[i][k] = x
                   PROVE  Placed(x)
        BY Zenon DEF Placed, SlotIndices
    <3>2. i # idx
        BY <1>4, Zenon
    <3>3. slots'[i] = slots[i]
        BY <1>4, <3>2, Zenon
    <3>4. QED
        BY <3>1, <3>3, Zenon DEF Placed
  <2>2. Placed(x) => Placed(x)' \/ x \in Range(slots[idx])
    <3>1. SUFFICES ASSUME NEW i \in SlotIndices, NEW k \in DOMAIN slots[i], slots[i][k] = x
                   PROVE  Placed(x)' \/ x \in Range(slots[idx])
        BY Zenon DEF Placed
    <3>2. CASE i = idx
        BY <1>4, <3>1, <3>2, Zenon
    <3>3. CASE i # idx
      <4>1. slots'[i] = slots[i]
          BY <1>4, <3>3, Zenon
      <4>2. QED
          BY <3>1, <4>1, Zenon DEF Placed, SlotIndices
    <3>4. QED
        BY <3>2, <3>3
  <2>3. QED
      BY <2>1, <2>2
<1>11. \A x \in Range(slots[idx]) : Placed(x) /\ x <= Taken
  <2>1. SUFFICES ASSUME NEW k \in 1 .. n
                 PROVE  Placed(slots[idx][k]) /\ slots[idx][k] <= Taken
      BY <1>4, ZenonT(40)
  <2>2. k \in DOMAIN slots[idx]
      BY <1>4
  <2>3. QED
      BY <1>2, <2>2, Zenon DEF LedgerInv, SlotsInPushOrder, Placed
<1>12. ResolvedLeftRing'
  <2>1. \A x \in fired' : x <= Taken
      BY <1>3, <1>11, Zenon DEF LedgerInv, ResolvedLeftRing
  <2>2. QED
      BY <1>3, <1>7, <2>1, Zenon DEF LedgerInv, ResolvedLeftRing, Reasons
<1>13. RejectedForGood'
    BY <1>3, <1>10, <1>11, Zenon DEF LedgerInv, RejectedForGood, Reasons
<1>14. NoneForgotten'
    BY <1>3, <1>7, <1>10, Zenon DEF LedgerInv, NoneForgotten, Grains, Reasons
<1>15. ASSUME NEW k \in 1 .. m + n
       PROVE  \/ k \in 1 .. m /\ out'[k] = out[k]
              \/ k > m /\ k - m \in 1 .. n /\ out'[k] = slots[idx][k - m]
    BY <1>4
<1>16. OutIsFired'
  <2>1. SUFFICES ASSUME NEW k \in 1 .. m + n PROVE out'[k] \in fired'
      BY <1>4, Zenon DEF OutIsFired
  <2>2. QED
      BY <1>3, <1>4, <1>15, Zenon DEF LedgerInv, OutIsFired
<1>17. DrainOrder'
  <2>1. SUFFICES ASSUME NEW j \in 1 .. m + n, NEW k \in 1 .. m + n, j < k
                 PROVE  \/ SlotOf(starts[out'[j]]) < SlotOf(starts[out'[k]])
                        \/ /\ SlotOf(starts[out'[j]]) = SlotOf(starts[out'[k]])
                           /\ out'[j] < out'[k]
      BY <1>3, <1>4, ZenonT(40) DEF DrainOrder, SlotOf
  <2>2. CASE k \in 1 .. m
    <3>1. j \in 1 .. m
        BY <1>4, <2>1, <2>2
    <3>2. QED
        BY <1>4, <2>1, <2>2, <3>1, SMTT(30) DEF LedgerInv, DrainOrder
  <2>3. CASE k > m /\ j \in 1 .. m
    <3>1. k - m \in 1 .. n /\ out'[k] = slots[idx][k - m] /\ out'[j] = out[j]
        BY <1>4, <2>3, Zenon
    <3>2. SlotOf(starts[out'[k]]) = now /\ SlotOf(starts[out'[j]]) < now
        BY <1>5, <1>6, <2>3, <3>1, Zenon
    <3>3. QED
        BY <3>2, Zenon
  <2>4. CASE k > m /\ j > m
    <3>1. /\ k - m \in 1 .. n /\ out'[k] = slots[idx][k - m]
          /\ j - m \in 1 .. n /\ out'[j] = slots[idx][j - m]
        BY <1>4, <2>4, Zenon
    <3>2. j - m < k - m
        BY <1>4, <2>1
    <3>3. slots[idx][j - m] < slots[idx][k - m]
        BY <1>2, <1>4, <3>1, <3>2, Zenon DEF LedgerInv, SlotsInPushOrder
    <3>4. SlotOf(starts[out'[k]]) = now /\ SlotOf(starts[out'[j]]) = now
        BY <1>5, <3>1, Zenon
    <3>5. QED
        BY <3>1, <3>3, <3>4, Zenon
  <2>5. QED
      BY <1>15, <2>2, <2>3, <2>4, Zenon
<1>18. QED
    BY <1>1, <1>8, <1>9, <1>12, <1>13, <1>14, <1>16, <1>17 DEF LedgerInv

\* The other steps of the drain move no grain; a new drain starts with none
\* handed over.
LEMMA QuietLedgerInv ==
    ASSUME LedgerInv, WheelInv', UNCHANGED <<ingress, slots, starts, fired, rejected>>,
           out' \in {out, <<>>}
    PROVE  LedgerInv'
<1>1. Taken' = Taken /\ \A x : Placed(x)' <=> Placed(x)
    BY Zenon DEF Taken, Placed, SlotIndices
<1>2. RingIsSuffix'
    BY <1>1, Zenon DEF LedgerInv, RingIsSuffix
<1>3. SlotsInPushOrder' /\ ResolvedLeftRing'
    BY <1>1, Zenon DEF LedgerInv, SlotsInPushOrder, ResolvedLeftRing, Reasons, SlotIndices
<1>4. RejectedForGood' /\ NoneForgotten'
    BY <1>1, Zenon DEF LedgerInv, RejectedForGood, NoneForgotten, Reasons, Grains
<1>5. OutIsFired' /\ DrainOrder'
    BY DEF LedgerInv, OutIsFired, DrainOrder, SlotOf
<1>6. QED
    BY <1>2, <1>3, <1>4, <1>5 DEF LedgerInv

\* Every step keeps the invariant.
LEMMA NextLedgerInv == LedgerInv /\ [WheelStep]_vars => LedgerInv'
<1>1. SUFFICES ASSUME LedgerInv, [WheelStep]_vars PROVE LedgerInv'
    OBVIOUS
<1>2. WheelInv'
    BY <1>1, NextWheelInv DEF LedgerInv
<1>3. CASE \E s \in Nat : Push(s)
    BY <1>1, <1>3, PushLedgerInv
<1>4. CASE Admit
    BY <1>1, <1>4, ScheduleLedgerInv, RejectLedgerInv DEF Admit
<1>5. CASE FireSlot
    BY <1>1, <1>5, FireSlotLedgerInv
<1>6. CASE \/ \E d \in Int, n \in BlockSizes : BeginDrain(d, n)
           \/ StopAdmitting \/ FinishDrain \/ UNCHANGED vars
  <2>1. UNCHANGED <<ingress, slots, starts, fired, rejected>> /\ out' \in {out, <<>>}
      BY <1>6 DEF BeginDrain, StopAdmitting, FinishDrain, vars, wheelVars
  <2>2. QED
      BY <1>1, <1>2, <2>1, QuietLedgerInv
<1>7. QED
    BY <1>1, <1>3, <1>4, <1>5, <1>6 DEF WheelStep

\* Where every grain is, in every reachable state.
THEOREM LedgerInvariant == Spec => []LedgerInv
<1>1. QED
    BY InitLedgerInv, NextLedgerInv, NextIsWheelStep, PTL DEF Spec

\* Within one drain, slots come out oldest first and each in push order
\* (Wheel::advance), across the wrap-around of the array.
THEOREM DrainsInOrder == Spec => []DrainOrder
<1>1. LedgerInv => DrainOrder
    BY DEF LedgerInv
<1>2. QED
    BY <1>1, LedgerInvariant, PTL

\* A grain is in the ring exactly while it has not been looked at.
LEMMA InRingOnce ==
    ASSUME LedgerInv, NEW g \in Grains
    PROVE  Cardinality({k \in DOMAIN ingress : ingress[k] = g})
              = IF g <= Taken THEN 0 ELSE 1
<1> DEFINE At == {k \in DOMAIN ingress : ingress[k] = g}
<1>1. /\ Len(starts) \in Nat /\ Len(ingress) \in Nat
      /\ DOMAIN ingress = 1 .. Len(ingress) /\ Taken = Len(starts) - Len(ingress)
      /\ Taken \in Nat
      /\ \A k \in 1 .. Len(ingress) : ingress[k] = Taken + k
    BY DEF LedgerInv, WheelInv, TypeOK, RingIsSuffix, Taken
<1>2. g \in Nat /\ 1 <= g /\ g <= Len(starts)
    BY <1>1 DEF Grains
<1>3. CASE g <= Taken
  <2>1. At = {}
      BY <1>1, <1>2, <1>3
  <2>2. QED
      BY <1>3, <2>1, FS_EmptySet
<1>4. CASE ~(g <= Taken)
  <2>1. g - Taken \in 1 .. Len(ingress) /\ ingress[g - Taken] = g
      BY <1>1, <1>2, <1>4
  <2>2. \A k \in 1 .. Len(ingress) : ingress[k] = g => k = g - Taken
      BY <1>1, <1>2
  <2>3. At = {g - Taken}
      BY <1>1, <2>1, <2>2, Zenon
  <2>4. QED
      BY <1>4, <2>3, FS_Singleton
<1>5. QED
    BY <1>3, <1>4

\* A grain is in the array once or not at all: its slot is its own start's,
\* and the entries of a slot increase.
LEMMA InArrayOnce ==
    ASSUME LedgerInv, NEW g \in Grains
    PROVE  Cardinality({p \in SlotIndices \X (1 .. SlotCapacity) :
                           p[2] <= Len(slots[p[1]]) /\ slots[p[1]][p[2]] = g})
              = IF Placed(g) THEN 1 ELSE 0
<1> DEFINE Places == SlotIndices \X (1 .. SlotCapacity)
           At == {p \in Places : p[2] <= Len(slots[p[1]]) /\ slots[p[1]][p[2]] = g}
<1>1. ASSUME NEW i \in SlotIndices
      PROVE  /\ Len(slots[i]) \in Nat /\ Len(slots[i]) <= SlotCapacity
             /\ DOMAIN slots[i] = 1 .. Len(slots[i])
             /\ \A k \in 1 .. SlotCapacity :
                   k \in DOMAIN slots[i] <=> k <= Len(slots[i])
             /\ DOMAIN slots[i] \subseteq 1 .. SlotCapacity
  <2>1. slots[i] \in Seq(Grains) /\ Len(slots[i]) <= SlotCapacity
      BY DEF LedgerInv, WheelInv, TypeOK
  <2>2. QED
      BY <2>1, WheelAssumption
<1>2. CASE ~Placed(g)
  <2>1. At = {}
      BY <1>1, <1>2, Zenon DEF Placed
  <2>2. QED
      BY <1>2, <2>1, FS_EmptySet
<1>3. CASE Placed(g)
  <2>1. PICK i \in SlotIndices : \E k \in DOMAIN slots[i] : slots[i][k] = g
      BY <1>3 DEF Placed
  <2>2. PICK k \in DOMAIN slots[i] : slots[i][k] = g
      BY <2>1
  <2>3. ASSUME NEW j \in SlotIndices, NEW l \in DOMAIN slots[j], slots[j][l] = g
        PROVE  j = i /\ l = k
    <3>1. (SlotOf(starts[g]) % NSlots) = i /\ (SlotOf(starts[g]) % NSlots) = j
        BY <2>2, <2>3, PlacedGrain, Zenon DEF LedgerInv
    <3>2. j = i
        BY <3>1
    <3>3. /\ ~(k < l) /\ ~(l < k)
      <4>1. k \in Nat /\ l \in Nat /\ g \in Nat
          BY <1>1, <3>2 DEF Grains
      <4>2. /\ k < l => slots[i][k] < slots[i][l]
            /\ l < k => slots[i][l] < slots[i][k]
          BY <3>2, Zenon DEF LedgerInv, SlotsInPushOrder
      <4>3. QED
          BY <2>2, <2>3, <3>2, <4>1, <4>2
    <3>4. k \in Nat /\ l \in Nat
        BY <1>1, <3>2
    <3>5. QED
        BY <3>2, <3>3, <3>4
  <2>4. <<i, k>> \in At
      BY <1>1, <2>2
  <2>5. ASSUME NEW p \in At
        PROVE  p = <<i, k>>
    <3>1. /\ p[1] \in SlotIndices /\ p[2] \in 1 .. SlotCapacity /\ p = <<p[1], p[2]>>
          /\ p[2] <= Len(slots[p[1]]) /\ slots[p[1]][p[2]] = g
        BY <2>5
    <3>2. p[2] \in DOMAIN slots[p[1]]
        BY <1>1, <3>1
    <3>3. QED
        BY <2>3, <3>1, <3>2
  <2>6. At = {<<i, k>>}
      BY <2>4, <2>5
  <2>7. QED
      BY <1>3, <2>6, FS_Singleton
<1>4. QED
    BY <1>2, <1>3

\* A grain is rejected for one reason or for none.
LEMMA RejectedOnce ==
    ASSUME LedgerInv, NEW g \in Grains
    PROVE  Cardinality({r \in Reasons : g \in rejected[r]})
              = IF \E r \in Reasons : g \in rejected[r] THEN 1 ELSE 0
<1> DEFINE Why == {r \in Reasons : g \in rejected[r]}
<1>1. CASE \E r \in Reasons : g \in rejected[r]
  <2>1. PICK r \in Reasons : g \in rejected[r]
      BY <1>1
  <2>2. Why = {r}
      BY <2>1, Zenon DEF LedgerInv, RejectedForGood
  <2>3. QED
      BY <1>1, <2>2, FS_Singleton
<1>2. CASE ~\E r \in Reasons : g \in rejected[r]
  <2>1. Why = {}
      BY <1>2, Zenon
  <2>2. QED
      BY <1>2, <2>1, FS_EmptySet
<1>3. QED
    BY <1>1, <1>2

\* LedgerInv puts every grain in exactly one place.
LEMMA LedgerIsExact ==
    ASSUME LedgerInv
    PROVE  ExactlyOnce
<1>1. SUFFICES ASSUME NEW g \in Grains
               PROVE  (IF g <= Taken THEN 0 ELSE 1)
                      + (IF Placed(g) THEN 1 ELSE 0)
                      + (IF \E r \in Reasons : g \in rejected[r] THEN 1 ELSE 0)
                      + (IF g \in fired THEN 1 ELSE 0) = 1
    BY InRingOnce, InArrayOnce, RejectedOnce, ZenonT(40) DEF ExactlyOnce
<1>2. Placed(g) => g <= Taken /\ g \notin fired
  <2>1. SUFFICES ASSUME NEW i \in SlotIndices, NEW k \in DOMAIN slots[i], slots[i][k] = g
                 PROVE  g <= Taken /\ g \notin fired
      BY DEF Placed
  <2>2. g <= Taken
      BY <2>1, Zenon DEF LedgerInv, SlotsInPushOrder
  <2>3. slotIndex + fireAt <= SlotOf(starts[g]) /\ SlotOf(starts[g]) \in Nat
      BY <2>1, PlacedGrain, Zenon DEF LedgerInv
  <2>4. g \in fired => SlotOf(starts[g]) < slotIndex + fireAt
      BY Zenon DEF LedgerInv, WheelInv, FiredBehind
  <2>5. slotIndex + fireAt \in Nat
      BY WheelAssumption DEF LedgerInv, WheelInv, TypeOK
  <2>6. QED
      BY <2>2, <2>3, <2>4, <2>5
<1>3. g \in fired => g <= Taken
    BY Zenon DEF LedgerInv, ResolvedLeftRing
<1>4. (\E r \in Reasons : g \in rejected[r]) => g <= Taken /\ g \notin fired /\ ~Placed(g)
    BY Zenon DEF LedgerInv, ResolvedLeftRing, RejectedForGood
<1>5. g <= Taken => Placed(g) \/ g \in fired \/ \E r \in Reasons : g \in rejected[r]
    BY Zenon DEF LedgerInv, NoneForgotten
<1>6. QED
    BY <1>2, <1>3, <1>4, <1>5

\* A grain push accepted is in the ring, in one slot, fired, or rejected for
\* one reason, and never in two of these places: whatever the interleaving of
\* the producer with drain_block_safe.
THEOREM GrainsAccounted == Spec => []ExactlyOnce
<1>1. LedgerInv => ExactlyOnce
    BY LedgerIsExact
<1>2. QED
    BY <1>1, LedgerInvariant, PTL

-----------------------------------------------------------------------------
(* The array implements the calendar.  An entry of the array is the set of *)
(* calendar entries that are due in one slot, because less than a rotation *)
(* is in the array and no entry repeats a grain: so the array's test for a *)
(* full slot is the calendar's, and emptying an entry is that slot         *)
(* elapsing.                                                               *)

\* The grains in the array, as the calendar sees them.
InWheel == UNION {Range(slots[i]) : i \in SlotIndices}

\* They are the grains that are placed.
LEMMA InWheelIsPlaced ==
    ASSUME NEW g
    PROVE  g \in InWheel <=> Placed(g)
<1>1. g \in InWheel <=> \E i \in SlotIndices : g \in Range(slots[i])
    BY Zenon DEF InWheel
<1>2. ASSUME NEW i
      PROVE  g \in Range(slots[i]) <=> \E k \in DOMAIN slots[i] : slots[i][k] = g
    BY Zenon DEF Range
<1>3. QED
    BY <1>1, <1>2, Zenon DEF Placed

\* An entry of the array counts each of its grains once.
LEMMA EntryCounts ==
    ASSUME LedgerInv, NEW i \in SlotIndices
    PROVE  Cardinality(Range(slots[i])) = Len(slots[i])
<1> DEFINE q == slots[i]
           n == Len(q)
<1>1. q \in Seq(Grains) /\ n \in Nat /\ DOMAIN q = 1 .. n
    BY DEF LedgerInv, WheelInv, TypeOK
<1>2. q \in [1 .. n -> Range(q)]
    BY <1>1 DEF Range
<1>3. ASSUME NEW j \in 1 .. n, NEW k \in 1 .. n, q[j] = q[k]
      PROVE  j = k
  <2>1. q[j] \in Nat /\ q[k] \in Nat
      BY <1>1 DEF Grains
  <2>2. /\ j < k => q[j] < q[k]
        /\ k < j => q[k] < q[j]
      BY <1>1, Zenon DEF LedgerInv, SlotsInPushOrder
  <2>3. QED
      BY <1>3, <2>1, <2>2
<1>4. \A g \in Range(q) : \E k \in 1 .. n : q[k] = g
    BY <1>1 DEF Range
<1> HIDE DEF q, n
<1>5. q \in Bijection(1 .. n, Range(q))
    BY <1>2, <1>3, <1>4, Zenon DEF Bijection, Injection, Surjection, IsInjective
<1>6. ExistsBijection(1 .. n, Range(q))
    BY <1>5, Zenon DEF ExistsBijection
<1>7. Cardinality(Range(q)) = n
    BY <1>1, <1>6, FS_CountingElements
<1>8. QED
    BY <1>7 DEF q, n

\* Within the rotation ahead, the grains due in a slot are those of its entry.
LEMMA EntryIsDue ==
    ASSUME LedgerInv, NEW slot \in Nat,
           slotIndex + fireAt <= slot, slot < slotIndex + NSlots
    PROVE  /\ (slot % NSlots) \in SlotIndices
           /\ {h \in InWheel : SlotOf(starts[h]) = slot}
                 = Range(slots[slot % NSlots])
<1> DEFINE idx == slot % NSlots
<1>1. idx \in SlotIndices
    BY IndexInArray
<1>2. slotIndex \in Nat /\ fireAt \in Nat /\ NSlots \in Nat \ {0}
    BY WheelAssumption DEF LedgerInv, WheelInv, TypeOK
<1>3. ASSUME NEW h \in Range(slots[idx])
      PROVE  SlotOf(starts[h]) = slot
  <2>1. PICK k \in DOMAIN slots[idx] : h = slots[idx][k]
      BY DEF Range
  <2> DEFINE there == SlotOf(starts[h])
  <2>2. /\ there \in Nat /\ (there % NSlots) = idx
        /\ slotIndex + fireAt <= there /\ there < slotIndex + NSlots
      BY <1>1, <2>1, PlacedGrain, Zenon DEF LedgerInv
  <2> HIDE DEF there
  <2>3. ~(there < slot)
    <3> SUFFICES ASSUME there < slot PROVE FALSE
        OBVIOUS
    <3>1. slot - there < NSlots
        BY <1>2, <2>2
    <3>2. (there % NSlots) # (slot % NSlots)
        BY <1>2, <2>2, <3>1, ModDistinct
    <3>3. QED
        BY <2>2, <3>2, Zenon
  <2>4. ~(slot < there)
    <3> SUFFICES ASSUME slot < there PROVE FALSE
        OBVIOUS
    <3>1. there - slot < NSlots
        BY <1>2, <2>2
    <3>2. (slot % NSlots) # (there % NSlots)
        BY <1>2, <2>2, <3>1, ModDistinct
    <3>3. QED
        BY <2>2, <3>2, Zenon
  <2>5. there = slot
    <3>1. there \in Nat
        BY <2>2, Zenon
    <3> HIDE DEF idx
    <3>2. QED
        BY <2>3, <2>4, <3>1, SMT
  <2>6. QED
      BY <2>5 DEF there
<1>4. ASSUME NEW h \in InWheel, SlotOf(starts[h]) = slot
      PROVE  h \in Range(slots[idx])
  <2>1. PICK i \in SlotIndices : h \in Range(slots[i])
      BY DEF InWheel
  <2>2. PICK k \in DOMAIN slots[i] : h = slots[i][k]
      BY <2>1 DEF Range
  <2>3. (slot % NSlots) = i
      BY <1>4, <2>2, PlacedGrain, Zenon DEF LedgerInv
  <2>4. QED
      BY <2>1, <2>3, Zenon
<1>5. Range(slots[idx]) \subseteq InWheel
    BY <1>1, Zenon DEF InWheel
<1> HIDE DEF idx
<1>6. {h \in InWheel : SlotOf(starts[h]) = slot} = Range(slots[idx])
    BY <1>3, <1>4, <1>5, Zenon
<1>7. QED
    BY <1>1, <1>6 DEF idx

\* The grain at the head of the ring is due within the rotation, or behind it.
LEMMA HeadIsDue ==
    ASSUME LedgerInv, Admit
    PROVE  LET g == Head(ingress)
           IN  /\ g \in Grains
               /\ slotIndex \in Nat /\ fireAt = 0
               /\ SlotOf(starts[g]) \in Nat
               /\ SlotOf(starts[g]) < slotIndex + NSlots
               /\ RejectReason(g) = "too_late" <=> SlotOf(starts[g]) < slotIndex
<1> DEFINE g == Head(ingress)
           slot == SlotOf(starts[g])
<1>1. /\ g \in Grains /\ fireAt = 0 /\ slotIndex \in Nat
      /\ starts[g] < AdmitLimit
    BY RingHead DEF LedgerInv, WheelInv, PhaseOK, TypeOK, Admit, Ready
<1>2. /\ starts[g] \in Nat /\ WheelTime \in Nat /\ Horizon \in Nat
      /\ NSlots \in Nat \ {0} /\ SlotDuration \in Nat \ {0}
    BY <1>1, StartIsNat, WheelTypes, WheelAssumption DEF LedgerInv, WheelInv
<1>3. /\ slot \in Nat
      /\ slot * SlotDuration <= starts[g]
      /\ starts[g] < (slot + 1) * SlotDuration
    BY <1>2, DivBounds DEF SlotOf
<1>4. /\ starts[g] < slotIndex * SlotDuration + NSlots * SlotDuration
      /\ WheelTime = slotIndex * SlotDuration
    BY <1>1 DEF AdmitLimit, WheelTime, Horizon
<1> HIDE DEF slot
<1>5. slot < slotIndex + NSlots
    BY <1>1, <1>2, <1>3, <1>4, SMT
<1>6. starts[g] < WheelTime <=> slot < slotIndex
    BY <1>1, <1>2, <1>3, <1>4, SMT
<1>7. RejectReason(g) = "too_late" <=> starts[g] < WheelTime
  <2>1. CASE starts[g] < WheelTime
      BY <1>2, <2>1 DEF RejectReason
  <2>2. CASE starts[g] >= WheelTime + Horizon
      BY <1>2, <2>2 DEF RejectReason
  <2>3. CASE starts[g] \in WheelTime .. WheelTime + Horizon - 1
      BY <1>2, <2>3 DEF RejectReason
  <2>4. QED
      BY <1>2, <2>1, <2>2, <2>3
<1>8. QED
    BY <1>1, <1>3, <1>5, <1>6, <1>7, Zenon DEF slot

\* No grain of the calendar is of a slot that has elapsed.
LEMMA InWheelAhead ==
    ASSUME LedgerInv, NEW g \in InWheel
    PROVE  SlotOf(starts[g]) \in Nat /\ slotIndex + fireAt <= SlotOf(starts[g])
<1>1. PICK i \in SlotIndices : g \in Range(slots[i])
    BY DEF InWheel
<1>2. PICK k \in DOMAIN slots[i] : g = slots[i][k]
    BY <1>1 DEF Range
<1>3. QED
    BY <1>2, PlacedGrain, Zenon DEF LedgerInv

\* The calendar counts as the wheel does.
LEMMA SameCardinality == \A S : CalendarView!Cardinality(S) = Cardinality(S)
BY DEF CalendarView!Cardinality, Cardinality

\* Scheduling a grain enters it in the calendar.
LEMMA ScheduleEnters ==
    ASSUME LedgerInv, Admit, Schedule(Head(ingress))
    PROVE  CalendarView!Enter
<1> DEFINE g    == Head(ingress)
           idx  == ArrayIndex(SlotDelta(g))
           slot == SlotOf(starts[g])
<1>1. /\ g \in Grains /\ slotIndex \in Nat /\ fireAt = 0
      /\ slot \in Nat /\ slot < slotIndex + NSlots
      /\ NSlots \in Nat
    BY HeadIsDue, WheelAssumption
<1>2. /\ SlotDelta(g) \in 0 .. NSlots - 1
      /\ slotIndex + SlotDelta(g) = slot
      /\ idx \in SlotIndices
      /\ Len(slots[idx]) < SlotCapacity
    BY <1>1, SchedulePlaces DEF LedgerInv, WheelInv, Schedule
<1>3. /\ slots \in [SlotIndices -> Seq(Grains)]
      /\ slots' = [slots EXCEPT ![idx] = Append(@, g)]
      /\ ingress # <<>> /\ ingress' = Tail(ingress)
      /\ UNCHANGED <<slotIndex, fireAt, starts, fired, rejected>>
    BY DEF LedgerInv, WheelInv, TypeOK, Schedule, Admit, Ready
<1>4. slots[idx] \in Seq(Grains)
    BY <1>2, <1>3
<1>5. slot \in Elapsed .. Elapsed + NSlots - 1
    BY <1>1, <1>2 DEF Elapsed
<1>6. Cardinality({h \in InWheel : SlotOf(starts[h]) = slot}) < SlotCapacity
  <2>1. slotIndex + fireAt <= slot
      BY <1>1, <1>2
  <2>2. (slot % NSlots) = idx
      BY <1>2, Zenon DEF ArrayIndex
  <2>3. {h \in InWheel : SlotOf(starts[h]) = slot} = Range(slots[slot % NSlots])
      BY <1>1, <2>1, EntryIsDue
  <2>4. Cardinality(Range(slots[idx])) = Len(slots[idx])
      BY <1>2, EntryCounts
  <2>5. QED
      BY <1>2, <2>2, <2>3, <2>4, Zenon
<1>7. InWheel' = InWheel \union {g}
  <2>1. Range(slots'[idx]) = Range(slots[idx]) \union {g}
    <3>1. slots'[idx] = Append(slots[idx], g)
        BY <1>2, <1>3
    <3>2. \A q \in Seq(Grains) : Range(Append(q, g)) = Range(q) \union {g}
      <4>1. SUFFICES ASSUME NEW q \in Seq(Grains), NEW x
                     PROVE  x \in Range(Append(q, g)) <=> x \in Range(q) \/ x = g
          BY Zenon
      <4>2. /\ Len(q) \in Nat /\ DOMAIN q = 1 .. Len(q)
            /\ DOMAIN Append(q, g) = 1 .. Len(q) + 1
            /\ \A k \in 1 .. Len(q) : Append(q, g)[k] = q[k]
            /\ Append(q, g)[Len(q) + 1] = g
          BY <1>1, <4>1
      <4>3. x \in Range(Append(q, g)) <=>
               \E k \in 1 .. Len(q) + 1 : x = Append(q, g)[k]
          BY <4>2 DEF Range
      <4>4. x \in Range(q) <=> \E k \in 1 .. Len(q) : x = q[k]
          BY <4>2 DEF Range
      <4>5. \A k \in 1 .. Len(q) + 1 : k \in 1 .. Len(q) \/ k = Len(q) + 1
          BY <4>2
      <4>6. Len(q) + 1 \in 1 .. Len(q) + 1 /\ 1 .. Len(q) \subseteq 1 .. Len(q) + 1
          BY <4>2
      <4>7. QED
          BY <4>2, <4>3, <4>4, <4>5, <4>6, Zenon
    <3>3. QED
        BY <1>4, <3>1, <3>2, Zenon
  <2>2. \A i \in SlotIndices \ {idx} : slots'[i] = slots[i]
      BY <1>3
  <2> HIDE DEF g, idx, slot
  <2>3. ASSUME NEW x
        PROVE  x \in InWheel' <=> x \in InWheel \/ x = g
    <3>1. x \in InWheel' <=> \E i \in SlotIndices : x \in Range(slots'[i])
        BY Zenon DEF InWheel, Range, SlotIndices
    <3>2. x \in InWheel <=> \E i \in SlotIndices : x \in Range(slots[i])
        BY Zenon DEF InWheel
    <3>3. QED
        BY <1>2, <2>1, <2>2, <3>1, <3>2, Zenon
  <2>4. QED
      BY <2>3, Zenon
<1>8. /\ CalendarView!Due(Head(ingress)) = SlotOf(starts[Head(ingress)])
      /\ \A h : CalendarView!Due(h) = SlotOf(starts[h])
    BY Zenon DEF CalendarView!Due, SlotOf
<1>9. /\ CalendarView!Due(g) \in Elapsed .. Elapsed + NSlots - 1
      /\ CalendarView!Cardinality(
             {h \in InWheel : CalendarView!Due(h) = CalendarView!Due(g)})
            < SlotCapacity
    BY <1>5, <1>6, <1>8, SameCardinality, Zenon
<1>10. Elapsed' = Elapsed
    BY <1>3 DEF Elapsed
<1> HIDE DEF idx, slot
<1>11. QED
    BY <1>3, <1>7, <1>9, <1>10 DEF CalendarView!Enter, InWheel

\* A rejected grain is refused by the calendar for the same reason.
LEMMA RejectRefuses ==
    ASSUME LedgerInv, Admit, Reject(Head(ingress))
    PROVE  CalendarView!RefuseLate \/ CalendarView!RefuseCrowded
<1> DEFINE g    == Head(ingress)
           idx  == ArrayIndex(SlotDelta(g))
           slot == SlotOf(starts[g])
           r    == RejectReason(g)
<1>1. /\ g \in Grains /\ slotIndex \in Nat /\ fireAt = 0
      /\ slot \in Nat /\ slot < slotIndex + NSlots
      /\ NSlots \in Nat \ {0}
      /\ r = "too_late" <=> slot < slotIndex
    BY HeadIsDue, WheelAssumption
<1>2. /\ ingress # <<>> /\ ingress' = Tail(ingress)
      /\ UNCHANGED <<slotIndex, slots, fireAt, starts, fired>>
      /\ rejected' = [rejected EXCEPT ![r] = @ \union {g}]
      /\ rejected \in [Reasons -> SUBSET Grains]
    BY DEF LedgerInv, WheelInv, TypeOK, Reject, Admit, Ready
<1>3. r \in {"too_late", "slot_full"}
  <2>1. r \in Reasons
      BY <1>1, RejectReasonType DEF LedgerInv, WheelInv, Reject
  <2>2. WheelInv'
      BY AdmitWheelInv DEF LedgerInv
  <2>3. r = "too_early" => g \in rejected'["too_early"]
      BY <1>2 DEF Reasons
  <2>4. QED
      BY <2>1, <2>2, <2>3 DEF WheelInv, TooEarlyUnreachable, Reasons
<1>4. InWheel' = InWheel /\ Elapsed' = Elapsed /\ Elapsed = slotIndex
    BY <1>1, <1>2 DEF InWheel, Elapsed, SlotIndices, Range
<1>5. \A h : CalendarView!Due(h) = SlotOf(starts[h])
    BY Zenon DEF CalendarView!Due, SlotOf
<1>6. CASE r = "too_late"
  <2>1. CalendarView!Due(g) < Elapsed
      BY <1>1, <1>4, <1>5, <1>6
  <2>2. /\ rejected'["too_late"] = rejected["too_late"] \union {g}
        /\ rejected'["slot_full"] = rejected["slot_full"]
      BY <1>2, <1>6 DEF Reasons
  <2>3. CalendarView!RefuseLate
      BY <1>2, <1>4, <2>1, <2>2 DEF CalendarView!RefuseLate, InWheel
  <2>4. QED
      BY <2>3
<1>7. CASE r = "slot_full"
  <2>1. slotIndex <= slot
      BY <1>1, <1>7
  <2>2. starts[g] \in Nat /\ WheelTime \in Nat /\ WheelTime <= starts[g]
        /\ SlotIsFull(idx)
    <3>1. starts[g] \in Nat /\ WheelTime \in Nat /\ Horizon \in Nat
        BY <1>1, StartIsNat, WheelTypes DEF LedgerInv, WheelInv
    <3>2. CASE starts[g] < WheelTime
        BY <1>7, <3>1, <3>2 DEF RejectReason
    <3>3. CASE starts[g] >= WheelTime + Horizon
        BY <1>7, <3>1, <3>3 DEF RejectReason
    <3>4. CASE starts[g] \in WheelTime .. WheelTime + Horizon - 1
        BY <1>7, <3>1, <3>4 DEF RejectReason
    <3>5. QED
        BY <3>1, <3>2, <3>3, <3>4
  <2>3. SlotDelta(g) = slot - slotIndex
    <3>1. SlotDuration \in Nat \ {0} /\ slotIndex * SlotDuration <= starts[g]
        BY <2>2, WheelAssumption DEF WheelTime
    <3>2. QED
        BY <1>1, <2>2, <3>1, DivShift DEF SlotDelta, SlotOf, WheelTime
  <2>4. idx = slot % NSlots
    <3>1. slotIndex + SlotDelta(g) = slot
        BY <1>1, <2>3
    <3>2. QED
        BY <3>1, Zenon DEF ArrayIndex
  <2>5. /\ idx \in SlotIndices
        /\ {h \in InWheel : SlotOf(starts[h]) = slot} = Range(slots[idx])
    <3>1. slotIndex + fireAt <= slot
        BY <1>1, <2>1
    <3>2. /\ (slot % NSlots) \in SlotIndices
          /\ {h \in InWheel : SlotOf(starts[h]) = slot} = Range(slots[slot % NSlots])
        BY <1>1, <3>1, EntryIsDue
    <3>3. QED
        BY <2>4, <3>2, Zenon
  <2>6. Cardinality(Range(slots[idx])) >= SlotCapacity
      BY <2>2, <2>5, EntryCounts DEF SlotIsFull
  <2>7. CalendarView!Due(g) \in Elapsed .. Elapsed + NSlots - 1
      BY <1>1, <1>4, <1>5, <2>1
  <2>8. CalendarView!Cardinality(
            {h \in InWheel : CalendarView!Due(h) = CalendarView!Due(g)})
           >= SlotCapacity
      BY <1>5, <2>5, <2>6, SameCardinality, Zenon
  <2>9. /\ rejected'["slot_full"] = rejected["slot_full"] \union {g}
        /\ rejected'["too_late"] = rejected["too_late"]
      BY <1>2, <1>7 DEF Reasons
  <2>10. CalendarView!RefuseCrowded
    <3> HIDE DEF r, slot, idx
    <3>1. QED
        BY <1>2, <1>4, <2>7, <2>8, <2>9 DEF CalendarView!RefuseCrowded, InWheel
  <2>11. QED
      BY <2>10
<1>8. QED
    BY <1>3, <1>6, <1>7

\* Emptying an entry lets its slot, and no other, elapse.
LEMMA FireElapses ==
    ASSUME LedgerInv, FireSlot
    PROVE  CalendarView!Elapse
<1> DEFINE idx == FiringIndex(fireAt)
<1>1. /\ slotIndex \in Nat /\ fireAt \in Nat /\ Elapsed \in Nat
      /\ Elapsed < slotIndex + NSlots /\ Elapsed = slotIndex + fireAt
      /\ NSlots \in Nat \ {0}
  <2>1. Steps \in 0 .. NSlots /\ fireAt < Steps /\ slotIndex \in Nat
        /\ fireAt \in 0 .. NSlots
      BY WheelTypes DEF LedgerInv, WheelInv, TypeOK, FireSlot
  <2>2. QED
      BY <2>1, WheelAssumption DEF Elapsed
<1>2. /\ slots \in [SlotIndices -> Seq(Grains)]
      /\ slots' = [slots EXCEPT ![idx] = <<>>]
      /\ fired' = fired \union Range(slots[idx])
      /\ Elapsed' = Elapsed + 1
      /\ UNCHANGED <<ingress, starts, rejected>>
    BY <1>1 DEF LedgerInv, WheelInv, TypeOK, FireSlot, Elapsed
<1>3. idx = Elapsed % NSlots
    BY <1>1, Zenon DEF FiringIndex, Elapsed
<1>4. /\ idx \in SlotIndices
      /\ {h \in InWheel : SlotOf(starts[h]) = Elapsed} = Range(slots[idx])
  <2>1. slotIndex + fireAt <= Elapsed
      BY <1>1
  <2>2. /\ (Elapsed % NSlots) \in SlotIndices
        /\ {h \in InWheel : SlotOf(starts[h]) = Elapsed}
              = Range(slots[Elapsed % NSlots])
      BY <1>1, <2>1, EntryIsDue
  <2>3. QED
      BY <1>3, <2>2, Zenon
<1>5. \A i \in SlotIndices \ {idx} : slots'[i] = slots[i]
    BY <1>2
<1>6. slots'[idx] = <<>>
    BY <1>2, <1>4
<1> HIDE DEF idx
<1>7. {h \in InWheel : SlotOf(starts[h]) < Elapsed + 1} = Range(slots[idx])
  <2>1. \A h \in InWheel : SlotOf(starts[h]) < Elapsed + 1 <=> SlotOf(starts[h]) = Elapsed
    <3>1. SUFFICES ASSUME NEW h \in InWheel
                   PROVE  SlotOf(starts[h]) < Elapsed + 1 <=> SlotOf(starts[h]) = Elapsed
        OBVIOUS
    <3>2. SlotOf(starts[h]) \in Nat /\ slotIndex + fireAt <= SlotOf(starts[h])
        BY InWheelAhead
    <3>3. QED
        BY <1>1, <3>2
  <2>2. QED
      BY <1>4, <2>1, Zenon
<1>8. InWheel' = InWheel \ Range(slots[idx])
  <2>1. SUFFICES ASSUME NEW x
                 PROVE  x \in InWheel' <=> x \in InWheel /\ x \notin Range(slots[idx])
      BY Zenon
  <2>2. x \in InWheel' <=> \E i \in SlotIndices : x \in Range(slots'[i])
      BY Zenon DEF InWheel, Range, SlotIndices
  <2>3. x \in InWheel <=> \E i \in SlotIndices : x \in Range(slots[i])
      BY Zenon DEF InWheel
  <2>4. ~(x \in Range(slots'[idx]))
      BY <1>6 DEF Range
  <2>5. ASSUME NEW i \in SlotIndices, i # idx, x \in Range(slots[i])
        PROVE  x \notin Range(slots[idx])
    <3>1. PICK k \in DOMAIN slots[i] : x = slots[i][k]
        BY <2>5 DEF Range
    <3>2. (SlotOf(starts[x]) % NSlots) = i
        BY <3>1, PlacedGrain, Zenon DEF LedgerInv
    <3>3. x \in Range(slots[idx]) => SlotOf(starts[x]) = Elapsed
        BY <1>4, Zenon
    <3>4. QED
        BY <1>3, <2>5, <3>2, <3>3, Zenon
  <2>6. QED
      BY <1>4, <1>5, <2>2, <2>3, <2>4, <2>5, Zenon
<1>9. \A h : CalendarView!Due(h) = SlotOf(starts[h])
    BY Zenon DEF CalendarView!Due, SlotOf
<1>10. {h \in InWheel : CalendarView!Due(h) < Elapsed'} = Range(slots[idx])
    BY <1>2, <1>7, <1>9, Zenon
<1>11. Elapsed' > Elapsed
    BY <1>1, <1>2
<1>12. QED
    BY <1>2, <1>8, <1>10, <1>11 DEF CalendarView!Elapse, InWheel

\* So it is in every state, the next one included.
AllAhead ==
    \A h \in InWheel : /\ SlotOf(starts[h]) \in Nat
                       /\ slotIndex + fireAt <= SlotOf(starts[h])

LEMMA EveryoneAhead == LedgerInv' => AllAhead'
<1>1. LedgerInv => AllAhead
    BY InWheelAhead DEF AllAhead
<1>2. QED
    BY <1>1, PTL

\* When the read head jumps, the slots it passes elapse with nothing due.
LEMMA JumpElapsesNothing ==
    ASSUME LedgerInv, FinishDrain
    PROVE  CalendarView!Elapse \/ UNCHANGED CalendarView!vars
<1>1. LedgerInv'
    BY NextLedgerInv DEF WheelStep
<1>2. UNCHANGED <<ingress, slots, starts, fired, rejected>>
    BY DEF FinishDrain
<1>3. InWheel' = InWheel
    BY <1>2 DEF InWheel, SlotIndices, Range
<1>4. /\ Elapsed \in Nat /\ Elapsed' \in Nat /\ Elapsed <= Elapsed'
      /\ Elapsed' = (slotIndex + fireAt)'
  <2>1. /\ slotIndex \in Nat /\ NextIndex \in Nat /\ slotIndex <= NextIndex
        /\ fireAt = Steps /\ slotIndex' = NextIndex /\ fireAt' = 0
        /\ NSlots \in Nat \ {0}
      BY WheelTypes, WheelAssumption DEF LedgerInv, WheelInv, TypeOK, FinishDrain
  <2>2. QED
      BY <2>1 DEF Elapsed, Steps
<1>5. CASE Elapsed' = Elapsed
    BY <1>2, <1>3, <1>5 DEF CalendarView!vars, InWheel
<1>6. CASE Elapsed' > Elapsed
  <2>1. ASSUME NEW g \in InWheel
        PROVE  ~(SlotOf(starts[g]) < Elapsed')
    <3>1. g \in InWheel' /\ starts' = starts
        BY <1>2, <1>3
    <3>2. /\ SlotOf(starts[g]) \in Nat
          /\ (slotIndex + fireAt)' <= SlotOf(starts[g])
        BY <1>1, <3>1, EveryoneAhead DEF AllAhead, SlotOf
    <3>3. QED
        BY <1>4, <3>2
  <2>2. {g \in InWheel : CalendarView!Due(g) < Elapsed'} = {}
      BY <2>1, Zenon DEF CalendarView!Due, SlotOf
  <2>3. fired' = fired \union {} /\ InWheel' = InWheel \ {}
      BY <1>2, <1>3, Zenon
  <2>4. QED
      BY <1>2, <1>6, <2>2, <2>3 DEF CalendarView!Elapse, InWheel
<1>7. QED
    BY <1>4, <1>5, <1>6

\* A push submits a grain.
LEMMA PushSubmits ==
    ASSUME LedgerInv, NEW s \in Nat, Push(s)
    PROVE  CalendarView!Submit
<1>1. /\ starts \in Seq(Nat) /\ starts' = Append(starts, s)
      /\ ingress' = Append(ingress, Len(starts) + 1)
      /\ UNCHANGED <<slots, slotIndex, fireAt, fired, rejected>>
    BY DEF LedgerInv, WheelInv, TypeOK, Push, wheelVars
<1>2. Len(starts') # Len(starts) /\ starts'[Len(starts) + 1] = s
    BY <1>1
<1>3. starts' # starts
    BY <1>2
<1>4. InWheel' = InWheel /\ Elapsed' = Elapsed
    BY <1>1 DEF InWheel, SlotIndices, Range, Elapsed
<1>5. QED
    BY <1>1, <1>2, <1>3, <1>4 DEF CalendarView!Submit, InWheel

\* Every step of the scheduler is a step of the calendar, or invisible to it.
LEMMA StepImplementsCalendar ==
    ASSUME LedgerInv, [WheelStep]_vars
    PROVE  [CalendarView!Next]_(CalendarView!vars)
<1>1. CASE \E s \in Nat : Push(s)
    BY <1>1, PushSubmits DEF CalendarView!Next
<1>2. CASE Admit
  <2>1. Schedule(Head(ingress)) \/ Reject(Head(ingress))
      BY <1>2 DEF Admit
  <2>2. QED
      BY <1>2, <2>1, ScheduleEnters, RejectRefuses DEF CalendarView!Next
<1>3. CASE FireSlot
    BY <1>3, FireElapses DEF CalendarView!Next
<1>4. CASE FinishDrain
    BY <1>4, JumpElapsesNothing DEF CalendarView!Next
<1>5. CASE \/ \E d \in Int, n \in BlockSizes : BeginDrain(d, n)
           \/ StopAdmitting \/ UNCHANGED vars
  <2>1. UNCHANGED <<ingress, slots, slotIndex, fireAt, starts, fired, rejected>>
      BY <1>5 DEF BeginDrain, StopAdmitting, vars, wheelVars
  <2>2. InWheel' = InWheel /\ Elapsed' = Elapsed
      BY <2>1 DEF InWheel, SlotIndices, Range, Elapsed
  <2>3. QED
      BY <2>1, <2>2 DEF CalendarView!vars, InWheel
<1>6. QED
    BY <1>1, <1>2, <1>3, <1>4, <1>5 DEF WheelStep

\* An empty wheel is an empty calendar.
LEMMA InitImplementsCalendar == Init => CalendarView!Init
<1> SUFFICES ASSUME Init PROVE CalendarView!Init
    OBVIOUS
<1>1. InWheel = {}
    BY DEF Init, InWheel, Range
<1>2. Elapsed = 0
    BY DEF Init, Elapsed
<1>3. QED
    BY <1>1, <1>2 DEF Init, CalendarView!Init, InWheel, Reasons

\* drain_block_safe, with its array reused for ever, its clamp to one rotation
\* and its jumping read head, does what a calendar in absolute time would do:
\* for every number of slots, every capacity, every block size and every clock.
THEOREM WheelImplementsCalendar == Spec => ImplementsCalendar
<1>1. LedgerInv /\ [Next]_vars => [CalendarView!Next]_(CalendarView!vars)
    BY StepImplementsCalendar, NextIsWheelStep
<1>2. QED
    BY <1>1, InitImplementsCalendar, LedgerInvariant, PTL
    DEF Spec, ImplementsCalendar, CalendarView!Spec

-----------------------------------------------------------------------------
(* Adding up a histogram.  FoldFunction adds a function's values in the    *)
(* order that CHOOSE takes the members of its domain.                      *)

Pick(s) == CHOOSE x \in s : TRUE

\* it[s] is the sum of fun over s, for every s in S.
SumsUp(it, fun, S) ==
    it = [s \in S |-> IF s = {} THEN 0 ELSE fun[Pick(s)] + it[s \ {Pick(s)}]]

SumOver(fun, D) == CHOOSE it : SumsUp(it, fun, SUBSET D)

Total(fun) == FoldFunction(+, 0, fun)

\* A set of numbers with zero and every member's successor holds them all.
LEMMA AllNumbers ==
    ASSUME NEW G \in SUBSET Nat, 0 \in G, \A n \in G : n + 1 \in G
    PROVE  G = Nat
<1> DEFINE C == Nat \ G
<1>1. SUFFICES ASSUME C # {} PROVE FALSE
    OBVIOUS
<1>2. PICK k \in C : \A j \in C : ~(<<j, k>> \in OpToRel(<, Nat))
    BY <1>1, NatLessThanWellFounded, WFMin
<1>3. \A j \in C : ~(j < k)
    BY <1>2 DEF OpToRel
<1>4. k # 0 /\ k \in Nat
    OBVIOUS
<1>5. k - 1 \in Nat /\ k - 1 < k /\ (k - 1) + 1 = k
    BY <1>4
<1>6. k - 1 \in G
    BY <1>3, <1>5
<1>7. QED
    BY <1>5, <1>6

\* A collection of subsets of a finite set that has the empty one, and every one
\* that it has without the member picked, has them all.
LEMMA AllSubsets ==
    ASSUME NEW D, IsFiniteSet(D), NEW G, {} \in G,
           \A s \in SUBSET D : s # {} /\ s \ {Pick(s)} \in G => s \in G
    PROVE  \A s \in SUBSET D : s \in G
<1> DEFINE N == {n \in Nat : \A s \in SUBSET D : Cardinality(s) = n => s \in G}
<1>1. \A s \in SUBSET D : IsFiniteSet(s) /\ Cardinality(s) \in Nat
    BY FS_Subset, FS_CardinalityType
<1>2. 0 \in N
    BY <1>1, FS_EmptySet
<1>3. ASSUME NEW n \in N PROVE n + 1 \in N
  <2>1. SUFFICES ASSUME NEW s \in SUBSET D, Cardinality(s) = n + 1
                 PROVE  s \in G
      OBVIOUS
  <2>2. IsFiniteSet(s) /\ n \in Nat
      BY <1>1
  <2>3. s # {}
      BY <2>1, <2>2, FS_EmptySet
  <2>4. Pick(s) \in s
      BY <2>3 DEF Pick
  <2>5. Cardinality(s \ {Pick(s)}) = Cardinality(s) - 1
      BY <2>2, <2>4, FS_RemoveElement
  <2>6. Cardinality(s \ {Pick(s)}) = n /\ s \ {Pick(s)} \in SUBSET D
      BY <2>1, <2>2, <2>5
  <2>7. QED
      BY <2>3, <2>6
<1>4. N = Nat
  <2> HIDE DEF N
  <2>1. N \in SUBSET Nat
      BY DEF N
  <2>2. QED
      BY <1>2, <1>3, <2>1, AllNumbers
<1>5. QED
    BY <1>1, <1>4

\* The sums exist: those over at most n members, for every n.
LEMMA SumsExist ==
    ASSUME NEW D, IsFiniteSet(D), NEW fun
    PROVE  SumsUp(SumOver(fun, D), fun, SUBSET D)
<1> DEFINE Small(n) == {s \in SUBSET D : Cardinality(s) <= n}
           N == {n \in Nat : \E it : SumsUp(it, fun, Small(n))}
<1>1. \A s \in SUBSET D : /\ IsFiniteSet(s) /\ Cardinality(s) \in Nat
                          /\ Cardinality(s) <= Cardinality(D)
    BY FS_Subset, FS_CardinalityType
<1>2. \A s \in SUBSET D : Cardinality(s) = 0 => s = {}
    BY <1>1, FS_EmptySet
<1>3. \A s \in SUBSET D : s # {} =>
          /\ s \ {Pick(s)} \in SUBSET D
          /\ Cardinality(s \ {Pick(s)}) = Cardinality(s) - 1
  <2>1. SUFFICES ASSUME NEW s \in SUBSET D, s # {}
                 PROVE  Cardinality(s \ {Pick(s)}) = Cardinality(s) - 1
      OBVIOUS
  <2>2. Pick(s) \in s
      BY <2>1 DEF Pick
  <2>3. QED
      BY <1>1, <2>2, FS_RemoveElement
<1>4. 0 \in N
  <2>1. SumsUp([s \in Small(0) |-> 0], fun, Small(0))
    <3>1. \A s \in Small(0) : s = {}
        BY <1>1, <1>2
    <3>2. QED
        BY <3>1 DEF SumsUp
  <2>2. QED
      BY <2>1
<1>5. ASSUME NEW n \in N PROVE n + 1 \in N
  <2>1. n \in Nat /\ n + 1 \in Nat
      OBVIOUS
  <2>2. PICK it : SumsUp(it, fun, Small(n))
      OBVIOUS
  <2> DEFINE new == [s \in Small(n + 1) |->
                        IF s = {} THEN 0 ELSE fun[Pick(s)] + it[s \ {Pick(s)}]]
  <2>3. \A s \in Small(n) :
            /\ s \in Small(n + 1)
            /\ it[s] = IF s = {} THEN 0 ELSE fun[Pick(s)] + it[s \ {Pick(s)}]
    <3>1. \A s \in Small(n) : s \in Small(n + 1)
        BY <1>1, <2>1
    <3>2. it = [s \in Small(n) |->
                   IF s = {} THEN 0 ELSE fun[Pick(s)] + it[s \ {Pick(s)}]]
        BY <2>2 DEF SumsUp
    <3> HIDE DEF Small
    <3>3. QED
        BY <3>1, <3>2, Zenon
  <2>4. \A s \in Small(n) : new[s] = it[s]
    <3> HIDE DEF Small
    <3>1. QED
        BY <2>3
  <2>5. \A s \in Small(n + 1) : s # {} => s \ {Pick(s)} \in Small(n)
      BY <1>1, <1>3, <2>1
  <2>6. \A s \in Small(n + 1) :
            new[s] = IF s = {} THEN 0 ELSE fun[Pick(s)] + new[s \ {Pick(s)}]
    <3> HIDE DEF Small
    <3>1. \A s \in Small(n + 1) :
              new[s] = IF s = {} THEN 0 ELSE fun[Pick(s)] + it[s \ {Pick(s)}]
        OBVIOUS
    <3> HIDE DEF new
    <3>2. QED
        BY <2>4, <2>5, <3>1
  <2>7. SumsUp(new, fun, Small(n + 1))
    <3> HIDE DEF Small
    <3>1. QED
        BY <2>6 DEF SumsUp
  <2>8. QED
      BY <2>1, <2>7
<1>6. N = Nat
  <2> HIDE DEF N
  <2>1. N \in SUBSET Nat
      BY DEF N
  <2>2. QED
      BY <1>4, <1>5, <2>1, AllNumbers
<1>7. Cardinality(D) \in N
    BY <1>6, FS_CardinalityType
<1>8. Small(Cardinality(D)) = SUBSET D
    BY <1>1
<1>9. \E it : SumsUp(it, fun, SUBSET D)
    BY <1>7, <1>8
<1>10. QED
    BY <1>9 DEF SumOver

\* What is picked from a part of the domain, and what the sum over it is.
LEMMA SumOfPart ==
    ASSUME NEW D, IsFiniteSet(D), NEW fun \in [D -> Nat]
    PROVE  /\ SumOver(fun, D)[{}] = 0
           /\ \A s \in SUBSET D : s # {} =>
                 /\ Pick(s) \in s /\ fun[Pick(s)] \in Nat
                 /\ s \ {Pick(s)} \in SUBSET D
                 /\ SumOver(fun, D)[s]
                       = fun[Pick(s)] + SumOver(fun, D)[s \ {Pick(s)}]
<1> DEFINE it == SumOver(fun, D)
<1>1. it = [s \in SUBSET D |-> IF s = {} THEN 0 ELSE fun[Pick(s)] + it[s \ {Pick(s)}]]
    BY SumsExist DEF SumsUp
<1>2. \A s \in SUBSET D : s # {} => Pick(s) \in s
    BY DEF Pick
<1> HIDE DEF it
<1>3. \A s \in SUBSET D :
          it[s] = IF s = {} THEN 0 ELSE fun[Pick(s)] + it[s \ {Pick(s)}]
    BY <1>1, Zenon
<1>4. {} \in SUBSET D
    OBVIOUS
<1>5. it[{}] = 0
    BY <1>3, <1>4
<1>6. QED
    BY <1>2, <1>3, <1>5 DEF it

\* FoldFunction adds up the values on the whole domain.
LEMMA FoldIsSum ==
    ASSUME NEW fun
    PROVE  Total(fun) = SumOver(fun, DOMAIN fun)[DOMAIN fun]
BY DEF Total, FoldFunction, FoldFunctionOnSet, MapThenFoldSet, SumOver, SumsUp, Pick

\* A sum of numbers is a number.
LEMMA SumIsNat ==
    ASSUME NEW D, IsFiniteSet(D), NEW fun \in [D -> Nat]
    PROVE  Total(fun) \in Nat
<1> DEFINE it == SumOver(fun, D)
           G == {s \in SUBSET D : it[s] \in Nat}
<1>1. /\ it[{}] = 0
      /\ \A s \in SUBSET D : s # {} =>
            /\ fun[Pick(s)] \in Nat /\ s \ {Pick(s)} \in SUBSET D
            /\ it[s] = fun[Pick(s)] + it[s \ {Pick(s)}]
    BY SumOfPart
<1> HIDE DEF it
<1>2. {} \in G
    BY <1>1
<1>3. \A s \in SUBSET D : s # {} /\ s \ {Pick(s)} \in G => s \in G
    BY <1>1
<1>4. \A s \in SUBSET D : s \in G
  <2> HIDE DEF G
  <2>1. QED
      BY <1>2, <1>3, AllSubsets
<1>5. it[D] \in Nat
    BY <1>4
<1>6. DOMAIN fun = D
    OBVIOUS
<1>7. QED
    BY <1>5, <1>6, FoldIsSum DEF it

\* Nothing but zeros adds up to zero.
LEMMA SumOfZeros ==
    ASSUME NEW D, IsFiniteSet(D)
    PROVE  Total([b \in D |-> 0]) = 0
<1> DEFINE fun == [b \in D |-> 0]
           it == SumOver(fun, D)
           G == {s \in SUBSET D : it[s] = 0}
<1>1. fun \in [D -> Nat] /\ DOMAIN fun = D /\ \A b \in D : fun[b] = 0
    OBVIOUS
<1> HIDE DEF fun
<1>2. /\ it[{}] = 0
      /\ \A s \in SUBSET D : s # {} =>
            /\ Pick(s) \in s /\ s \ {Pick(s)} \in SUBSET D
            /\ it[s] = fun[Pick(s)] + it[s \ {Pick(s)}]
    BY <1>1, SumOfPart
<1> HIDE DEF it
<1>3. {} \in G
    BY <1>2
<1>4. \A s \in SUBSET D : s # {} /\ s \ {Pick(s)} \in G => s \in G
    BY <1>1, <1>2
<1>5. \A s \in SUBSET D : s \in G
  <2> HIDE DEF G
  <2>1. QED
      BY <1>3, <1>4, AllSubsets
<1>6. it[D] = 0
    BY <1>5
<1>7. QED
    BY <1>1, <1>6, FoldIsSum DEF it, fun

\* One more in one place is one more in the sum.
LEMMA SumOfOneMore ==
    ASSUME NEW D, IsFiniteSet(D), NEW fun \in [D -> Nat], NEW b \in D
    PROVE  Total([fun EXCEPT ![b] = @ + 1]) = Total(fun) + 1
<1> DEFINE more == [fun EXCEPT ![b] = @ + 1]
           it == SumOver(fun, D)
           itMore == SumOver(more, D)
           G == {s \in SUBSET D : /\ it[s] \in Nat
                                  /\ itMore[s] = it[s] + IF b \in s THEN 1 ELSE 0}
<1>1. /\ more \in [D -> Nat] /\ DOMAIN more = D /\ DOMAIN fun = D
      /\ \A c \in D : more[c] = fun[c] + IF c = b THEN 1 ELSE 0
    OBVIOUS
<1> HIDE DEF more
<1>2. /\ it[{}] = 0
      /\ \A s \in SUBSET D : s # {} =>
            /\ Pick(s) \in s /\ s \ {Pick(s)} \in SUBSET D /\ fun[Pick(s)] \in Nat
            /\ it[s] = fun[Pick(s)] + it[s \ {Pick(s)}]
    BY SumOfPart
<1>3. /\ itMore[{}] = 0
      /\ \A s \in SUBSET D : s # {} =>
            itMore[s] = more[Pick(s)] + itMore[s \ {Pick(s)}]
    BY <1>1, SumOfPart
<1> HIDE DEF it, itMore
<1>4. {} \in G
    BY <1>2, <1>3
<1>5. ASSUME NEW s \in SUBSET D, s # {}, s \ {Pick(s)} \in G PROVE s \in G
  <2> DEFINE p == Pick(s)
             rest == s \ {p}
  <2>1. /\ p \in s /\ fun[p] \in Nat /\ it[s] = fun[p] + it[rest]
        /\ itMore[s] = more[p] + itMore[rest]
      BY <1>2, <1>3, <1>5
  <2>2. it[rest] \in Nat /\ itMore[rest] = it[rest] + IF b \in rest THEN 1 ELSE 0
      BY <1>5
  <2>3. more[p] = fun[p] + IF p = b THEN 1 ELSE 0
      BY <1>1, <2>1
  <2>4. b \in rest <=> b \in s /\ b # p
      OBVIOUS
  <2> HIDE DEF p, rest
  <2>5. CASE b = p
      BY <2>1, <2>2, <2>3, <2>4, <2>5
  <2>6. CASE b # p
      BY <2>1, <2>2, <2>3, <2>4, <2>6
  <2>7. QED
      BY <2>5, <2>6
<1>6. \A s \in SUBSET D : s \in G
  <2> HIDE DEF G
  <2>1. QED
      BY <1>4, <1>5, AllSubsets
<1>7. itMore[D] = it[D] + 1
    BY <1>6
<1>8. Total(fun) = it[D] /\ Total(more) = itMore[D]
    BY <1>1, FoldIsSum DEF it, itMore
<1>9. QED
    BY <1>7, <1>8 DEF more

-----------------------------------------------------------------------------
(* The statistics.  The histogram counts the grains in the array and those *)
(* that have fired; the other counters the grains refused.                 *)

\* The places of the array that are taken.
Entries == {p \in SlotIndices \X (1 .. SlotCapacity) : p[2] <= Len(slots[p[1]])}

Buckets == 0 .. HistogramBuckets - 1
Admitted == Total(stats.histogram)

BalanceInv ==
    /\ Admitted \in Nat
    /\ Taken = Admitted + stats.too_late + stats.too_early + stats.slot_full
    /\ IsFiniteSet(fired)
    /\ Admitted = Cardinality(fired) + WheelLen
    /\ pc = "idle" => stats.queue_size = WheelLen

\* The places taken are counted by Wheel::len.
LEMMA EntriesCount ==
    IsFiniteSet(Entries) /\ WheelLen = Cardinality(Entries) /\ WheelLen \in Nat
<1> DEFINE Places == SlotIndices \X (1 .. SlotCapacity)
<1>1. IsFiniteSet(SlotIndices) /\ IsFiniteSet(1 .. SlotCapacity)
    BY FS_Interval, WheelAssumption DEF SlotIndices
<1>2. IsFiniteSet(Places)
    BY <1>1, FS_Product
<1>3. IsFiniteSet({p \in Places : p[2] <= Len(slots[p[1]])})
    BY <1>2, FS_Subset
<1>4. QED
    BY <1>3, WheelLenType DEF WheelLen, Entries

\* A grain appended to a slot takes one place more.
LEMMA OneMoreEntry ==
    ASSUME TypeOK, NEW g \in Grains, Schedule(g)
    PROVE  WheelLen' = WheelLen + 1
<1> DEFINE idx == ArrayIndex(SlotDelta(g))
           n == Len(slots[idx])
           new == <<idx, n + 1>>
<1>1. /\ idx \in SlotIndices /\ n < SlotCapacity
      /\ slots \in [SlotIndices -> Seq(Grains)]
      /\ slots' = [slots EXCEPT ![idx] = Append(@, g)]
    BY SchedulePlaces DEF Schedule, TypeOK
<1> HIDE DEF idx
<1>2. n \in Nat /\ n + 1 \in 1 .. SlotCapacity
    BY <1>1, WheelAssumption
<1>3. \A i \in SlotIndices :
          Len(slots'[i]) = IF i = idx THEN n + 1 ELSE Len(slots[i])
    BY <1>1
<1>4. \A i \in SlotIndices, k \in 1 .. SlotCapacity :
          k <= Len(slots'[i]) <=> \/ k <= Len(slots[i])
                                  \/ i = idx /\ k = n + 1
  <2>1. \A k \in 1 .. SlotCapacity : k <= n + 1 <=> k <= n \/ k = n + 1
      BY <1>2
  <2>2. QED
      BY <1>3, <2>1
<1>5. \A p \in SlotIndices \X (1 .. SlotCapacity) :
          p[2] <= Len(slots'[p[1]]) <=> p[2] <= Len(slots[p[1]]) \/ p = new
  <2>1. SUFFICES ASSUME NEW i \in SlotIndices, NEW k \in 1 .. SlotCapacity
                 PROVE  k <= Len(slots'[i]) <=> k <= Len(slots[i]) \/ <<i, k>> = new
      OBVIOUS
  <2>2. <<i, k>> = new <=> i = idx /\ k = n + 1
      OBVIOUS
  <2>3. QED
      BY <1>4, <2>2
<1>6. new \in SlotIndices \X (1 .. SlotCapacity)
    BY <1>1, <1>2
<1>7. Entries' = Entries \union {new}
    BY <1>5, <1>6 DEF Entries
<1>8. new \notin Entries
  <2>1. ~(n + 1 <= n)
      BY <1>2
  <2>2. QED
      BY <2>1 DEF Entries
<1>9. Cardinality(Entries') = Cardinality(Entries) + 1
    BY <1>7, <1>8, EntriesCount, FS_AddElement
<1>10. WheelLen' = Cardinality(Entries')
    BY DEF WheelLen, Entries
<1>11. QED
    BY <1>9, <1>10, EntriesCount

\* A slot that is emptied gives as many places back as it had grains.
LEMMA FewerEntries ==
    ASSUME TypeOK, NEW idx \in SlotIndices, slots' = [slots EXCEPT ![idx] = <<>>]
    PROVE  WheelLen' = WheelLen - Len(slots[idx]) /\ Len(slots[idx]) \in Nat
<1> DEFINE n == Len(slots[idx])
           Gone == {p \in Entries : p[1] = idx}
           place == [k \in 1 .. n |-> <<idx, k>>]
<1>1. /\ slots \in [SlotIndices -> Seq(Grains)]
      /\ n \in Nat /\ n <= SlotCapacity /\ SlotCapacity \in Nat
    BY WheelAssumption DEF TypeOK
<1>2. \A i \in SlotIndices : Len(slots'[i]) = IF i = idx THEN 0 ELSE Len(slots[i])
    BY <1>1
<1>3. Entries' = Entries \ Gone
  <2>1. \A p \in SlotIndices \X (1 .. SlotCapacity) :
            p[2] <= Len(slots'[p[1]]) <=> p[2] <= Len(slots[p[1]]) /\ p[1] # idx
    <3>1. SUFFICES ASSUME NEW i \in SlotIndices, NEW k \in 1 .. SlotCapacity
                   PROVE  k <= Len(slots'[i]) <=> k <= Len(slots[i]) /\ i # idx
        OBVIOUS
    <3>2. QED
        BY <1>1, <1>2
  <2>2. QED
      BY <2>1 DEF Entries
<1>4. \A p : p \in Gone <=> \E k \in 1 .. n : p = <<idx, k>>
    BY <1>1 DEF Entries
<1> HIDE DEF Gone, n
<1>5. place \in [1 .. n -> Gone]
    BY <1>4
<1>6. place \in Surjection(1 .. n, Gone)
    BY <1>4, <1>5 DEF Surjection
<1>7. place \in Injection(1 .. n, Gone)
    BY <1>5 DEF Injection, IsInjective
<1>8. ExistsBijection(1 .. n, Gone)
    BY <1>6, <1>7, Zenon DEF Bijection, ExistsBijection
<1>9. Cardinality(Gone) = n
    BY <1>1, <1>8, FS_CountingElements
<1>10. Entries \intersect Gone = Gone
    BY DEF Gone
<1>11. Cardinality(Entries') = Cardinality(Entries) - n
    BY <1>3, <1>9, <1>10, EntriesCount, FS_Difference, Zenon
<1>12. WheelLen' = Cardinality(Entries')
    BY DEF WheelLen, Entries
<1>13. QED
    BY <1>1, <1>11, <1>12, EntriesCount DEF n

\* What fires had not fired before, so fired grows by what the slot held.
LEMMA MoreFired ==
    ASSUME LedgerInv, IsFiniteSet(fired), FireSlot
    PROVE  /\ IsFiniteSet(fired')
           /\ Cardinality(fired') = Cardinality(fired) + Len(slots[FiringIndex(fireAt)])
           /\ FiringIndex(fireAt) \in SlotIndices
<1> DEFINE idx == FiringIndex(fireAt)
           new == Range(slots[idx])
<1>1. idx \in SlotIndices
  <2>1. slotIndex + fireAt \in Nat
      BY WheelAssumption DEF LedgerInv, WheelInv, TypeOK
  <2>2. QED
      BY <2>1, IndexInArray DEF FiringIndex
<1>2. fired \intersect new = {}
  <2>1. SUFFICES ASSUME NEW k \in DOMAIN slots[idx], slots[idx][k] \in fired
                 PROVE  FALSE
      BY DEF Range
  <2>2. SlotOf(starts[slots[idx][k]]) = slotIndex + fireAt
      BY FiringEntry DEF LedgerInv
  <2>3. SlotOf(starts[slots[idx][k]]) < slotIndex + fireAt
      BY <2>1 DEF LedgerInv, WheelInv, FiredBehind
  <2>4. slotIndex + fireAt \in Nat
      BY WheelAssumption DEF LedgerInv, WheelInv, TypeOK
  <2>5. QED
      BY <2>2, <2>3, <2>4
<1>3. Cardinality(new) = Len(slots[idx])
    BY <1>1, EntryCounts
<1>4. IsFiniteSet(new)
  <2>1. slots[idx] \in Seq(Grains)
      BY <1>1 DEF LedgerInv, WheelInv, TypeOK
  <2>2. IsFiniteSet(Grains)
    <3>1. Len(starts) \in Nat
        BY DEF LedgerInv, WheelInv, TypeOK
    <3>2. QED
        BY <3>1, FS_Interval DEF Grains
  <2>3. new \in SUBSET Grains
      BY <2>1 DEF Range
  <2>4. QED
      BY <2>2, <2>3, FS_Subset
<1>5. fired' = fired \union new
    BY DEF FireSlot
<1> HIDE DEF new, idx
<1>6. /\ IsFiniteSet(fired \union new)
      /\ Cardinality(fired \union new)
            = Cardinality(fired) + Cardinality(new) - Cardinality(fired \intersect new)
    BY <1>4, FS_Union
<1>7. Cardinality(fired \intersect new) = 0
    BY <1>2, FS_EmptySet
<1>8. Cardinality(fired) \in Nat /\ Cardinality(new) \in Nat
    BY <1>4, FS_CardinalityType
<1>9. QED
    BY <1>1, <1>3, <1>5, <1>6, <1>7, <1>8 DEF idx

\* The buckets are finitely many, and the histogram counts in each.
LEMMA HistogramType ==
    ASSUME TypeOK
    PROVE  /\ IsFiniteSet(Buckets) /\ stats.histogram \in [Buckets -> Nat]
           /\ stats.too_late \in Nat /\ stats.too_early \in Nat
           /\ stats.slot_full \in Nat /\ stats.queue_size \in Nat
           /\ Admitted \in Nat
<1>1. IsFiniteSet(Buckets)
    BY FS_Interval, WheelAssumption DEF Buckets
<1>2. /\ stats.histogram \in [Buckets -> Nat]
      /\ stats.too_late \in Nat /\ stats.too_early \in Nat
      /\ stats.slot_full \in Nat /\ stats.queue_size \in Nat
    BY DEF TypeOK, QueueStats, Buckets
<1>3. QED
    BY <1>1, <1>2, SumIsNat DEF Admitted

\* Admitting a grain counts it once in the histogram and in the array.
LEMMA ScheduleBalances ==
    ASSUME LedgerInv, BalanceInv, ingress # <<>>, Schedule(Head(ingress)), Taken' = Taken + 1,
           fired' = fired, pc' = pc, pc # "idle"
    PROVE  BalanceInv'
<1> DEFINE b == Bucket(SlotDelta(Head(ingress)))
<1>1. TypeOK /\ Head(ingress) \in Grains
    BY RingHead DEF LedgerInv, WheelInv
<1>2. WheelLen' = WheelLen + 1
    BY <1>1, OneMoreEntry
<1>3. b \in Buckets
  <2>1. SlotDelta(Head(ingress)) \in Nat
      BY <1>1, SchedulePlaces, WheelAssumption DEF Schedule
  <2>2. QED
      BY <2>1, WheelAssumption DEF Bucket, Buckets
<1>4. stats' = [stats EXCEPT !.histogram[b] = @ + 1]
    BY DEF Schedule
<1> HIDE DEF b
<1>5. /\ stats'.histogram = [stats.histogram EXCEPT ![b] = @ + 1]
      /\ stats'.too_late = stats.too_late /\ stats'.too_early = stats.too_early
      /\ stats'.slot_full = stats.slot_full
    BY <1>1, <1>4 DEF TypeOK, QueueStats
<1>6. Total(stats'.histogram) = Total(stats.histogram) + 1
    BY <1>1, <1>3, <1>5, HistogramType, SumOfOneMore
<1>7. Admitted' = Admitted + 1
    BY <1>6 DEF Admitted
<1>8. Cardinality(fired) \in Nat /\ WheelLen \in Nat
    BY EntriesCount, FS_CardinalityType DEF BalanceInv
<1>9. /\ stats.too_late \in Nat /\ stats.too_early \in Nat /\ stats.slot_full \in Nat
      /\ Admitted \in Nat
    BY <1>1, HistogramType
<1>10. Taken' = Admitted' + stats'.too_late + stats'.too_early + stats'.slot_full
  <2>1. Taken' = Admitted + stats.too_late + stats.too_early + stats.slot_full + 1
      BY Zenon DEF BalanceInv
  <2> DEFINE a == Admitted
             x == stats.too_late
             y == stats.too_early
             z == stats.slot_full
  <2>2. a \in Nat /\ x \in Nat /\ y \in Nat /\ z \in Nat
      BY <1>9
  <2> HIDE DEF a, x, y, z
  <2>3. a + x + y + z + 1 = (a + 1) + x + y + z
      BY <2>2
  <2>4. QED
      BY <1>5, <1>7, <2>1, <2>3, Zenon DEF a, x, y, z
<1>11. Admitted' \in Nat /\ Admitted' = Cardinality(fired) + WheelLen'
  <2>1. Admitted = Cardinality(fired) + WheelLen
      BY DEF BalanceInv
  <2>2. QED
      BY <1>2, <1>7, <1>8, <1>9, <2>1
<1>12. QED
    BY <1>10, <1>11 DEF BalanceInv

\* Refusing a grain counts it once among the refusals.
LEMMA RejectBalances ==
    ASSUME LedgerInv, BalanceInv, ingress # <<>>, Reject(Head(ingress)), Taken' = Taken + 1,
           fired' = fired, pc' = pc, pc # "idle"
    PROVE  BalanceInv'
<1> DEFINE r == RejectReason(Head(ingress))
<1>1. TypeOK /\ Head(ingress) \in Grains
    BY RingHead DEF LedgerInv, WheelInv
<1>2. r \in Reasons
    BY <1>1, RejectReasonType DEF Reject
<1>3. stats' = [stats EXCEPT ![r] = @ + 1] /\ slots' = slots
    BY DEF Reject
<1> HIDE DEF r
<1>4. /\ stats'.histogram = stats.histogram
      /\ stats'.too_late = stats.too_late + IF r = "too_late" THEN 1 ELSE 0
      /\ stats'.too_early = stats.too_early + IF r = "too_early" THEN 1 ELSE 0
      /\ stats'.slot_full = stats.slot_full + IF r = "slot_full" THEN 1 ELSE 0
  <2>1. CASE r = "too_late"
      BY <1>1, <1>3, <2>1, HistogramType DEF TypeOK, QueueStats
  <2>2. CASE r = "too_early"
      BY <1>1, <1>3, <2>2, HistogramType DEF TypeOK, QueueStats
  <2>3. CASE r = "slot_full"
      BY <1>1, <1>3, <2>3, HistogramType DEF TypeOK, QueueStats
  <2>4. QED
      BY <1>2, <2>1, <2>2, <2>3 DEF Reasons
<1>5. Admitted' = Admitted /\ WheelLen' = WheelLen
    BY <1>3, <1>4 DEF Admitted, WheelLen
<1>6. stats'.too_late + stats'.too_early + stats'.slot_full
         = stats.too_late + stats.too_early + stats.slot_full + 1
    BY <1>1, <1>2, <1>4, HistogramType DEF Reasons
<1>7. Admitted \in Nat /\ Taken = Admitted + stats.too_late + stats.too_early + stats.slot_full
    BY DEF BalanceInv
<1>8. Taken' = Admitted' + stats'.too_late + stats'.too_early + stats'.slot_full
  <2>1. /\ stats.too_late \in Nat /\ stats.too_early \in Nat /\ stats.slot_full \in Nat
        /\ stats'.too_late \in Nat /\ stats'.too_early \in Nat /\ stats'.slot_full \in Nat
      BY <1>1, <1>4, HistogramType
  <2>2. Taken' = Taken + 1 /\ Admitted' = Admitted
      BY <1>5
  <2> DEFINE a == Admitted
             x == stats.too_late
             y == stats.too_early
             z == stats.slot_full
             u == stats'.too_late
             v == stats'.too_early
             w == stats'.slot_full
  <2>3. /\ a \in Nat /\ x \in Nat /\ y \in Nat /\ z \in Nat
        /\ u \in Nat /\ v \in Nat /\ w \in Nat
        /\ u + v + w = x + y + z + 1
      BY <1>6, <1>7, <2>1, Zenon
  <2>4. Taken' = a + x + y + z + 1
      BY <1>7, <2>2, Zenon
  <2> HIDE DEF a, x, y, z, u, v, w
  <2>5. a + x + y + z + 1 = a + u + v + w
      BY <2>3
  <2>6. QED
      BY <2>2, <2>4, <2>5, Zenon DEF a, u, v, w
<1>9. QED
    BY <1>5, <1>7, <1>8 DEF BalanceInv

\* Every step keeps the balance.
LEMMA NextBalanceInv == LedgerInv /\ BalanceInv /\ [WheelStep]_vars => BalanceInv'
<1>1. SUFFICES ASSUME LedgerInv, BalanceInv, [WheelStep]_vars PROVE BalanceInv'
    OBVIOUS
<1>2. TypeOK /\ Taken \in Nat
    BY <1>1 DEF LedgerInv, WheelInv, RingIsSuffix
<1>3. CASE Admit
  <2>1. /\ ingress # <<>> /\ Taken' = Taken + 1 /\ fired' = fired
        /\ pc' = pc /\ pc # "idle"
      BY <1>1, <1>3, AdmitShiftsRing DEF Admit, Ready
  <2>2. CASE Schedule(Head(ingress))
      BY <1>1, <2>1, <2>2, ScheduleBalances
  <2>3. CASE Reject(Head(ingress))
      BY <1>1, <2>1, <2>3, RejectBalances
  <2>4. QED
      BY <1>3, <2>2, <2>3 DEF Admit
<1>4. CASE FireSlot
  <2>1. /\ slots' = [slots EXCEPT ![FiringIndex(fireAt)] = <<>>]
        /\ stats' = stats /\ Taken' = Taken /\ pc' = pc /\ pc # "idle"
      BY <1>4 DEF FireSlot, Taken
  <2>2. /\ IsFiniteSet(fired')
        /\ Cardinality(fired') = Cardinality(fired) + Len(slots[FiringIndex(fireAt)])
        /\ FiringIndex(fireAt) \in SlotIndices
      BY <1>1, <1>4, MoreFired DEF BalanceInv
  <2>3. /\ WheelLen' = WheelLen - Len(slots[FiringIndex(fireAt)])
        /\ Len(slots[FiringIndex(fireAt)]) \in Nat
      BY <1>2, <2>1, <2>2, FewerEntries
  <2>4. Cardinality(fired) \in Nat /\ WheelLen \in Nat
      BY <1>1, EntriesCount, FS_CardinalityType DEF BalanceInv
  <2>5. Admitted' = Admitted
      BY <2>1 DEF Admitted
  <2>6. QED
      BY <1>1, <2>1, <2>2, <2>3, <2>4, <2>5 DEF BalanceInv
<1>5. CASE FinishDrain
  <2>1. /\ stats' = [stats EXCEPT !.queue_size = WheelLen]
        /\ slots' = slots /\ fired' = fired /\ Taken' = Taken
      BY <1>5 DEF FinishDrain, Taken
  <2>2. /\ stats'.queue_size = WheelLen /\ stats'.histogram = stats.histogram
        /\ stats'.too_late = stats.too_late /\ stats'.too_early = stats.too_early
        /\ stats'.slot_full = stats.slot_full
      BY <1>2, <2>1 DEF TypeOK, QueueStats
  <2>3. Admitted' = Admitted /\ WheelLen' = WheelLen
      BY <2>1, <2>2 DEF Admitted, WheelLen
  <2>4. QED
      BY <1>1, <2>1, <2>2, <2>3 DEF BalanceInv
<1>6. CASE \E s \in Nat : Push(s)
  <2>1. /\ stats' = stats /\ slots' = slots /\ fired' = fired /\ pc' = pc
        /\ \E s \in Nat : /\ ingress' = Append(ingress, Len(starts) + 1)
                          /\ starts' = Append(starts, s)
      BY <1>6 DEF Push, wheelVars
  <2>2. Taken' = Taken
      BY <1>2, <2>1 DEF Taken, TypeOK
  <2>3. Admitted' = Admitted /\ WheelLen' = WheelLen
      BY <2>1 DEF Admitted, WheelLen
  <2>4. QED
      BY <1>1, <2>1, <2>2, <2>3 DEF BalanceInv
<1>7. CASE \/ \E d \in Int, n \in BlockSizes : BeginDrain(d, n)
           \/ StopAdmitting \/ UNCHANGED vars
  <2>1. /\ stats' = stats /\ slots' = slots /\ fired' = fired /\ Taken' = Taken
        /\ pc' = "idle" => pc = "idle"
      BY <1>7 DEF BeginDrain, StopAdmitting, vars, wheelVars, Taken
  <2>2. Admitted' = Admitted /\ WheelLen' = WheelLen
      BY <2>1 DEF Admitted, WheelLen
  <2>3. QED
      BY <1>1, <2>1, <2>2 DEF BalanceInv
<1>8. QED
    BY <1>1, <1>3, <1>4, <1>5, <1>6, <1>7 DEF WheelStep

\* It holds when nothing has been pushed.
LEMMA InitBalanceInv == Init => BalanceInv
<1>1. SUFFICES ASSUME Init PROVE BalanceInv
    OBVIOUS
<1>2. IsFiniteSet(Buckets)
    BY FS_Interval, WheelAssumption DEF Buckets
<1>3. stats.histogram = [b \in Buckets |-> 0]
    BY <1>1 DEF Init, Buckets
<1>4. Admitted = 0
    BY <1>2, <1>3, SumOfZeros DEF Admitted
<1>5. Entries = {}
  <2>1. \A i \in SlotIndices : Len(slots[i]) = 0
      BY <1>1 DEF Init
  <2>2. \A p \in SlotIndices \X (1 .. SlotCapacity) : ~(p[2] <= Len(slots[p[1]]))
      BY <2>1
  <2>3. QED
      BY <2>2 DEF Entries
<1>6. WheelLen = 0
    BY <1>5, EntriesCount, FS_EmptySet
<1>7. Cardinality(fired) = 0 /\ IsFiniteSet(fired)
    BY <1>1, FS_EmptySet DEF Init
<1>8. /\ stats.too_late = 0 /\ stats.too_early = 0 /\ stats.slot_full = 0
      /\ stats.queue_size = 0 /\ Taken = 0
    BY <1>1 DEF Init, Taken
<1>9. QED
    BY <1>4, <1>6, <1>7, <1>8 DEF BalanceInv

\* The counters that are summed from what happened to each grain are the ones
\* QueueStats shows.
LEMMA BalanceIsStats ==
    ASSUME LedgerInv, BalanceInv
    PROVE  StatsBalance
<1>1. /\ Len(starts) \in Nat /\ Len(ingress) \in Nat /\ TypeOK
      /\ Taken = Len(starts) - Len(ingress)
    BY DEF LedgerInv, WheelInv, TypeOK, Taken
<1>2. Cardinality(fired) \in Nat /\ WheelLen \in Nat
    BY EntriesCount, FS_CardinalityType DEF BalanceInv
<1>3. Len(starts) = Len(ingress) + Admitted + stats.too_late
                       + stats.too_early + stats.slot_full
    BY <1>1, HistogramType, SMTT(30) DEF BalanceInv
<1>4. pc = "idle" => stats.queue_size = Admitted - Cardinality(fired)
    BY <1>2 DEF BalanceInv
<1>5. QED
    BY <1>3, <1>4 DEF StatsBalance, Admitted, Total

\* The counters and the histogram account for every grain that left the ring,
\* and between drains queue_size is what was admitted and has not fired
\* (QueueStats), whatever the order of pushes and the clock.
THEOREM StatsAddUp == Spec => []StatsBalance
<1>1. LedgerInv /\ BalanceInv => StatsBalance
    BY BalanceIsStats
<1>2. QED
    BY <1>1, InitBalanceInv, NextBalanceInv, LedgerInvariant, NextIsWheelStep, PTL DEF Spec

-----------------------------------------------------------------------------
(* What the engine relies on: a drain leaves no grain of an elapsed slot   *)
(* behind, except in the ring behind one that lay beyond the horizon.      *)

\* Between drains the read head has reached the engine's clock.
HeadAtClock == pc = "idle" => TargetIndex <= slotIndex

\* The read head never goes back.
LEMMA HeadNeverGoesBack ==
    ASSUME TypeOK, [WheelStep]_vars
    PROVE  slotIndex \in Nat /\ slotIndex' \in Nat /\ slotIndex <= slotIndex'
<1>1. slotIndex \in Nat /\ NextIndex \in Nat /\ slotIndex <= NextIndex
    BY WheelTypes DEF TypeOK
<1>2. slotIndex' = slotIndex \/ slotIndex' = NextIndex
    BY DEF WheelStep, Push, BeginDrain, Admit, StopAdmitting, FireSlot, FinishDrain,
           wheelVars, vars
<1>3. QED
    BY <1>1, <1>2

\* A drain leaves the read head at the engine's clock or beyond.
LEMMA NextHeadAtClock ==
    ASSUME TypeOK, HeadAtClock, [WheelStep]_vars
    PROVE  HeadAtClock'
<1>1. CASE FinishDrain
  <2>1. slotIndex' = NextIndex /\ blockEnd' = blockEnd
      BY <1>1 DEF FinishDrain
  <2>2. TargetIndex' = TargetIndex
      BY <2>1 DEF TargetIndex, SlotOf
  <2>3. slotIndex \in Nat /\ TargetIndex \in Nat
      BY WheelTypes DEF TypeOK
  <2>4. TargetIndex <= NextIndex
      BY <2>3 DEF NextIndex
  <2>5. QED
      BY <2>1, <2>2, <2>4 DEF HeadAtClock
<1>2. CASE pc' # "idle"
    BY <1>2 DEF HeadAtClock
<1>3. CASE pc' = "idle" /\ ~FinishDrain
  <2>1. pc = "idle" /\ slotIndex' = slotIndex /\ blockEnd' = blockEnd
      BY <1>3 DEF WheelStep, Push, BeginDrain, Admit, StopAdmitting, FireSlot,
                  wheelVars, vars
  <2>2. TargetIndex' = TargetIndex
      BY <2>1 DEF TargetIndex, SlotOf
  <2>3. QED
      BY <2>1, <2>2 DEF HeadAtClock
<1>4. QED
    BY <1>1, <1>2, <1>3

\* What Engine takes a drain to be (HeldUp, MayLeave, MustLeave, FiresBefore): a
\* grain is left in the ring only if it or one pushed before it lay beyond the
\* horizon of where the last block ended; none of an elapsed slot is left in the
\* wheel; those handed over start before the block's end, in slot and push order.
DrainContract ==
    /\ [][pc = "idle" /\ pc' = "admit" =>
             SlotOf(blockEnd) * SlotDuration + Horizon <= admitBefore']_vars
    /\ [][pc = "admit" /\ pc' = "advance" =>
             \A g \in Range(ingress) : \E h \in Range(ingress) :
                 h <= g /\ admitBefore <= starts[h]]_vars
    /\ [](pc = "idle" => \A g \in InWheel : SlotOf(blockEnd) <= SlotOf(starts[g]))
    /\ [](NeverEarly /\ DrainOrder)

\* The admission window of a drain reaches at least one rotation past the end of
\* the last block.
LEMMA WindowReachesHorizon ==
    ASSUME TypeOK, HeadAtClock, [WheelStep]_vars, pc = "idle", pc' = "admit"
    PROVE  SlotOf(blockEnd) * SlotDuration + Horizon <= admitBefore'
<1>1. admitBefore' = AdmitLimit
    BY DEF WheelStep, Push, BeginDrain, Admit, StopAdmitting, FireSlot, FinishDrain, vars
<1>2. /\ slotIndex \in Nat /\ TargetIndex \in Nat /\ Horizon \in Nat
      /\ SlotDuration \in Nat /\ TargetIndex <= slotIndex
    BY WheelTypes, WheelAssumption DEF TypeOK, HeadAtClock
<1>3. TargetIndex * SlotDuration <= slotIndex * SlotDuration
    BY <1>2, SMT
<1>4. TargetIndex * SlotDuration \in Nat /\ slotIndex * SlotDuration \in Nat
    BY <1>2, SMT
<1>5. AdmitLimit = slotIndex * SlotDuration + Horizon /\ SlotOf(blockEnd) = TargetIndex
    BY DEF AdmitLimit, WheelTime, TargetIndex
<1> HIDE DEF Horizon
<1>6. QED
    BY <1>1, <1>2, <1>3, <1>4, <1>5

\* Admission stops at an empty ring or at a grain that is not ready, and every
\* grain in the ring was pushed after that one.
LEMMA LeftBehindTheHorizon ==
    ASSUME LedgerInv, [WheelStep]_vars, pc = "admit", pc' = "advance",
           NEW g \in Range(ingress)
    PROVE  \E h \in Range(ingress) : h <= g /\ admitBefore <= starts[h]
<1>1. /\ ingress \in Seq(Grains) /\ Len(ingress) \in Nat /\ Taken \in Nat
      /\ \A k \in 1 .. Len(ingress) : ingress[k] = Taken + k
      /\ admitBefore \in Nat
    BY DEF LedgerInv, WheelInv, TypeOK, RingIsSuffix
<1>2. PICK k \in 1 .. Len(ingress) : g = ingress[k]
    BY <1>1 DEF Range
<1>3. 1 \in 1 .. Len(ingress) /\ ingress # <<>> /\ Head(ingress) = ingress[1]
    BY <1>1, <1>2
<1>4. Head(ingress) \in Range(ingress) /\ Head(ingress) \in Grains
    BY <1>1, <1>3 DEF Range
<1>5. Head(ingress) <= g
    BY <1>1, <1>2, <1>3
<1>6. ~Ready
    BY DEF WheelStep, Push, BeginDrain, Admit, StopAdmitting, FireSlot, FinishDrain, vars
<1>7. admitBefore <= starts[Head(ingress)]
  <2>1. starts[Head(ingress)] \in Nat
      BY <1>4, StartIsNat DEF LedgerInv, WheelInv
  <2>2. QED
      BY <1>1, <1>3, <1>6, <2>1 DEF Ready
<1>8. QED
    BY <1>4, <1>5, <1>7

\* Between drains the wheel holds no grain whose slot has elapsed.
LEMMA NoneOverdueInWheel ==
    ASSUME WheelInv, HeadAtClock, pc = "idle", NEW g \in InWheel
    PROVE  SlotOf(blockEnd) <= SlotOf(starts[g])
<1>1. PICK i \in SlotIndices : \E k \in DOMAIN slots[i] : slots[i][k] = g
    BY InWheelIsPlaced, Zenon DEF Placed
<1>2. PICK k \in DOMAIN slots[i] : slots[i][k] = g
    BY <1>1
<1>3. slotIndex + fireAt <= SlotOf(starts[g])
    BY <1>2 DEF WheelInv, WheelPlacement
<1>4. /\ slotIndex \in Nat /\ fireAt \in Nat /\ TargetIndex \in Nat
      /\ TargetIndex <= slotIndex /\ SlotOf(blockEnd) = TargetIndex
    BY WheelTypes DEF WheelInv, TypeOK, HeadAtClock, TargetIndex
<1>5. g \in Grains
    BY <1>2 DEF WheelInv, TypeOK
<1>6. starts[g] \in Nat
    BY <1>5, StartIsNat DEF WheelInv
<1>7. SlotOf(starts[g]) \in Nat
    BY <1>6, DivBounds, WheelAssumption DEF SlotOf
<1>8. QED
    BY <1>3, <1>4, <1>7

-----------------------------------------------------------------------------
(* The scheduler inside a larger system.  Spec bounds what is pushed and   *)
(* how the clock moves; the scheduler's promises need neither bound.       *)

\* The scheduler, whatever is pushed when and wherever a block begins.
WheelSpec == Init /\ [][WheelStep]_vars

\* All it promises without an assumption on its clock or its producer.
SchedulerPromises ==
    /\ [](/\ TypeOK /\ WheelPlacement /\ NeverEarly /\ TooEarlyUnreachable
          /\ DrainOrder /\ ExactlyOnce /\ StatsBalance)
    /\ FiringNeverGoesBack
    /\ ImplementsCalendar
    /\ DrainContract

\* TimeWheel with the bounds of a run is such a scheduler.
LEMMA SpecIsWheelSpec == Spec => WheelSpec
BY NextIsWheelStep, PTL DEF Spec, WheelSpec

\* Whatever system TimeWheelProducer and TimeWheelConsumer are used in, as long
\* as it touches the scheduler only by push and drain_block_safe, the scheduler
\* keeps its promises there.
THEOREM SchedulerAnywhere == WheelSpec => SchedulerPromises
<1> DEFINE Safe == /\ TypeOK /\ WheelPlacement /\ NeverEarly /\ TooEarlyUnreachable
                   /\ DrainOrder /\ ExactlyOnce /\ StatsBalance
           Inv == LedgerInv /\ BalanceInv /\ HeadAtClock
           Later == \A g \in fired' \ fired, h \in fired :
                        SlotOf(starts[h]) <= SlotOf(starts[g])
<1>1. Init => Inv
  <2>1. Init => HeadAtClock
      BY WheelAssumption DEF Init, HeadAtClock, TargetIndex, SlotOf
  <2>2. QED
      BY <2>1, InitLedgerInv, InitBalanceInv
<1>2. Inv /\ [WheelStep]_vars => Inv'
    BY NextLedgerInv, NextBalanceInv, NextHeadAtClock DEF LedgerInv, WheelInv
<1>3. Inv => Safe
    BY LedgerIsExact, BalanceIsStats DEF LedgerInv, WheelInv
<1>4. Inv /\ [WheelStep]_vars => [Later]_vars
    BY FiringStep DEF LedgerInv
<1>5. Inv /\ [WheelStep]_vars => [CalendarView!Next]_(CalendarView!vars)
    BY StepImplementsCalendar
<1>6. WheelSpec => []Inv /\ [][WheelStep]_vars
    BY <1>1, <1>2, PTL DEF WheelSpec
<1>7. WheelSpec => []Safe
    BY <1>3, <1>6, PTL
<1>8. WheelSpec => FiringNeverGoesBack
    BY <1>4, <1>6, PTL DEF FiringNeverGoesBack
<1>9. WheelSpec => ImplementsCalendar
    BY <1>5, <1>6, InitImplementsCalendar, PTL
    DEF WheelSpec, ImplementsCalendar, CalendarView!Spec
<1>10. WheelSpec => DrainContract
  <2> DEFINE Window == pc = "idle" /\ pc' = "admit" =>
                           SlotOf(blockEnd) * SlotDuration + Horizon <= admitBefore'
             Left == pc = "admit" /\ pc' = "advance" =>
                         \A g \in Range(ingress) : \E h \in Range(ingress) :
                             h <= g /\ admitBefore <= starts[h]
             Gone == pc = "idle" => \A g \in InWheel : SlotOf(blockEnd) <= SlotOf(starts[g])
  <2>1. Inv /\ [WheelStep]_vars => [Window]_vars
      BY WindowReachesHorizon DEF LedgerInv, WheelInv
  <2>2. Inv /\ [WheelStep]_vars => [Left]_vars
      BY LeftBehindTheHorizon
  <2>3. Inv => Gone
      BY NoneOverdueInWheel DEF LedgerInv
  <2>4. Inv => NeverEarly /\ DrainOrder
      BY DEF LedgerInv, WheelInv
  <2>5. WheelSpec => [][Window]_vars /\ [][Left]_vars
      BY <1>6, <2>1, <2>2, PTL
  <2>6. WheelSpec => []Gone /\ [](NeverEarly /\ DrainOrder)
      BY <1>6, <2>3, <2>4, PTL
  <2>7. QED
      BY <2>5, <2>6 DEF DrainContract
<1>11. QED
    BY <1>7, <1>8, <1>9, <1>10 DEF SchedulerPromises

-----------------------------------------------------------------------------
(* A clock within reach: every block ends no earlier than the previous one *)
(* and no more than one rotation of the wheel after it.  The read head     *)
(* then is where the clock is, and what waits in the ring stays ahead.     *)

\* Where the read head is between two blocks and within one.
InReach ==
    /\ pc = "idle"  => slotIndex = TargetIndex
    /\ pc # "idle" => slotIndex <= TargetIndex /\ TargetIndex <= slotIndex + NSlots

\* A grain that may be dropped as too late: it was behind the wheel when it was
\* pushed, or an earlier push with a later start holds it back.
Excused(behind, st, g) == g \in behind \/ \E h \in 1 .. g - 1 : st[h] > st[g]

\* Where the read head will be when the ring is looked at next.
NextLook == IF pc = "advance" THEN NextIndex ELSE slotIndex

\* A grain in the ring is still ahead of the wheel, unless it is excused, and
\* only those that are have been dropped.
RingAhead ==
    /\ \A k \in 1 .. Len(ingress) :
          \/ Excused(overdue, starts, ingress[k])
          \/ starts[ingress[k]] >= NextLook * SlotDuration
    /\ DeferredNotDropped

\* Sample zero is in slot zero.
LEMMA SlotZero == SlotOf(0) = 0
<1>1. SlotDuration \in Nat \ {0} /\ SlotOf(0) \in Nat /\ SlotOf(0) * SlotDuration <= 0
    BY DivBounds, WheelAssumption DEF SlotOf
<1>2. \A a \in Nat, d \in Nat \ {0} : a * d <= 0 => a = 0
    BY SMT
<1>3. QED
    BY <1>1, <1>2, Zenon

\* A later sample is in the same slot or in a later one.
LEMMA SlotMonotone ==
    ASSUME NEW s \in Nat, NEW t \in Nat, s <= t
    PROVE  SlotOf(s) \in Nat /\ SlotOf(t) \in Nat /\ SlotOf(s) <= SlotOf(t)
<1> DEFINE a == SlotOf(s)
           b == SlotOf(t)
<1>1. /\ a \in Nat /\ a * SlotDuration <= s /\ s < (a + 1) * SlotDuration
      /\ b \in Nat /\ b * SlotDuration <= t /\ t < (b + 1) * SlotDuration
      /\ SlotDuration \in Nat \ {0}
    BY DivBounds, WheelAssumption DEF SlotOf
<1> HIDE DEF a, b
<1>2. a <= b
    BY <1>1, SMT
<1>3. QED
    BY <1>1, <1>2 DEF a, b

\* A sample no more than one rotation later is no more than one rotation away.
LEMMA SlotWithinReach ==
    ASSUME NEW s \in Nat, NEW t \in Nat, t <= s + Horizon
    PROVE  SlotOf(t) <= SlotOf(s) + NSlots
<1> DEFINE a == SlotOf(s)
           b == SlotOf(t)
<1>1. /\ a \in Nat /\ s < (a + 1) * SlotDuration
      /\ b \in Nat /\ b * SlotDuration <= t
      /\ SlotDuration \in Nat \ {0} /\ NSlots \in Nat \ {0}
    BY DivBounds, WheelAssumption DEF SlotOf
<1>2. t <= s + NSlots * SlotDuration /\ NSlots * SlotDuration \in Nat
    BY <1>1 DEF Horizon
<1> HIDE DEF a, b
<1>3. b * SlotDuration < (a + 1 + NSlots) * SlotDuration
    BY <1>1, <1>2, SMT
<1>4. b <= a + NSlots
    BY <1>1, <1>3, SMT
<1>5. QED
    BY <1>4 DEF a, b

\* The read head stays within reach as long as the clock does.
LEMMA ReachStep ==
    ASSUME LedgerInv, InReach, [WheelStep]_vars,
           pc = "idle" /\ pc' = "admit" => blockEnd' - blockEnd \in 0 .. Horizon
    PROVE  InReach'
<1>1. /\ slotIndex \in Nat /\ blockEnd \in Nat /\ NSlots \in Nat \ {0}
      /\ TargetIndex \in Nat /\ Horizon \in Nat
    BY WheelTypes, WheelAssumption DEF LedgerInv, WheelInv, TypeOK
<1>2. CASE \E d \in Int, n \in BlockSizes : BeginDrain(d, n)
  <2>1. /\ pc = "idle" /\ pc' = "admit" /\ slotIndex' = slotIndex
      BY <1>2 DEF BeginDrain, wheelVars
  <2>2. blockEnd' - blockEnd \in 0 .. Horizon
      BY <2>1
  <2>3. blockEnd' \in Nat
    <3>1. LedgerInv'
        BY NextLedgerInv
    <3>2. QED
        BY <3>1 DEF LedgerInv, WheelInv, TypeOK
  <2>4. blockEnd <= blockEnd' /\ blockEnd' <= blockEnd + Horizon
    <3>1. \A a \in Nat, b \in Nat, c \in Nat : b - a \in 0 .. c => a <= b /\ b <= a + c
        OBVIOUS
    <3>2. QED
        BY <1>1, <2>2, <2>3, <3>1, Zenon
  <2>5. /\ SlotOf(blockEnd) <= SlotOf(blockEnd')
        /\ SlotOf(blockEnd') <= SlotOf(blockEnd) + NSlots
      BY <1>1, <2>3, <2>4, SlotMonotone, SlotWithinReach
  <2>6. slotIndex = SlotOf(blockEnd) /\ TargetIndex' = SlotOf(blockEnd')
      BY <2>1 DEF InReach, TargetIndex, SlotOf
  <2>7. QED
      BY <2>1, <2>5, <2>6 DEF InReach
<1>3. CASE FinishDrain
  <2>1. /\ pc = "advance" /\ pc' = "idle" /\ slotIndex' = NextIndex
        /\ blockEnd' = blockEnd
      BY <1>3 DEF FinishDrain
  <2>2. TargetIndex' = TargetIndex
      BY <2>1 DEF TargetIndex, SlotOf
  <2>3. NextIndex = TargetIndex
      BY <1>1, <2>1 DEF InReach, NextIndex
  <2>4. QED
      BY <2>1, <2>2, <2>3 DEF InReach
<1>4. CASE (\E s \in Nat : Push(s)) \/ Admit \/ StopAdmitting \/ FireSlot \/ UNCHANGED vars
  <2>1. /\ UNCHANGED <<slotIndex, blockEnd>>
        /\ pc' = "idle" <=> pc = "idle"
      BY <1>4 DEF Push, Admit, StopAdmitting, FireSlot, vars, wheelVars
  <2>2. TargetIndex' = TargetIndex
      BY <2>1 DEF TargetIndex, SlotOf
  <2>3. QED
      BY <2>1, <2>2 DEF InReach
<1>5. QED
    BY <1>2, <1>3, <1>4 DEF WheelStep

\* A grain stays excused.
LEMMA ExcusedForGood ==
    ASSUME LedgerInv, [WheelStep]_vars, NEW g \in Grains, Excused(overdue, starts, g)
    PROVE  Excused(overdue', starts', g)
<1>1. starts \in Seq(Nat)
    BY DEF LedgerInv, WheelInv, TypeOK
<1>2. overdue \subseteq overdue' /\ (starts' = starts \/ \E s : starts' = Append(starts, s))
    BY DEF WheelStep, Push, BeginDrain, Admit, StopAdmitting, FireSlot, FinishDrain,
           vars
<1>3. \A h \in Grains : starts'[h] = starts[h]
    BY <1>1, <1>2 DEF Grains
<1>4. CASE g \in overdue
    BY <1>2, <1>4 DEF Excused
<1>5. CASE \E h \in 1 .. g - 1 : starts[h] > starts[g]
  <2>1. PICK h \in 1 .. g - 1 : starts[h] > starts[g]
      BY <1>5
  <2>2. h \in Grains
      BY <1>1 DEF Grains
  <2>3. starts'[h] > starts'[g]
      BY <1>3, <2>1, <2>2
  <2>4. QED
      BY <2>3 DEF Excused
<1>6. QED
    BY <1>4, <1>5 DEF Excused

\* The grains the loop leaves in the ring are beyond the block, or wait behind
\* one that is.
LEMMA LeftInRing ==
    ASSUME LedgerInv, InReach, StopAdmitting, NEW k \in 1 .. Len(ingress)
    PROVE  \/ Excused(overdue, starts, ingress[k])
           \/ starts[ingress[k]] >= NextIndex * SlotDuration
<1> DEFINE h == ingress[1]
           g == ingress[k]
<1>1. /\ ingress \in Seq(Grains) /\ Len(ingress) \in Nat /\ ingress # <<>>
      /\ h = Head(ingress) /\ h \in Grains /\ g \in Grains
      /\ Taken \in Nat /\ h = Taken + 1 /\ g = Taken + k /\ k \in Nat /\ k >= 1
    BY DEF LedgerInv, WheelInv, TypeOK, RingIsSuffix
<1>2. /\ starts[h] \in Nat /\ starts[g] \in Nat
      /\ slotIndex \in Nat /\ NextIndex \in Nat
      /\ SlotDuration \in Nat \ {0} /\ NSlots \in Nat \ {0}
    BY <1>1, StartIsNat, WheelTypes, WheelAssumption DEF LedgerInv, WheelInv, TypeOK
<1>3. starts[h] >= slotIndex * SlotDuration + NSlots * SlotDuration
  <2>1. AdmitLimit \in Nat /\ AdmitLimit = slotIndex * SlotDuration + NSlots * SlotDuration
      BY WheelTypes DEF AdmitLimit, WheelTime, Horizon, LedgerInv, WheelInv
  <2>2. ~(starts[h] < AdmitLimit)
      BY <1>1 DEF StopAdmitting, Ready, LedgerInv, WheelInv, PhaseOK
  <2>3. QED
      BY <1>2, <2>1, <2>2
<1>4. NextIndex <= slotIndex + NSlots
  <2>1. TargetIndex \in Nat /\ TargetIndex <= slotIndex + NSlots
      BY WheelTypes DEF InReach, StopAdmitting, LedgerInv, WheelInv
  <2>2. QED
      BY <1>2, <2>1 DEF NextIndex
<1>5. starts[h] >= NextIndex * SlotDuration
  <2>1. slotIndex + NSlots \in Nat
        /\ (slotIndex + NSlots) * SlotDuration
              = slotIndex * SlotDuration + NSlots * SlotDuration
      BY <1>2, SMT
  <2>2. /\ NextIndex * SlotDuration \in Nat
        /\ (slotIndex + NSlots) * SlotDuration \in Nat
        /\ NextIndex * SlotDuration <= (slotIndex + NSlots) * SlotDuration
      BY <1>2, <1>4, <2>1, TimesMonotone
  <2> HIDE DEF h
  <2>3. QED
      BY <1>2, <1>3, <2>1, <2>2, SMT
<1>6. CASE starts[g] >= starts[h]
  <2>1. NextIndex * SlotDuration \in Nat
      BY <1>2
  <2>2. QED
      BY <1>2, <1>5, <1>6, <2>1
<1>7. CASE starts[h] > starts[g]
  <2>1. h # g
      BY <1>2, <1>7
  <2>2. h \in 1 .. g - 1
      BY <1>1, <2>1
  <2>3. QED
      BY <1>7, <2>2 DEF Excused
<1>8. QED
    BY <1>2, <1>6, <1>7

\* Every step keeps what is in the ring ahead of the wheel, or excused.
LEMMA RingStep ==
    ASSUME LedgerInv, InReach, RingAhead, [WheelStep]_vars
    PROVE  RingAhead'
<1>1. SUFFICES /\ \A k \in 1 .. Len(ingress') :
                     \/ Excused(overdue', starts', ingress'[k])
                     \/ starts'[ingress'[k]] >= NextLook' * SlotDuration
               /\ \A g \in rejected'["too_late"] : Excused(overdue', starts', g)
    BY DEF RingAhead, DeferredNotDropped, Excused
<1>2. /\ \A k \in 1 .. Len(ingress) :
            \/ Excused(overdue, starts, ingress[k])
            \/ starts[ingress[k]] >= NextLook * SlotDuration
      /\ \A g \in rejected["too_late"] : Excused(overdue, starts, g)
    BY DEF RingAhead, DeferredNotDropped, Excused
<1>3. [WheelStep]_vars
    OBVIOUS
<1>4. /\ ingress \in Seq(Grains) /\ Len(ingress) \in Nat /\ starts \in Seq(Nat)
      /\ slotIndex \in Nat /\ NextIndex \in Nat /\ slotIndex <= NextIndex
      /\ rejected \in [Reasons -> SUBSET Grains]
      /\ SlotDuration \in Nat \ {0}
    BY WheelTypes, WheelAssumption DEF LedgerInv, WheelInv, TypeOK
<1>5. \A g \in Grains : Excused(overdue, starts, g) => Excused(overdue', starts', g)
    BY <1>3, ExcusedForGood
<1>6. \A g \in rejected["too_late"] : Excused(overdue', starts', g)
    BY <1>2, <1>4, <1>5 DEF Reasons
<1>7. CASE \E s \in Nat : Push(s)
  <2>1. PICK s \in Nat : Push(s)
      BY <1>7
  <2> DEFINE new  == Len(starts) + 1
             look == IF pc = "idle" THEN slotIndex ELSE NextIndex
  <2>2. /\ ingress' = Append(ingress, new) /\ starts' = Append(starts, s)
        /\ overdue' = IF s < look * SlotDuration
                      THEN overdue \union {new} ELSE overdue
        /\ UNCHANGED <<pc, slotIndex, blockEnd, rejected>>
      BY <2>1 DEF Push, wheelVars
  <2>3. NextLook' = NextLook /\ NextLook \in Nat /\ look \in Nat /\ NextLook <= look
      BY <1>4, <2>2, SameBlock DEF NextLook, LedgerInv, WheelInv, TypeOK
  <2>4. \A g \in Grains : starts'[g] = starts[g]
      BY <1>4, <2>2 DEF Grains
  <2>5. starts'[new] = s /\ s \in Nat
      BY <1>4, <2>2
  <2>6. Excused(overdue', starts', new) \/ starts'[new] >= NextLook' * SlotDuration
    <3>1. CASE s < look * SlotDuration
        BY <2>2, <3>1 DEF Excused
    <3>2. CASE ~(s < look * SlotDuration)
      <4>1. /\ NextLook * SlotDuration <= look * SlotDuration
            /\ NextLook * SlotDuration \in Nat /\ look * SlotDuration \in Nat
          BY <1>4, <2>3, TimesMonotone
      <4> HIDE DEF look, new
      <4>2. s >= NextLook * SlotDuration
          BY <2>5, <3>2, <4>1
      <4>3. QED
          BY <2>3, <2>5, <4>2
    <3>3. QED
        BY <3>1, <3>2
  <2>7. ASSUME NEW k \in 1 .. Len(ingress')
        PROVE  \/ Excused(overdue', starts', ingress'[k])
               \/ starts'[ingress'[k]] >= NextLook' * SlotDuration
    <3>1. CASE k \in 1 .. Len(ingress)
      <4>1. ingress'[k] = ingress[k] /\ ingress[k] \in Grains
          BY <1>4, <2>2, <3>1
      <4>2. QED
          BY <1>2, <1>5, <2>3, <2>4, <3>1, <4>1
    <3>2. CASE k \notin 1 .. Len(ingress)
      <4>1. ingress'[k] = new
          BY <1>4, <2>2, <3>2
      <4>2. QED
          BY <2>6, <4>1
    <3>3. QED
        BY <3>1, <3>2
  <2>8. QED
      BY <1>6, <2>2, <2>7
<1>8. CASE Admit
  <2> DEFINE g == Head(ingress)
  <2>1. /\ ingress # <<>> /\ ingress' = Tail(ingress) /\ pc = "admit"
        /\ UNCHANGED <<pc, slotIndex, blockEnd, starts, overdue>>
      BY <1>8 DEF Admit, Ready
  <2>2. NextLook' = NextLook /\ NextLook = slotIndex
      BY <2>1 DEF NextLook
  <2>3. ASSUME NEW k \in 1 .. Len(ingress')
        PROVE  \/ Excused(overdue', starts', ingress'[k])
               \/ starts'[ingress'[k]] >= NextLook' * SlotDuration
    <3>1. k + 1 \in 1 .. Len(ingress) /\ ingress'[k] = ingress[k + 1]
          /\ ingress[k + 1] \in Grains
        BY <1>4, <2>1
    <3>2. QED
        BY <1>2, <1>5, <2>1, <2>2, <3>1
  <2>4. ASSUME NEW x \in rejected'["too_late"]
        PROVE  Excused(overdue', starts', x)
    <3>1. CASE x \in rejected["too_late"]
        BY <1>6, <3>1
    <3>2. CASE x \notin rejected["too_late"]
      <4>1. x = g /\ RejectReason(g) = "too_late"
          BY <1>4, <1>8, <3>2 DEF Admit, Schedule, Reject, Reasons
      <4>2. 1 \in 1 .. Len(ingress) /\ g = ingress[1] /\ g \in Grains
          BY <1>4, <2>1
      <4>3. starts[g] \in Nat /\ slotIndex * SlotDuration \in Nat
            /\ ~(starts[g] >= slotIndex * SlotDuration)
        <5>1. /\ starts[g] \in Nat /\ SlotOf(starts[g]) < slotIndex
              /\ SlotOf(starts[g]) \in Nat
            BY <1>8, <4>1, <4>2, HeadIsDue, StartIsNat DEF LedgerInv, WheelInv
        <5> DEFINE there == SlotOf(starts[g])
        <5>2. starts[g] < (there + 1) * SlotDuration /\ there + 1 \in Nat
          <6> DEFINE s == starts[g]
          <6>1. s \in Nat
              BY <5>1
          <6> HIDE DEF s, g
          <6>2. s < (s \div SlotDuration + 1) * SlotDuration
              BY <1>4, <6>1, DivBounds
          <6>3. QED
              BY <5>1, <6>2 DEF SlotOf, s
        <5> HIDE DEF there
        <5>3. /\ (there + 1) * SlotDuration <= slotIndex * SlotDuration
              /\ (there + 1) * SlotDuration \in Nat /\ slotIndex * SlotDuration \in Nat
          <6>1. there + 1 <= slotIndex
              BY <1>4, <5>1 DEF there
          <6>2. QED
              BY <1>4, <5>2, <6>1, TimesMonotone
        <5>4. QED
            BY <5>1, <5>2, <5>3
      <4>4. Excused(overdue, starts, g)
          BY <1>2, <2>2, <4>2, <4>3
      <4>5. QED
          BY <1>5, <4>1, <4>2, <4>4
    <3>3. QED
        BY <3>1, <3>2
  <2>5. QED
      BY <2>3, <2>4
<1>9. CASE StopAdmitting
  <2>1. /\ UNCHANGED <<ingress, slotIndex, blockEnd, starts, rejected>>
        /\ pc' = "advance"
      BY <1>9 DEF StopAdmitting, wheelVars
  <2>2. NextLook' = NextIndex
      BY <2>1, SameBlock DEF NextLook
  <2>3. \A k \in 1 .. Len(ingress) :
            \/ Excused(overdue, starts, ingress[k])
            \/ starts[ingress[k]] >= NextIndex * SlotDuration
      BY <1>9, LeftInRing
  <2>4. \A k \in 1 .. Len(ingress) : ingress[k] \in Grains
      BY <1>4
  <2>5. QED
      BY <1>5, <1>6, <2>1, <2>2, <2>3, <2>4
<1>10. CASE \/ \E d \in Int, n \in BlockSizes : BeginDrain(d, n)
            \/ FireSlot \/ FinishDrain \/ UNCHANGED vars
  <2>1. UNCHANGED <<ingress, starts, rejected>>
      BY <1>10 DEF BeginDrain, FireSlot, FinishDrain, vars
  <2>2. NextLook' = NextLook
    <3>1. CASE FinishDrain
        BY <3>1 DEF FinishDrain, NextLook
    <3>2. CASE FireSlot \/ UNCHANGED vars
      <4>1. UNCHANGED <<pc, slotIndex, blockEnd>>
          BY <3>2 DEF FireSlot, vars
      <4>2. QED
          BY <4>1, SameBlock DEF NextLook
    <3>3. CASE \E d \in Int, n \in BlockSizes : BeginDrain(d, n)
        BY <3>3 DEF BeginDrain, NextLook, wheelVars
    <3>4. QED
        BY <1>10, <3>1, <3>2, <3>3
  <2>3. \A k \in 1 .. Len(ingress) : ingress[k] \in Grains
      BY <1>4
  <2>4. QED
      BY <1>2, <1>5, <1>6, <2>1, <2>2, <2>3
<1>11. QED
    BY <1>7, <1>8, <1>9, <1>10 DEF WheelStep

-----------------------------------------------------------------------------
(* The steady clock: every block starts where the previous one ended.  The *)
(* read head is then always the slot of the block's start, which neither   *)
(* property below can do without.                                          *)

\* Where the read head is, how long a block is, and when a slot may come out.
OnTime ==
    steady =>
        /\ pc = "idle" => slotIndex = SlotOf(blockEnd)
        /\ pc # "idle" => /\ slotIndex = SlotOf(blockStart)
                          /\ blockEnd - blockStart \in BlockSizes
        /\ \A k \in DOMAIN out :
              (SlotOf(starts[out[k]]) + 1) * SlotDuration
                  \in blockStart + 1 .. blockEnd

\* The wheel's own invariant does not depend on what MCTimeWheel adds.
LEMMA SteadyLedger == MCSpec => []LedgerInv
<1>1. MCInit => Init
    BY DEF MCInit
<1>2. [MCNext]_<<vars, steady>> => [Next]_vars
    BY DEF MCNext
<1>3. QED
    BY <1>1, <1>2, LedgerInvariant, PTL DEF MCSpec, Spec

\* On a steady clock the slots of one block end inside it.
LEMMA FiredInBlock ==
    ASSUME LedgerInv, OnTime, steady, FireSlot,
           NEW k \in DOMAIN slots[FiringIndex(fireAt)]
    PROVE  (SlotOf(starts[slots[FiringIndex(fireAt)][k]]) + 1) * SlotDuration
                  \in blockStart + 1 .. blockEnd
<1> DEFINE slot == SlotOf(starts[slots[FiringIndex(fireAt)][k]])
           head == SlotOf(blockStart)
           goal == TargetIndex
<1>1. slot = slotIndex + fireAt /\ slotIndex = head
    BY FiringEntry DEF LedgerInv, OnTime, FireSlot
<1>2. /\ slotIndex \in Nat /\ fireAt \in Nat /\ blockStart \in Nat /\ blockEnd \in Nat
      /\ NextIndex \in Nat /\ goal \in Nat /\ slotIndex <= NextIndex
      /\ fireAt < Steps /\ Steps \in 0 .. NSlots
      /\ SlotDuration \in Nat \ {0} /\ NSlots \in Nat \ {0}
    BY WheelTypes, WheelAssumption DEF LedgerInv, WheelInv, TypeOK, FireSlot
<1>3. /\ blockStart < (head + 1) * SlotDuration
      /\ goal * SlotDuration <= blockEnd
    BY <1>2, DivBounds DEF SlotOf, TargetIndex
<1>4. slotIndex + fireAt < goal
    BY <1>2 DEF Steps, NextIndex
<1> HIDE DEF slot, head, goal
<1>5. slot \in Nat /\ head <= slot /\ slot + 1 <= goal
    BY <1>1, <1>2, <1>4
<1>6. /\ (head + 1) * SlotDuration <= (slot + 1) * SlotDuration
      /\ (slot + 1) * SlotDuration <= goal * SlotDuration
      /\ (slot + 1) * SlotDuration \in Nat
    BY <1>1, <1>2, <1>5, SMT
<1>7. (slot + 1) * SlotDuration \in blockStart + 1 .. blockEnd
    BY <1>1, <1>2, <1>3, <1>6, SMT
<1>8. QED
    BY <1>7 DEF slot

\* Every step of a steady behaviour keeps the read head on time.
LEMMA NextOnTime ==
    ASSUME LedgerInv, OnTime, [MCNext]_<<vars, steady>>
    PROVE  OnTime'
<1>1. SUFFICES ASSUME steady
               PROVE  /\ pc' = "idle" => slotIndex' = SlotOf(blockEnd')
                      /\ pc' # "idle" => /\ slotIndex' = SlotOf(blockStart')
                                         /\ blockEnd' - blockStart' \in BlockSizes
                      /\ \A k \in DOMAIN out' :
                            (SlotOf(starts'[out'[k]]) + 1) * SlotDuration
                                \in blockStart' + 1 .. blockEnd'
    BY DEF MCNext, OnTime, SlotOf
<1>2. /\ pc = "idle" => slotIndex = SlotOf(blockEnd)
      /\ pc # "idle" => /\ slotIndex = SlotOf(blockStart)
                        /\ blockEnd - blockStart \in BlockSizes
      /\ \A k \in DOMAIN out : (SlotOf(starts[out[k]]) + 1) * SlotDuration
                                   \in blockStart + 1 .. blockEnd
    BY <1>1 DEF OnTime
<1>3. /\ blockStart \in Nat /\ blockEnd \in Nat /\ slotIndex \in Nat
      /\ out \in Seq(Grains) /\ starts \in Seq(Nat)
      /\ slots \in [SlotIndices -> Seq(Grains)]
    BY DEF LedgerInv, WheelInv, TypeOK
<1>4. CASE \E s \in 0 .. MaxStart : Push(s)
  <2>1. PICK s \in 0 .. MaxStart : Push(s)
      BY <1>4
  <2>2. /\ starts' = Append(starts, s)
        /\ UNCHANGED <<slotIndex, pc, blockStart, blockEnd, out>>
      BY <2>1 DEF Push, wheelVars
  <2>3. \A k \in DOMAIN out : starts'[out[k]] = starts[out[k]]
    <3>1. \A k \in DOMAIN out : out[k] \in Grains
        BY <1>3
    <3>2. \A g \in Grains : starts'[g] = starts[g]
        BY <1>3, <2>2 DEF Grains
    <3>3. QED
        BY <3>1, <3>2
  <2>4. QED
      BY <1>2, <2>2, <2>3
<1>5. CASE \E d \in Drifts, n \in BlockSizes : BeginDrain(d, n)
  <2>1. PICK d \in Drifts, n \in BlockSizes : BeginDrain(d, n)
      BY <1>5
  <2>2. /\ pc = "idle" /\ pc' = "admit" /\ out' = <<>>
        /\ blockStart' = blockEnd + d /\ blockEnd' = blockEnd + d + n
        /\ slotIndex' = slotIndex
      BY <2>1 DEF BeginDrain, wheelVars
  <2>3. blockStart' = blockEnd
      BY <1>1, <1>3, <2>2 DEF MCNext, vars
  <2>4. blockEnd' - blockStart' = n
      BY <1>3, <2>2, ClockAssumption
  <2>5. QED
      BY <1>2, <2>2, <2>3, <2>4
<1>6. CASE FireSlot
  <2> DEFINE q == slots[FiringIndex(fireAt)]
  <2>1. /\ out' = out \o q
        /\ UNCHANGED <<slotIndex, pc, blockStart, blockEnd, starts>>
      BY <1>6 DEF FireSlot
  <2>2. q \in Seq(Grains)
    <3>1. slotIndex + fireAt \in Nat
        BY WheelAssumption DEF LedgerInv, WheelInv, TypeOK
    <3>2. FiringIndex(fireAt) \in SlotIndices
        BY <3>1, IndexInArray DEF FiringIndex
    <3>3. QED
        BY <1>3, <3>2
  <2>3. \A k \in DOMAIN q : (SlotOf(starts[q[k]]) + 1) * SlotDuration
                               \in blockStart + 1 .. blockEnd
      BY <1>1, <1>6, FiredInBlock
  <2>4. ASSUME NEW k \in DOMAIN out'
        PROVE  \/ k \in DOMAIN out /\ out'[k] = out[k]
               \/ \E j \in DOMAIN q : out'[k] = q[j]
    <3> HIDE DEF q
    <3>1. CASE k <= Len(out)
        BY <1>3, <2>1, <2>2, <3>1
    <3>2. CASE ~(k <= Len(out))
      <4>1. k - Len(out) \in DOMAIN q /\ out'[k] = q[k - Len(out)]
          BY <1>3, <2>1, <2>2, <3>2
      <4>2. QED
          BY <4>1
    <3>3. QED
        BY <3>1, <3>2
  <2> HIDE DEF q
  <2>5. \A k \in DOMAIN out' : (SlotOf(starts[out'[k]]) + 1) * SlotDuration
                                  \in blockStart + 1 .. blockEnd
      BY <1>2, <2>3, <2>4, Zenon
  <2>6. QED
      BY <1>2, <2>1, <2>5, Zenon
<1>7. CASE FinishDrain
  <2>1. /\ pc = "advance" /\ pc' = "idle" /\ slotIndex' = NextIndex
        /\ UNCHANGED <<blockStart, blockEnd, out, starts>>
      BY <1>7 DEF FinishDrain
  <2>2. slotIndex = SlotOf(blockStart) /\ blockStart <= blockEnd
      BY <1>2, <1>3, <2>1, ClockAssumption
  <2>3. SlotOf(blockStart) \in Nat /\ SlotOf(blockStart) <= SlotOf(blockEnd)
        /\ SlotOf(blockEnd) \in Nat
      BY <1>3, <2>2, SlotMonotone
  <2>4. NextIndex = SlotOf(blockEnd)
      BY <2>2, <2>3 DEF NextIndex, TargetIndex
  <2>5. QED
      BY <1>2, <2>1, <2>4
<1>8. CASE Admit \/ StopAdmitting \/ AtBound \/ UNCHANGED <<vars, steady>>
  <2>1. /\ UNCHANGED <<slotIndex, blockStart, blockEnd, starts, out>>
        /\ pc' = "idle" <=> pc = "idle"
      BY <1>8 DEF Admit, StopAdmitting, AtBound, vars, wheelVars
  <2>2. QED
      BY <1>2, <2>1
<1>9. QED
    BY <1>4, <1>5, <1>6, <1>7, <1>8 DEF MCNext, Next, Drain

\* On a steady clock the read head is on time in every reachable state.
LEMMA AlwaysOnTime == MCSpec => []OnTime
<1>1. MCInit => OnTime
  <2> SUFFICES ASSUME MCInit PROVE OnTime
      OBVIOUS
  <2>1. SlotOf(0) = 0
      BY WheelAssumption, SMT DEF SlotOf
  <2>2. QED
      BY <2>1 DEF MCInit, Init, OnTime
<1>2. LedgerInv /\ OnTime /\ [MCNext]_<<vars, steady>> => OnTime'
    BY NextOnTime
<1>3. QED
    BY <1>1, <1>2, SteadyLedger, PTL DEF MCSpec

\* On a steady clock Wheel::advance hands a grain over in exactly the block in
\* which its slot ends, whatever the block sizes and however long it waited.
THEOREM OnsetOnSteadyClock == MCSpec => []SteadyOnset
<1>1. OnTime => SteadyOnset
    BY DEF OnTime, SteadyOnset, OnsetWhenSlotElapses
<1>2. QED
    BY <1>1, AlwaysOnTime, PTL

\* A steady clock keeps within reach if no block is longer than one rotation.
SteadyReach == steady => InReach /\ RingAhead

\* So every step keeps what waits ahead of the wheel.
LEMMA NextSteadyReach ==
    ASSUME \A n \in BlockSizes : n <= Horizon,
           LedgerInv, SteadyReach, [MCNext]_<<vars, steady>>
    PROVE  SteadyReach'
<1>1. SUFFICES ASSUME steady PROVE InReach' /\ RingAhead'
    BY DEF SteadyReach, MCNext
<1>2. InReach /\ RingAhead
    BY <1>1 DEF SteadyReach
<1>3. [WheelStep]_vars
    BY NextIsWheelStep DEF MCNext
<1>4. ASSUME pc = "idle", pc' = "admit"
      PROVE  blockEnd' - blockEnd \in 0 .. Horizon
  <2>1. Next /\ blockStart' = blockEnd
      BY <1>1, <1>4 DEF MCNext, vars
  <2>2. PICK d \in Drifts, n \in BlockSizes : BeginDrain(d, n)
      BY <1>4, <2>1 DEF Next, Drain, Push, Admit, StopAdmitting, FireSlot, FinishDrain,
                        AtBound, vars
  <2>3. /\ blockStart' = blockEnd + d /\ blockEnd' = blockEnd + d + n
        /\ d \in Int /\ n \in Nat /\ blockEnd \in Nat /\ n <= Horizon /\ Horizon \in Nat
      BY <2>2, ClockAssumption, WheelTypes DEF BeginDrain, LedgerInv, WheelInv, TypeOK
  <2>4. QED
      BY <2>1, <2>3
<1>5. QED
    BY <1>2, <1>3, <1>4, ReachStep, RingStep

\* On a steady clock whose blocks are no longer than one rotation of the wheel,
\* waiting in the ring for the wheel to come within reach never makes a grain
\* late (drain_block_safe: "they are deferred, not dropped").
THEOREM DeferralNeverDrops ==
    ASSUME \A n \in BlockSizes : n <= Horizon
    PROVE  MCSpec => []SteadyDeferredNotDropped
<1>1. MCInit => SteadyReach
  <2> SUFFICES ASSUME MCInit PROVE InReach /\ RingAhead
      BY DEF SteadyReach
  <2>1. InReach
      BY WheelAssumption, SMT DEF MCInit, Init, InReach, TargetIndex, SlotOf
  <2>2. RingAhead
      BY DEF MCInit, Init, RingAhead, DeferredNotDropped, Reasons
  <2>3. QED
      BY <2>1, <2>2
<1>2. LedgerInv /\ SteadyReach /\ [MCNext]_<<vars, steady>> => SteadyReach'
    BY NextSteadyReach
<1>3. SteadyReach => SteadyDeferredNotDropped
    BY DEF SteadyReach, RingAhead, SteadyDeferredNotDropped
<1>4. QED
    BY <1>1, <1>2, <1>3, SteadyLedger, PTL DEF MCSpec

=============================================================================
