------------------------------ MODULE TimeWheel ------------------------------
(***************************************************************************)
(* The FOF scheduler of src/src/queue.rs: a producer pushes grains (FOF    *)
(* parameters with a start_sample) into a bounded SPSC ring, and once per  *)
(* audio block the audio thread runs drain_block_safe, which admits ready  *)
(* grains into a circular array of slots and fires every slot whose        *)
(* interval has elapsed.                                                   *)
(*                                                                         *)
(* The producer runs concurrently with the drain, so the drain is split    *)
(* where the other thread can be observed or can observe: one step per     *)
(* iteration of the admission loop (each looks at the ring again) and one  *)
(* per iteration of the firing loop.  A grain is named by its position in  *)
(* the sequence of accepted pushes, and `starts' maps it to its            *)
(* start_sample.  Times are samples; u64 does not overflow within the      *)
(* range of clocks a process can reach, so they are naturals.              *)
(***************************************************************************)
EXTENDS Integers, Sequences, FiniteSets, Functions

CONSTANTS
    NSlots,            \* N: slots in the wheel
    SlotDuration,      \* D: samples per slot
    SlotCapacity,      \* M: grains a slot holds
    IngressCapacity,   \* capacity of the ring between the two threads
    HistogramBuckets,  \* SLOT_OFFSET_HISTOGRAM_BUCKETS; the last one overflows
    BlockSizes,        \* values of n_frames the audio server may pass
    Drifts,            \* block_start minus the end of the previous block
    InOrder,           \* does the producer submit in start_sample order?
    MaxGrains,         \* bound: pushes
    MaxStart,          \* bound: start_sample
    MaxClock           \* bound: from here on, only blocks with work to do

ASSUME WheelAssumption ==
    /\ NSlots \in Nat \ {0}
    /\ SlotDuration \in Nat \ {0}
    /\ SlotCapacity \in Nat \ {0}
    /\ IngressCapacity \in Nat \ {0}
    /\ HistogramBuckets \in Nat \ {0}

ASSUME ClockAssumption ==
    /\ BlockSizes \subseteq Nat \ {0}
    /\ Drifts \subseteq Int
    /\ InOrder \in BOOLEAN

ASSUME BoundAssumption ==
    /\ MaxGrains \in Nat
    /\ MaxStart \in Nat
    /\ MaxClock \in Nat

VARIABLES
    ingress,     \* the SPSC ring: grains pushed and not yet admitted
    slots,       \* the wheel's array: slot index -> grains in push order
    slotIndex,   \* Wheel::slot_index, the absolute slot at the read head
    pc,          \* where drain_block_safe is: "idle", "admit" or "advance"
    blockStart,  \* block_start of the current (or last) block
    blockEnd,    \* block_start + block_size: the engine's clock after it
    admitBefore, \* admit_before, computed once when the drain begins
    fireAt,      \* the firing loop's counter i
    out,         \* grains this drain has fired, in order
    stats,       \* QueueStats
    starts,      \* history: start_sample of every accepted grain
    overdue,     \* history: grains that were behind the wheel when submitted
    fired,       \* history: grains handed to the engine
    rejected     \* history: RejectReason -> grains dropped for it

vars == <<ingress, slots, slotIndex, pc, blockStart, blockEnd, admitBefore,
          fireAt, out, stats, starts, overdue, fired, rejected>>

wheelVars == <<slots, slotIndex>>

-----------------------------------------------------------------------------

SlotIndices == 0 .. NSlots - 1
Reasons     == {"too_late", "too_early", "slot_full"}
Grains      == 1 .. Len(starts)

\* The counters are 64-bit; no process lives long enough to overflow one.
QueueStats ==
    [too_late : Nat, too_early : Nat, slot_full : Nat, queue_size : Nat,
     histogram : [0 .. HistogramBuckets - 1 -> Nat]]

\* The slot (counted since time zero) that covers sample t.
SlotOf(t) == t \div SlotDuration

\* Wheel::wheel_time and Wheel::horizon.
WheelTime == slotIndex * SlotDuration
Horizon   == NSlots * SlotDuration

\* admit_before: the first sample the wheel cannot accept yet.
AdmitLimitFromBlockEnd == blockEnd + Horizon     \* faulty: ahead of the wheel
AdmitLimitNoHorizon    == WheelTime              \* faulty: horizon forgotten
AdmitLimit             == WheelTime + Horizon

\* Wheel::schedule: how far ahead of the read head g's slot is, and where in
\* the array that slot is.
SlotDelta(g) == (starts[g] - WheelTime) \div SlotDuration
ArrayIndex(delta) == (slotIndex + delta) % NSlots

SlotIsOverfull(i) == Len(slots[i]) > SlotCapacity      \* faulty: off by one
SlotIsFull(i)     == Len(slots[i]) >= SlotCapacity

\* Why Wheel::schedule refuses g, in the order of its tests, or "none".
RejectReason(g) ==
    CASE starts[g] < WheelTime                   -> "too_late"
      [] starts[g] >= WheelTime + Horizon        -> "too_early"
      [] starts[g] \in WheelTime .. WheelTime + Horizon - 1 ->
            IF SlotIsFull(ArrayIndex(SlotDelta(g))) THEN "slot_full" ELSE "none"

\* The histogram bucket of a grain admitted delta slots ahead.
BucketUnclamped(delta) == delta               \* faulty: no overflow bucket
Bucket(delta) == IF delta < HistogramBuckets - 1 THEN delta
                                                 ELSE HistogramBuckets - 1

\* Wheel::len: grains in the wheel.
WheelLen == Cardinality({p \in SlotIndices \X (1 .. SlotCapacity) :
                            p[2] <= Len(slots[p[1]])})

\* Wheel::advance: where this block takes the read head (never backwards), and
\* how many slots it drains on the way (never more than one rotation).
TargetIndexRoundedUp == SlotOf(blockEnd) + 1   \* faulty: current slot included
TargetIndexOfStart == SlotOf(blockStart)       \* faulty: block_size forgotten
TargetIndex == SlotOf(blockEnd)

NextIndex == IF TargetIndex > slotIndex THEN TargetIndex ELSE slotIndex

StepsShortRotation ==                          \* faulty: one slot too few
    IF NextIndex - slotIndex < NSlots THEN NextIndex - slotIndex ELSE NSlots - 1
Steps == IF NextIndex - slotIndex < NSlots THEN NextIndex - slotIndex ELSE NSlots

\* The array index of the i-th slot drained.
FiringIndexReversed(i) == (NextIndex - 1 - i) % NSlots    \* faulty: newest first
FiringIndex(i) == (slotIndex + i) % NSlots

-----------------------------------------------------------------------------

Init ==
    /\ ingress = <<>>
    /\ slots = [i \in SlotIndices |-> <<>>]
    /\ slotIndex = 0
    /\ pc = "idle"
    /\ blockStart = 0
    /\ blockEnd = 0
    /\ admitBefore = 0
    /\ fireAt = 0
    /\ out = <<>>
    /\ stats = [too_late |-> 0, too_early |-> 0, slot_full |-> 0,
                queue_size |-> 0,
                histogram |-> [b \in 0 .. HistogramBuckets - 1 |-> 0]]
    /\ starts = <<>>
    /\ overdue = {}
    /\ fired = {}
    /\ rejected = [r \in Reasons |-> {}]

\* TimeWheelProducer::push.  A full ring hands the grain back and changes
\* nothing, so only the accepting case is a step.
Push(s) ==
    /\ Len(ingress) < IngressCapacity
    /\ Len(starts) < MaxGrains
    /\ InOrder => \A g \in Grains : starts[g] <= s
    /\ ingress' = Append(ingress, Len(starts) + 1)
    /\ starts' = Append(starts, s)
    /\ overdue' = IF s < (IF pc = "idle" THEN slotIndex ELSE NextIndex)
                             * SlotDuration
                  THEN overdue \union {Len(starts) + 1}
                  ELSE overdue
    /\ UNCHANGED <<wheelVars, pc, blockStart, blockEnd, admitBefore, fireAt,
                   out, stats, fired, rejected>>

MoreToDo == ingress # <<>> \/ \E i \in SlotIndices : slots[i] # <<>>

\* The audio callback enters drain_block_safe for a block of n samples that
\* starts d samples away from where the previous one ended.
BeginDrain(d, n) ==
    /\ pc = "idle"
    /\ blockEnd < MaxClock \/ MoreToDo
    /\ blockEnd + d >= 0
    /\ pc' = "admit"
    /\ blockStart' = blockEnd + d
    /\ blockEnd' = blockEnd + d + n
    /\ admitBefore' = AdmitLimit
    /\ out' = <<>>
    /\ UNCHANGED <<ingress, wheelVars, fireAt, stats, starts, overdue, fired,
                   rejected>>

Ready == ingress # <<>> /\ starts[Head(ingress)] < admitBefore

\* Wheel::schedule succeeds: the grain is appended to its slot and the
\* statistics record how many slots ahead that was.
Schedule(g) ==
    /\ RejectReason(g) = "none"
    /\ slots' = [slots EXCEPT ![ArrayIndex(SlotDelta(g))] = Append(@, g)]
    /\ stats' = [stats EXCEPT !.histogram[Bucket(SlotDelta(g))] = @ + 1]
    /\ UNCHANGED rejected

\* Wheel::schedule fails: the grain is gone and only a counter remembers it.
Reject(g) ==
    LET r == RejectReason(g)
    IN  /\ r # "none"
        /\ rejected' = [rejected EXCEPT ![r] = @ \union {g}]
        /\ stats' = [stats EXCEPT ![r] = @ + 1]
        /\ UNCHANGED slots

\* One iteration of the admission loop that consumes a ready grain.
Admit ==
    /\ pc = "admit"
    /\ Ready
    /\ ingress' = Tail(ingress)
    /\ Schedule(Head(ingress)) \/ Reject(Head(ingress))
    /\ UNCHANGED <<slotIndex, pc, blockStart, blockEnd, admitBefore, fireAt,
                   out, starts, overdue, fired>>

\* The loop ends: the ring is empty or its first grain is not ready yet and
\* stays in the ring (the chunk is dropped without being committed).
StopAdmittingCommitting ==                \* faulty: committed before the test
    /\ pc = "admit"
    /\ ~Ready
    /\ pc' = "advance"
    /\ ingress' = IF ingress = <<>> THEN <<>> ELSE Tail(ingress)
    /\ UNCHANGED <<wheelVars, blockStart, blockEnd, admitBefore, fireAt, out,
                   stats, starts, overdue, fired, rejected>>
StopAdmitting ==
    /\ pc = "admit"
    /\ ~Ready
    /\ pc' = "advance"
    /\ UNCHANGED <<ingress, wheelVars, blockStart, blockEnd, admitBefore,
                   fireAt, out, stats, starts, overdue, fired, rejected>>

\* One iteration of Wheel::advance: a whole slot is moved to `out'.
FireSlot ==
    LET idx == FiringIndex(fireAt)
    IN  /\ pc = "advance"
        /\ fireAt < Steps
        /\ out' = out \o slots[idx]
        /\ fired' = fired \union Range(slots[idx])
        /\ slots' = [slots EXCEPT ![idx] = <<>>]
        /\ fireAt' = fireAt + 1
        /\ UNCHANGED <<ingress, slotIndex, pc, blockStart, blockEnd,
                       admitBefore, stats, starts, overdue, rejected>>

\* The read head jumps to its target and queue_size is published.
FinishDrain ==
    /\ pc = "advance"
    /\ fireAt = Steps
    /\ slotIndex' = NextIndex
    /\ stats' = [stats EXCEPT !.queue_size = WheelLen]
    /\ fireAt' = 0
    /\ pc' = "idle"
    /\ UNCHANGED <<ingress, slots, blockStart, blockEnd, admitBefore, out,
                   starts, overdue, fired, rejected>>

Drain ==
    \/ \E d \in Drifts, n \in BlockSizes : BeginDrain(d, n)
    \/ Admit
    \/ StopAdmitting
    \/ FireSlot
    \/ FinishDrain

\* The bound on the clock is reached: the model, not the system, stops here.
AtBound ==
    /\ pc = "idle"
    /\ blockEnd >= MaxClock
    /\ ~MoreToDo
    /\ UNCHANGED vars

Next ==
    \/ \E s \in 0 .. MaxStart : Push(s)
    \/ Drain
    \/ AtBound

Spec == Init /\ [][Next]_vars

-----------------------------------------------------------------------------
(* What the scheduler promises. *)

\* Every variable has its type; a slot never outgrows the capacity it was
\* allocated with (queue.rs: "so that `schedule` never allocates").
TypeOK ==
    /\ ingress \in Seq(Grains) /\ Len(ingress) <= IngressCapacity
    /\ slots \in [SlotIndices -> Seq(Grains)]
    /\ \A i \in SlotIndices : Len(slots[i]) <= SlotCapacity
    /\ slotIndex \in Nat
    /\ pc \in {"idle", "admit", "advance"}
    /\ blockStart \in Nat /\ blockEnd \in Nat /\ admitBefore \in Nat
    /\ fireAt \in 0 .. NSlots
    /\ out \in Seq(Grains)
    /\ stats \in QueueStats
    /\ starts \in Seq(Nat)
    /\ overdue \subseteq Grains /\ fired \subseteq Grains
    /\ rejected \in [Reasons -> SUBSET Grains]

\* A grain in the array is in the slot of its own start_sample, that slot lies
\* in the one rotation ahead of the read head, and the slots already drained
\* are empty: reusing an array entry never mixes two rotations, however far
\* the clock jumps (Wheel::schedule against Wheel::advance).
WheelPlacement ==
    \A i \in SlotIndices : \A k \in DOMAIN slots[i] :
        LET slot == SlotOf(starts[slots[i][k]])
        IN  /\ slot % NSlots = i
            /\ slotIndex + fireAt <= slot
            /\ slot < slotIndex + NSlots

\* A grain is handed to the engine only in a block that ends after its
\* start_sample: it is never heard early (Wheel::advance fires a slot only
\* when its whole interval has elapsed).
NeverEarly == \A k \in DOMAIN out : starts[out[k]] < blockEnd

\* Within one drain, slots come out oldest first and grains of one slot in the
\* order they were pushed, across the array's wrap-around.
DrainOrder ==
    \A j, k \in DOMAIN out : j < k =>
        \/ SlotOf(starts[out[j]]) < SlotOf(starts[out[k]])
        \/ /\ SlotOf(starts[out[j]]) = SlotOf(starts[out[k]])
           /\ out[j] < out[k]

\* Across drains too: no grain is fired after a grain of a later slot.
FiringNeverGoesBack ==
    [][\A g \in fired' \ fired, h \in fired :
          SlotOf(starts[h]) <= SlotOf(starts[g])]_vars

\* A grain push accepted is in exactly one place: in the ring, in one slot,
\* fired, or rejected for one reason; none is lost or duplicated by the two
\* threads' interleaving or by a drain that stops half-way through the ring.
ExactlyOnce ==
    \A g \in Grains :
        Cardinality({k \in DOMAIN ingress : ingress[k] = g})
        + Cardinality({p \in SlotIndices \X (1 .. SlotCapacity) :
                          /\ p[2] <= Len(slots[p[1]])
                          /\ slots[p[1]][p[2]] = g})
        + Cardinality({r \in Reasons : g \in rejected[r]})
        + (IF g \in fired THEN 1 ELSE 0) = 1

\* The published statistics account for every grain that left the ring, and
\* between drains queue_size is what was admitted and has not fired.
StatsBalance ==
    LET admitted == FoldFunction(+, 0, stats.histogram)
    IN  /\ Len(starts) = Len(ingress) + admitted + stats.too_late
                         + stats.too_early + stats.slot_full
        /\ pc = "idle" => stats.queue_size = admitted - Cardinality(fired)

\* admit_before keeps Wheel::schedule from ever answering TooEarly, whatever
\* the order of submission and the clock (queue.rs, doc of too_early).
TooEarlyUnreachable == rejected["too_early"] = {}

\* A grain is dropped as overdue only if it was already behind the wheel when
\* its submitter pushed it, or was pushed behind a grain of a later start: by
\* itself, waiting in the ring for the wheel to come within reach never makes
\* it late (queue.rs: "they are deferred, not dropped").
DeferredNotDropped ==
    \A g \in rejected["too_late"] :
        g \in overdue \/ \E h \in 1 .. g - 1 : starts[h] > starts[g]

\* A grain submitted in time is handed over in exactly the block in which its
\* slot ends, whatever the block sizes and however it waited in the ring: its
\* onset is off by less than one slot, never by a block.
OnsetWhenSlotElapses ==
    \A k \in DOMAIN out : out[k] \notin overdue =>
        (SlotOf(starts[out[k]]) + 1) * SlotDuration \in blockStart + 1 .. blockEnd

\* The circular array implements a calendar in absolute time: the grains in
\* the array are the calendar, and each iteration of the firing loop lets one
\* slot elapse.
Elapsed == slotIndex + fireAt

CalendarView ==
    INSTANCE Calendar WITH
        now      <- Elapsed,
        waiting  <- ingress,
        calendar <- UNION {Range(slots[i]) : i \in SlotIndices},
        late     <- rejected["too_late"],
        crowded  <- rejected["slot_full"]

ImplementsCalendar == CalendarView!Spec

=============================================================================
