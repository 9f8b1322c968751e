------------------------------ MODULE Calendar ------------------------------
(***************************************************************************)
(* What the scheduler of src/src/queue.rs promises, without its array: a   *)
(* first-in first-out line of grains waiting to be looked at, and a set of *)
(* grains each due in a slot of absolute time.  When `now' passes a slot,  *)
(* every grain due in it fires, and no other.  There is no rotation, no    *)
(* modulus and no per-block work here; TimeWheel implements this with an   *)
(* array of NSlots entries that it reuses for ever.                        *)
(***************************************************************************)
EXTENDS Integers, Sequences, FiniteSets

CONSTANTS
    NSlots,        \* how many slots ahead of now the calendar reaches
    SlotDuration,  \* samples per slot
    SlotCapacity   \* grains due in one slot

VARIABLES
    now,       \* the absolute slot that has not elapsed yet
    waiting,   \* grains not looked at yet, oldest first
    calendar,  \* grains that will fire
    starts,    \* start_sample of every submitted grain
    fired,     \* grains that have fired
    late,      \* grains refused because their slot had elapsed
    crowded    \* grains refused because their slot was full

vars == <<now, waiting, calendar, starts, fired, late, crowded>>

Due(g) == starts[g] \div SlotDuration

Init ==
    /\ now = 0
    /\ waiting = <<>>
    /\ calendar = {}
    /\ starts = <<>>
    /\ fired = {}
    /\ late = {}
    /\ crowded = {}

Submit ==
    /\ starts' # starts
    /\ \E s \in {starts'[Len(starts) + 1]} : starts' = Append(starts, s)
    /\ waiting' = Append(waiting, Len(starts) + 1)
    /\ UNCHANGED <<now, calendar, fired, late, crowded>>

\* The oldest waiting grain is within reach and its slot has room.
Enter ==
    /\ waiting # <<>>
    /\ LET g == Head(waiting)
       IN  /\ Due(g) \in now .. now + NSlots - 1
           /\ Cardinality({h \in calendar : Due(h) = Due(g)}) < SlotCapacity
           /\ calendar' = calendar \union {g}
    /\ waiting' = Tail(waiting)
    /\ UNCHANGED <<now, starts, fired, late, crowded>>

RefuseLate ==
    /\ waiting # <<>>
    /\ Due(Head(waiting)) < now
    /\ late' = late \union {Head(waiting)}
    /\ waiting' = Tail(waiting)
    /\ UNCHANGED <<now, calendar, starts, fired, crowded>>

RefuseCrowded ==
    /\ waiting # <<>>
    /\ LET g == Head(waiting)
       IN  /\ Due(g) \in now .. now + NSlots - 1
           /\ Cardinality({h \in calendar : Due(h) = Due(g)}) >= SlotCapacity
           /\ crowded' = crowded \union {g}
    /\ waiting' = Tail(waiting)
    /\ UNCHANGED <<now, calendar, starts, fired, late>>

\* Time passes: exactly the grains of the elapsed slots fire.
Elapse ==
    LET due == {g \in calendar : Due(g) < now'}
    IN  /\ now' > now
        /\ fired' = fired \union due
        /\ calendar' = calendar \ due
        /\ UNCHANGED <<waiting, starts, late, crowded>>

Next == Submit \/ Enter \/ RefuseLate \/ RefuseCrowded \/ Elapse

Spec == Init /\ [][Next]_vars

=============================================================================
