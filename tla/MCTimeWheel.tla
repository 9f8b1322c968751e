---------------------------- MODULE MCTimeWheel ----------------------------
(***************************************************************************)
(* An instance of TimeWheel for TLC.  In a steady behaviour the clock runs *)
(* freely (Engine's own clock, an undisturbed frame clock); in the others  *)
(* every block may start anywhere in reach of Drifts.  Which of the two it *)
(* is, is fixed at the start, so that one run shows what holds under every *)
(* clock and what a steady one adds.                                       *)
(***************************************************************************)
EXTENDS TimeWheel

VARIABLE steady    \* does every block start where the previous one ended?

Relocating  == {-3, 0, 9} \* JackTransport: the position is set by hand

MCInit == Init /\ steady \in BOOLEAN

MCNext ==
    /\ Next
    /\ steady /\ pc = "idle" /\ pc' = "admit" => blockStart' = blockEnd
    /\ UNCHANGED steady

\* The audio server calls the process callback again and again; nothing makes
\* a producer push.
MCSpec == MCInit /\ [][MCNext]_<<vars, steady>> /\ WF_<<vars, steady>>(MCNext /\ Drain)

\* DeferredNotDropped of TimeWheel, on a steady clock: waiting in the ring never
\* makes a grain late (drain_block_safe, "they are deferred, not dropped").
SteadyDeferredNotDropped == steady => DeferredNotDropped

\* OnsetWhenSlotElapses of TimeWheel, on a steady clock: a grain submitted in
\* time is handed over in the block in which its slot ends (Wheel::advance).
SteadyOnset == steady => OnsetWhenSlotElapses

\* On a steady clock every accepted grain is resolved in the end, wherever it
\* waited and for whatever other grain (drain_block_safe): as no more than
\* MaxGrains are pushed, there is again and again a moment at which all of them
\* have been fired or rejected.
SteadyGrainsResolved ==
    []<>(steady => Grains \subseteq fired \union UNION {rejected[r] : r \in Reasons})

=============================================================================
