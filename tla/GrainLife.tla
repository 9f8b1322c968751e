------------------------------ MODULE GrainLife ------------------------------
(***************************************************************************)
(* One grain from the block it is spawned in to its death, rendered in     *)
(* blocks whose sizes may all differ, on the engine's free-running clock,  *)
(* with kill requests arriving between blocks.                             *)
(***************************************************************************)
EXTENDS FofGrain

CONSTANTS
    BlockSizes,   \* values of n_frames
    Lengths,      \* lengths of attack and fade, in samples
    Decays,       \* samples until the fade level, or Never
    MaxKills,     \* bound: kill requests
    MaxClock      \* bound: no block begins at or after this time

ASSUME LifeAssumption ==
    /\ BlockSizes \subseteq Nat \ {0} /\ BlockSizes # {}
    /\ Lengths \subseteq U32 /\ Decays \subseteq U32
    /\ MaxKills \in Nat /\ MaxClock \in Nat

VARIABLES
    grain,     \* the FofState
    start,     \* its start_sample
    clock,     \* the engine's sample_clock
    mono,      \* mono_buf, as far as the last block used it
    given,     \* history: the lengths it was spawned with
    kills      \* history: the kill requests that met it, as [t, fade]

vars == <<grain, start, clock, mono, given, kills>>

-----------------------------------------------------------------------------

\* The grain is spawned for the block that begins at time 0 and contains its
\* start_sample.
Init ==
    /\ given \in [attack : Lengths, decay : Decays, fade : Lengths]
    /\ grain = Spawn(given.attack, given.decay, given.fade)
    /\ start \in {s \in U32 : \E n \in BlockSizes : s < n}
    /\ clock = 0
    /\ mono = <<>>
    /\ kills = <<>>

\* process_block zeroes the scratch buffer and has the grain fill it.
RenderBlock(n) ==
    /\ grain.phase # "Dead"
    /\ clock < MaxClock
    /\ clock = 0 => start < n
    /\ LET filled == FillBlock(grain, StartOffset(start, clock), Zeroed(n))
       IN  /\ grain' = filled.grain
           /\ mono' = filled.buf
    /\ clock' = clock + n
    /\ UNCHANGED <<start, given, kills>>

\* process_block applies a kill before it renders the block.
Kill(fade) ==
    /\ grain.phase # "Dead"
    /\ Len(kills) < MaxKills
    /\ grain' = TriggerFadeOut(grain, fade)
    /\ kills' = Append(kills, [t |-> grain.t, fade |-> fade])
    /\ UNCHANGED <<start, clock, mono, given>>

\* The grain is dead and leaves the pool, or the bound is reached.
Over ==
    /\ grain.phase = "Dead" \/ clock >= MaxClock
    /\ UNCHANGED vars

Next ==
    \/ \E n \in BlockSizes : RenderBlock(n)
    \/ \E fade \in Lengths : Kill(fade)
    \/ Over

Spec == Init /\ [][Next]_vars

-----------------------------------------------------------------------------
(* What the life of a grain is meant to be. *)

\* Every variable has its type: no counter leaves its 32 bits, and a fade never
\* begins after the sample being rendered (`self.t - self.t_fo').
TypeOK ==
    /\ grain \in GrainStates
    /\ grain.t_fo <= grain.t
    /\ start \in U32
    /\ clock \in Nat
    /\ mono \in Buffers
    /\ given \in [attack : Lengths, decay : Decays, fade : Lengths]
    /\ kills \in Seq([t : U32, fade : Lengths])

\* The sample at which the fade begins if nobody kills the grain.
NaturalEnd == Most(given.attack, given.decay)

\* A kill cuts the grain short only if it arrives no later than the natural
\* fade begins, and only the first one counts.
Killed    == kills # <<>> /\ kills[1].t <= NaturalEnd
FadeStart == IF Killed THEN kills[1].t ELSE NaturalEnd
FadeLen   == IF Killed THEN kills[1].fade ELSE given.fade

\* How many samples the grain is meant to live, and whether its counters, which
\* end at u32::MAX, can tell: the fade ends within them, and it is not that of a
\* grain that never reaches its fade level and nobody kills.
LifeLength == FadeStart + FadeLen
Fits ==
    /\ LifeLength <= U32Max
    /\ ~Killed => given.decay # Never

Age == clock - start

\* A grain renders one sample per sample of the clock from its start_sample
\* until its life is over, and it is dead as soon as a block goes past that
\* point: how the audio server cuts time into blocks, where in a block the
\* phases change and how many kills follow the first do not matter
\* (FofState::fill_block).  A life that does not fit the counters is rendered as
\* far as its fade; what happens then is the question of NeverFadesNaturally.
RendersItsLife ==
    clock > 0 /\ (Fits \/ Age <= FadeStart) =>
        /\ grain.t = Least(Age, LifeLength)
        /\ grain.phase = "Dead" <=> Age > LifeLength

\* What decay_end says of a grain that has no natural fade: "`u32::MAX' if
\* alpha <= 0 or fade_level <= 0 (never triggers naturally)".
NeverFadesNaturally ==
    given.decay = Never /\ kills = <<>> => grain.phase \notin {"FadeOut", "Dead"}

\* What sample k of the grain is meant to be.
SampleAt(k) ==
    IF k < FadeStart
    THEN [phase |-> IF k < given.attack THEN "Attack" ELSE "Decay", t |-> k, env |-> k]
    ELSE [phase |-> "FadeOut", t |-> k, env |-> k - FadeStart]

\* Every cell of the block's buffer holds the sample of the grain that belongs
\* to that moment, once, and nothing before its start and after its end.  The
\* running product of the decay has the value d^t at every sample, although
\* each run is cut into SIMD chunks and a tail and the product is carried from
\* run to run and from block to block (fof.rs: "keeps the
\* `decay_acc == d^self.t` invariant").  A fade whose end the counters cannot tell
\* is left out.
SamplesInPlace ==
    \A i \in DOMAIN mono :
        LET k == Age - Len(mono) + i - 1
        IN  Fits \/ k < FadeStart =>
                mono[i] = IF k \in 0 .. LifeLength - 1 THEN <<SampleAt(k)>> ELSE <<>>

=============================================================================
