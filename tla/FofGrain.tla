------------------------------ MODULE FofGrain ------------------------------
(***************************************************************************)
(* The life of one grain (FofState in src/src/fof.rs) as far as time goes: *)
(* which phase it is in, which samples it writes where in a block's        *)
(* buffer, and when it dies.  A sample's value is left out; what it is     *)
(* computed from is kept: the grain's own time t and, instead of the       *)
(* envelope's value d^e, the exponent e.  The lengths of attack, decay and *)
(* fade, which the code computes in floating point and rounds up, are the  *)
(* inputs here.  Counters are unsigned integers of U32Max + 1 values, with *)
(* the wrap-around of a release build.                                     *)
(*                                                                         *)
(* This module has no state of its own: GrainLife runs one grain and       *)
(* Engine a pool of them.                                                  *)
(***************************************************************************)
EXTENDS Integers, Sequences

CONSTANTS
    U32Max,    \* u32::MAX
    Lanes      \* LANES, the SIMD width (8)

ASSUME WidthAssumption == U32Max \in Nat \ {0} /\ Lanes \in Nat \ {0}

U32 == 0 .. U32Max
Phases == {"Attack", "Decay", "FadeOut", "Dead"}

\* Samples until the fade level of a grain that never reaches it
\* (alpha <= 0 or fade_level <= 0).
Never == U32Max

Plus(a, b) == (a + b) % (U32Max + 1)
Least(a, b) == IF a < b THEN a ELSE b
Most(a, b) == IF a > b THEN a ELSE b

GrainStates ==
    [phase : Phases, t : U32, t_fo : U32, attack_end : U32, decay_end : U32,
     fadeout_end : U32, fade_dur : U32, decay_acc : Nat]

\* A sample written to the buffer: the phase whose formula it follows, the
\* grain's time, and what its envelope is computed from, the exponent of d in
\* Attack and Decay and the time since the fade began in FadeOut.
Samples == [phase : Phases, t : U32, env : Int]

\* A buffer's cell holds what has been added to it since it was zeroed.
Buffers == Seq(Seq(Samples))
Zeroed(n) == [i \in 1 .. n |-> <<>>]

\* FofState::spawn: attack, decay and fade are the grain's lengths in samples.
\* The fade level counts only once Decay has begun.
Spawn(attack, decay, fade) ==
    [phase |-> "Attack", t |-> 0, t_fo |-> 0, attack_end |-> attack,
     decay_end |-> Most(decay, attack), fadeout_end |-> U32Max,
     fade_dur |-> fade, decay_acc |-> 0]

\* The common part of the two ways into FadeOut: the fade begins now.
EnterFadeOutAtDecayEnd(g, fade) ==     \* faulty: a kill waits for the decay
    [g EXCEPT !.phase = "FadeOut", !.t_fo = g.decay_end,
              !.fadeout_end = Plus(g.decay_end, fade)]
EnterFadeOut(g, fade) ==
    [g EXCEPT !.phase = "FadeOut", !.t_fo = g.t, !.fadeout_end = Plus(g.t, fade)]

\* FofState::transition_phase.
TransitionPhase(g) ==
    CASE g.phase = "Attack"  -> [g EXCEPT !.phase = "Decay"]
      [] g.phase = "Decay"   -> EnterFadeOut(g, g.fade_dur)
      [] g.phase = "FadeOut" -> [g EXCEPT !.phase = "Dead"]
      [] g.phase = "Dead"    -> g

\* FofState::trigger_fade_out: a grain that is fading already, or dead, keeps
\* the end it has.
TriggerFadeOutAlways(g, fade) == EnterFadeOut(g, fade)   \* faulty: fade restarts
TriggerFadeOut(g, fade) ==
    IF g.phase \in {"FadeOut", "Dead"} THEN g ELSE EnterFadeOut(g, fade)

PhaseEnd(g) ==
    CASE g.phase = "Attack"  -> g.attack_end
      [] g.phase = "Decay"   -> g.decay_end
      [] g.phase = "FadeOut" -> g.fadeout_end

\* A run of n samples is rendered in chunks of Lanes, then one by one.
SimdEnd(n) == n - (n % Lanes)

\* The exponent of the running product d_acc, which starts a run at acc, as it
\* is for sample idx: a chunk multiplies it by d^Lanes and adds the lane's own
\* power, a sample of the tail multiplies it by d.
RunningDecayTailBehind(acc, n, idx) ==   \* faulty: the tail starts at acc
    IF idx < SimdEnd(n) THEN acc + Lanes * (idx \div Lanes) + (idx % Lanes)
                        ELSE acc + (idx - SimdEnd(n))
RunningDecay(acc, n, idx) ==
    IF idx < SimdEnd(n) THEN acc + Lanes * (idx \div Lanes) + (idx % Lanes)
                        ELSE acc + SimdEnd(n) + (idx - SimdEnd(n))

\* process_attack, process_decay and process_fadeout: the samples of a run.
RunSamples(g, n) ==
    [k \in 1 .. n |->
        [phase |-> g.phase,
         t     |-> g.t + k - 1,
         env   |-> IF g.phase = "FadeOut" THEN g.t + k - 1 - g.t_fo
                                          ELSE RunningDecay(g.decay_acc, n, k - 1)]]

\* They keep the running product, which a fade leaves as it was, and fill_block
\* counts the samples.
Rendered(g, n) ==
    [g EXCEPT !.t = @ + n,
              !.decay_acc = IF g.phase = "FadeOut" THEN @ ELSE RunningDecay(@, n, n)]

\* Samples are added to what the cells hold, from cell at + 1 on.
AddedAt(buf, at, samples) ==
    [i \in DOMAIN buf |->
        IF i - at \in DOMAIN samples THEN Append(buf[i], samples[i - at]) ELSE buf[i]]

\* One turn of the loop of fill_block in the given phase: render until the
\* phase or the room in the block ends.  The grain moves on to its next phase
\* only when there is room left.  `run.at' samples of the buffer are behind.
RunPhase(phase) ==
    [run \in [grain : GrainStates, at : Nat, buf : Buffers] |->
        LET room == Len(run.buf) - run.at
        IN  IF run.grain.phase # phase \/ room <= 0 THEN run
            ELSE LET remaining == Most(PhaseEnd(run.grain) - run.grain.t, 0)
                     length    == Least(remaining, room)
                     rendered  == Rendered(run.grain, length)
                 IN  [grain |-> IF remaining < room THEN TransitionPhase(rendered)
                                                    ELSE rendered,
                      at    |-> run.at + length,
                      buf   |-> AddedAt(run.buf, run.at,
                                        RunSamples(run.grain, length))]]

\* FofState::fill_block, where the grain's first sample in this block belongs
\* offset cells into the buffer: the grain afterwards, and the buffer.
FillBlock(g, offset, buf) ==
    RunPhase("FadeOut")[
        RunPhase("Decay")[
            RunPhase("Attack")[[grain |-> g, at |-> offset, buf |-> buf]]]]

\* Where in the block the grain starts (start_offset).
StartOffset(start, blockStart) == Most(start - blockStart, 0)

=============================================================================
