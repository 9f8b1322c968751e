----------------------------- MODULE GrainProofs -----------------------------
(***************************************************************************)
(* What the two modules that describe one grain guarantee.                 *)
(*                                                                         *)
(* PanLayout, its place in space, in every mode the command line admits:   *)
(* pan_gains writes within the slice it is given, the length tests of      *)
(* encode_ambisonics never cut off a channel, and the direct signal and    *)
(* the reverb bus keep apart.                                              *)
(*                                                                         *)
(* FofGrain, its life in time, for every width of the counters, every      *)
(* block and every grain: fill_block leaves a grain of the right type,     *)
(* never takes it back to an earlier phase, and fills the room it is given *)
(* unless the grain dies there.                                            *)
(***************************************************************************)
EXTENDS FofGrain, PanLayout, TLAPS

\* A square outgrows its root, and that of a number above one is four or more.
LEMMA SquareOfSuccessor ==
    ASSUME NEW n \in Nat
    PROVE  /\ (n + 1) * (n + 1) \in Nat
           /\ (n + 1) * (n + 1) >= 1
           /\ n >= 1 => (n + 1) * (n + 1) >= 4
<1>1. (n + 1) * (n + 1) = n * n + 2 * n + 1
  BY SMT
<1>2. n * n \in Nat
  BY SMT
<1>3. n >= 1 => n * n >= 1
  BY SMT
<1> QED
  BY <1>1, <1>2, <1>3, SMT

\* The direct part holds every channel the first order needs: W, and from order
\* 1 on X, Y and, in three dimensions, Z (ambisonic_direct_channel_count).
LEMMA DirectPartIsLargeEnough ==
    ASSUME NEW order \in Nat, NEW dims \in {2, 3}
    PROVE  /\ DirectChannels(order, dims) \in Nat
           /\ DirectChannels(order, dims) >= 1
           /\ order >= 1 => DirectChannels(order, dims) >= dims + 1
<1>1. CASE dims = 2
  BY <1>1, SMT DEF DirectChannels
<1>2. CASE dims = 3
  BY <1>2, SquareOfSuccessor, SMT DEF DirectChannels
<1> QED
  BY <1>1, <1>2

\* encode_ambisonics writes only within its slice.
LEMMA EncodedWithin ==
    ASSUME NEW order, NEW dims, NEW len \in Nat
    PROVE  Encoded(order, dims, len) \subseteq 0 .. len - 1
  BY DEF Encoded

\* The reverb bus of every mode is of natural length.
LEMMA ReverbChannelsAreNatural ==
    ASSUME NEW mode \in PanModes
    PROVE  /\ mode.order \in Nat /\ mode.dims \in {2, 3}
           /\ mode.reverb \in Reverbs /\ mode.kind \in Kinds
           /\ ReverbChannels(mode) \in Nat
           /\ mode.reverb = "mono" => ReverbChannels(mode) = 1
<1>1. /\ mode.order \in Nat /\ mode.dims \in {2, 3}
      /\ mode.reverb \in Reverbs /\ mode.kind \in Kinds
  BY DEF PanModes
<1>2. DirectChannels(1, mode.dims) \in Nat
  BY <1>1, DirectPartIsLargeEnough
<1> QED
  BY <1>1, <1>2 DEF Reverbs, ReverbChannels

\* The reverb send stays within the bus, which lies behind the direct part
\* (pan_sample's split_at_mut).
LEMMA ReverbSendWithinBus ==
    ASSUME NEW mode \in PanModes, NEW far \in BOOLEAN
    PROVE  LET direct == DirectChannels(mode.order, mode.dims)
           IN  ReverbSend(mode, far)
                  \subseteq direct .. (direct + ReverbChannels(mode)) - 1
<1> DEFINE direct == DirectChannels(mode.order, mode.dims)
           bus == CASE ~far \/ mode.reverb = "none" -> {}
                    [] far /\ mode.reverb = "mono" -> {0}
                    [] far /\ mode.reverb = "first_order" ->
                          Encoded(1, mode.dims, ReverbChannels(mode))
<1>1. /\ direct \in Nat /\ ReverbChannels(mode) \in Nat
      /\ mode.reverb \in Reverbs
      /\ mode.reverb = "mono" => ReverbChannels(mode) = 1
  BY ReverbChannelsAreNatural, DirectPartIsLargeEnough
<1>2. bus \subseteq 0 .. ReverbChannels(mode) - 1
  <2>1. CASE ~far \/ mode.reverb = "none"
    BY <2>1
  <2>2. CASE far /\ mode.reverb = "mono"
    <3>1. bus = {0}
      BY <2>2
    <3> QED
      BY <3>1, <2>2, <1>1
  <2>3. CASE far /\ mode.reverb = "first_order"
    <3>1. bus = Encoded(1, mode.dims, ReverbChannels(mode))
      BY <2>3
    <3> QED
      BY <3>1, <1>1, EncodedWithin
  <2> QED
    BY <2>1, <2>2, <2>3, <1>1 DEF Reverbs
<1>3. ReverbSend(mode, far) = {direct + c : c \in bus}
  BY DEF ReverbSend
<1> HIDE DEF direct, bus
<1>4. \A c \in bus : direct + c \in direct .. (direct + ReverbChannels(mode)) - 1
  BY <1>1, <1>2
<1> QED
  BY <1>3, <1>4 DEF direct

\* pan_gains writes only channels the mode has: the slice it is given, of
\* channel_count gains, is never overrun, whatever the order, the dimensions,
\* the reverb bus and the distance.
THEOREM PansWithinItsChannels ==
    ASSUME NEW mode \in PanModes, NEW far \in BOOLEAN
    PROVE  PanChannels(mode, far) \subseteq ChannelsOf(mode)
<1> DEFINE direct == DirectChannels(mode.order, mode.dims)
<1>1. /\ direct \in Nat /\ direct >= 1 /\ ReverbChannels(mode) \in Nat
      /\ mode.kind \in Kinds
  BY ReverbChannelsAreNatural, DirectPartIsLargeEnough
<1>2. CASE mode.kind = "Mono"
  BY <1>2 DEF PanChannels, ChannelsOf, ChannelCount
<1>3. CASE mode.kind = "Stereo"
  BY <1>3 DEF PanChannels, ChannelsOf, ChannelCount
<1>4. CASE mode.kind = "Ambisonic"
  <2>1. ChannelsOf(mode) = 0 .. (direct + ReverbChannels(mode)) - 1
    <3>1. ChannelCount(mode) = direct + ReverbChannels(mode)
      BY <1>4, Zenon DEF ChannelCount
    <3>2. ChannelsOf(mode) = 0 .. ChannelCount(mode) - 1
      BY Zenon DEF ChannelsOf
    <3> HIDE DEF direct
    <3> QED
      BY <3>1, <3>2
  <2>2. PanChannels(mode, far) =
           Encoded(mode.order, mode.dims, direct) \union ReverbSend(mode, far)
    BY <1>4 DEF PanChannels
  <2>3. Encoded(mode.order, mode.dims, direct) \subseteq 0 .. direct - 1
    BY <1>1, EncodedWithin
  <2>4. ReverbSend(mode, far) \subseteq direct .. (direct + ReverbChannels(mode)) - 1
    BY ReverbSendWithinBus
  <2> HIDE DEF direct
  <2> QED
    BY <1>1, <2>1, <2>2, <2>3, <2>4
<1> QED
  BY <1>1, <1>2, <1>3, <1>4 DEF Kinds

\* A grain nearer than the reference distance is heard on the direct channels
\* alone, and one farther away adds channels of the reverb bus alone: no dry
\* signal reaches the bus and no send the direct part.
THEOREM DryAndReverbApart ==
    ASSUME NEW mode \in PanModes, mode.kind = "Ambisonic"
    PROVE  LET direct == DirectChannels(mode.order, mode.dims)
           IN  /\ PanChannels(mode, FALSE) \subseteq 0 .. direct - 1
               /\ PanChannels(mode, TRUE) \intersect (0 .. direct - 1)
                     = PanChannels(mode, FALSE)
<1> DEFINE direct == DirectChannels(mode.order, mode.dims)
<1>1. direct \in Nat /\ ReverbChannels(mode) \in Nat
  BY ReverbChannelsAreNatural, DirectPartIsLargeEnough
<1>2. \A far \in BOOLEAN : PanChannels(mode, far) =
           Encoded(mode.order, mode.dims, direct) \union ReverbSend(mode, far)
  BY DEF PanChannels
<1>3. Encoded(mode.order, mode.dims, direct) \subseteq 0 .. direct - 1
  BY <1>1, EncodedWithin
<1>4. ReverbSend(mode, TRUE) \subseteq direct .. (direct + ReverbChannels(mode)) - 1
  BY ReverbSendWithinBus
<1>5. ReverbSend(mode, FALSE) = {}
  BY DEF ReverbSend
<1> HIDE DEF direct
<1>6. ReverbSend(mode, TRUE) \intersect (0 .. direct - 1) = {}
  <2>1. \A c \in direct .. (direct + ReverbChannels(mode)) - 1 : c \notin 0 .. direct - 1
    BY <1>1, SMT
  <2> QED
    BY <2>1, <1>4, Zenon
<1> QED
  BY <1>2, <1>3, <1>5, <1>6 DEF direct

\* From order 1 on, the length tests of encode_ambisonics cut nothing off: every
\* grain reaches W, X, Y and, in three dimensions, Z, and a distant one the whole
\* of a first-order reverb bus.
THEOREM NoChannelCutOff ==
    ASSUME NEW mode \in PanModes, mode.kind = "Ambisonic", mode.order >= 1
    PROVE  LET direct == DirectChannels(mode.order, mode.dims)
           IN  /\ \A far \in BOOLEAN : 0 .. mode.dims \subseteq PanChannels(mode, far)
               /\ mode.reverb = "first_order" =>
                     direct .. direct + mode.dims \subseteq PanChannels(mode, TRUE)
<1> DEFINE direct == DirectChannels(mode.order, mode.dims)
           bus == Encoded(1, mode.dims, ReverbChannels(mode))
<1>1. /\ direct \in Nat /\ direct >= mode.dims + 1
      /\ mode.dims \in {2, 3} /\ mode.order \in Nat
  BY ReverbChannelsAreNatural, DirectPartIsLargeEnough
<1>2. \A order \in Nat, len \in Nat :
         order >= 1 /\ len >= mode.dims + 1 =>
            0 .. mode.dims \subseteq Encoded(order, mode.dims, len)
  BY <1>1 DEF Encoded
<1>3. \A far \in BOOLEAN : PanChannels(mode, far) =
           Encoded(mode.order, mode.dims, direct) \union ReverbSend(mode, far)
  BY DEF PanChannels
<1>4. ASSUME mode.reverb = "first_order"
      PROVE  0 .. mode.dims \subseteq bus
  <2>1. ReverbChannels(mode) = DirectChannels(1, mode.dims)
    BY <1>4 DEF ReverbChannels
  <2>2. ReverbChannels(mode) \in Nat /\ ReverbChannels(mode) >= mode.dims + 1
    BY <2>1, <1>1, DirectPartIsLargeEnough
  <2> QED
    BY <1>2, <2>2
<1>5. mode.reverb = "first_order" => ReverbSend(mode, TRUE) = {direct + c : c \in bus}
  BY DEF ReverbSend
<1> HIDE DEF direct, bus
<1>6. \A d \in direct .. direct + mode.dims :
         d - direct \in 0 .. mode.dims /\ d = direct + (d - direct)
  BY <1>1
<1>7. \A far \in BOOLEAN : 0 .. mode.dims \subseteq PanChannels(mode, far)
  BY <1>1, <1>2, <1>3
<1>8. ASSUME mode.reverb = "first_order"
      PROVE  direct .. direct + mode.dims \subseteq PanChannels(mode, TRUE)
  BY <1>3, <1>4, <1>5, <1>6, <1>8
<1> QED
  BY <1>7, <1>8 DEF direct

-----------------------------------------------------------------------------
(* The life of a grain. *)

\* A function on 1 .. n is a sequence of n elements.
LEMMA FunctionIsSequence ==
    ASSUME NEW S, NEW n \in Nat, NEW f \in [1 .. n -> S]
    PROVE  f \in Seq(S) /\ Len(f) = n /\ DOMAIN f = 1 .. n
  OBVIOUS

\* What fill_block carries from phase to phase: see RunPhase.
Runs == [grain : GrainStates, at : Nat, buf : Buffers]

\* The fields of a grain.
LEMMA GrainFields ==
    ASSUME NEW g \in GrainStates
    PROVE  /\ g.phase \in Phases
           /\ g.t \in Nat /\ g.t <= U32Max
           /\ g.t_fo \in Nat /\ g.t_fo <= U32Max
           /\ g.attack_end \in Nat /\ g.attack_end <= U32Max
           /\ g.decay_end \in Nat /\ g.decay_end <= U32Max
           /\ g.fadeout_end \in Nat /\ g.fadeout_end <= U32Max
           /\ g.fade_dur \in Nat /\ g.fade_dur <= U32Max
           /\ g.decay_acc \in Nat
  BY WidthAssumption DEF GrainStates, U32

\* Sums of counters wrap around within their width.
LEMMA PlusInWidth ==
    ASSUME NEW a \in Nat, NEW b \in Nat
    PROVE  Plus(a, b) \in U32
<1>1. U32Max + 1 \in Nat \ {0} /\ a + b \in Nat
  BY WidthAssumption
<1>2. \A x \in Nat, y \in Nat \ {0} : (x % y) \in 0 .. y - 1
  BY SMT
<1>3. (a + b) % (U32Max + 1) \in 0 .. (U32Max + 1) - 1
  BY <1>1, <1>2
<1> QED
  BY <1>3, WidthAssumption DEF Plus, U32

\* A grain is spawned with its lengths.
LEMMA SpawnType ==
    ASSUME NEW attack \in U32, NEW decay \in U32, NEW fade \in U32
    PROVE  Spawn(attack, decay, fade) \in GrainStates
<1>1. 0 \in U32 /\ U32Max \in U32 /\ Most(decay, attack) \in U32
  BY WidthAssumption DEF U32, Most
<1> QED
  BY <1>1 DEF Spawn, GrainStates, Phases

\* Entering the fade, by a kill or at the end of the decay.
LEMMA EnterFadeOutType ==
    ASSUME NEW g \in GrainStates, NEW fade \in U32
    PROVE  /\ EnterFadeOut(g, fade) \in GrainStates
           /\ EnterFadeOut(g, fade).phase = "FadeOut"
<1>1. Plus(g.t, fade) \in U32 /\ g.t \in U32
  <2>1. g.t \in Nat /\ fade \in Nat /\ g.t \in U32
    BY WidthAssumption DEF U32, GrainStates
  <2> QED
    BY <2>1, PlusInWidth
<1>2. "FadeOut" \in Phases
  BY DEF Phases
<1> DEFINE end == Plus(g.t, fade)
           start == g.t
<1>3. EnterFadeOut(g, fade) =
         [g EXCEPT !.phase = "FadeOut", !.t_fo = start, !.fadeout_end = end]
  BY Zenon DEF EnterFadeOut
<1>4. end \in U32 /\ start \in U32
  BY <1>1
<1> HIDE DEF end, start
<1> QED
  BY <1>2, <1>3, <1>4 DEF GrainStates

\* trigger_fade_out leaves a grain that fades or is dead.
LEMMA TriggerFadeOutType ==
    ASSUME NEW g \in GrainStates, NEW fade \in U32
    PROVE  /\ TriggerFadeOut(g, fade) \in GrainStates
           /\ TriggerFadeOut(g, fade).phase \in {"FadeOut", "Dead"}
  BY EnterFadeOutType DEF TriggerFadeOut

\* A transition ends the phase, and the last one is Dead.
LEMMA TransitionPhaseType ==
    ASSUME NEW g \in GrainStates
    PROVE  /\ TransitionPhase(g) \in GrainStates
           /\ g.phase = "Attack" => TransitionPhase(g).phase = "Decay"
           /\ g.phase = "Decay" => TransitionPhase(g).phase = "FadeOut"
           /\ g.phase = "FadeOut" => TransitionPhase(g).phase = "Dead"
<1>1. g.phase \in Phases /\ g.fade_dur \in U32
  BY DEF GrainStates
<1>2. CASE g.phase = "Attack"
  BY <1>2 DEF TransitionPhase, GrainStates, Phases
<1>3. CASE g.phase = "Decay"
  BY <1>1, <1>3, EnterFadeOutType DEF TransitionPhase
<1>4. CASE g.phase = "FadeOut"
  BY <1>4 DEF TransitionPhase, GrainStates, Phases
<1>5. CASE g.phase = "Dead"
  BY <1>5 DEF TransitionPhase
<1> QED
  BY <1>1, <1>2, <1>3, <1>4, <1>5 DEF Phases

\* The chunks and the tail of a run: its running product stays a power of d, and
\* a whole run multiplies it by d once per sample.
LEMMA RunningDecayType ==
    ASSUME NEW acc \in Nat, NEW n \in Nat
    PROVE  /\ RunningDecay(acc, n, n) = acc + n
           /\ \A idx \in Nat : RunningDecay(acc, n, idx) \in Int
<1>1. Lanes \in Nat \ {0}
  BY WidthAssumption
<1>2. \A x \in Nat, y \in Nat \ {0} : (x % y) \in Nat /\ (x \div y) \in Nat
  BY SMT
<1>3. (n % Lanes) \in Nat
  BY <1>1, <1>2
<1>4. SimdEnd(n) \in Int /\ SimdEnd(n) <= n
  <2> DEFINE r == n % Lanes
  <2>1. SimdEnd(n) = n - r /\ r \in Nat
    BY <1>3 DEF SimdEnd
  <2> HIDE DEF r
  <2> QED
    BY <2>1
<1>5. RunningDecay(acc, n, n) = acc + n
  <2>1. ~(n < SimdEnd(n))
    BY <1>4
  <2>2. RunningDecay(acc, n, n) = acc + SimdEnd(n) + (n - SimdEnd(n))
    BY <2>1, Zenon DEF RunningDecay
  <2> QED
    BY <1>4, <2>2
<1>6. ASSUME NEW idx \in Nat
      PROVE  RunningDecay(acc, n, idx) \in Int
  <2> DEFINE r == idx % Lanes
             q == Lanes * (idx \div Lanes)
  <2>1. r \in Nat /\ (idx \div Lanes) \in Nat
    BY <1>1, <1>2
  <2>2. q \in Int
    BY <1>1, <2>1
  <2>3. RunningDecay(acc, n, idx)
           = IF idx < SimdEnd(n) THEN acc + q + r
                                 ELSE acc + SimdEnd(n) + (idx - SimdEnd(n))
    BY Zenon DEF RunningDecay
  <2> HIDE DEF q, r
  <2> QED
    BY <1>4, <2>1, <2>2, <2>3
<1> QED
  BY <1>5, <1>6

\* Where a phase that renders ends.
LEMMA PhaseEndType ==
    ASSUME NEW g \in GrainStates, g.phase \in {"Attack", "Decay", "FadeOut"}
    PROVE  PhaseEnd(g) \in Nat /\ PhaseEnd(g) <= U32Max
<1>1. CASE g.phase = "Attack"
  BY <1>1, GrainFields DEF PhaseEnd
<1>2. CASE g.phase = "Decay"
  BY <1>2, GrainFields DEF PhaseEnd
<1>3. CASE g.phase = "FadeOut"
  BY <1>3, GrainFields DEF PhaseEnd
<1> QED
  BY <1>1, <1>2, <1>3

\* A run that ends no later than the counters do leaves a grain of its type,
\* n samples older and in the same phase.
LEMMA RenderedType ==
    ASSUME NEW g \in GrainStates, NEW n \in Nat, g.t + n <= U32Max
    PROVE  /\ Rendered(g, n) \in GrainStates
           /\ Rendered(g, n).phase = g.phase
<1>1. g.t + n \in U32
  BY GrainFields, WidthAssumption DEF U32
<1>2. RunningDecay(g.decay_acc, n, n) \in Nat
  <2>1. g.decay_acc \in Nat
    BY GrainFields
  <2>2. RunningDecay(g.decay_acc, n, n) = g.decay_acc + n
    BY <2>1, RunningDecayType
  <2> QED
    BY <2>1, <2>2
<1>3. CASE g.phase = "FadeOut"
  BY <1>1, <1>3 DEF Rendered, GrainStates
<1>4. CASE g.phase # "FadeOut"
  BY <1>1, <1>2, <1>4 DEF Rendered, GrainStates
<1> QED
  BY <1>3, <1>4

\* The samples of such a run.
LEMMA RunSamplesType ==
    ASSUME NEW g \in GrainStates, NEW n \in Nat, g.t + n <= U32Max
    PROVE  RunSamples(g, n) \in [1 .. n -> Samples]
<1>1. SUFFICES ASSUME NEW k \in 1 .. n
               PROVE  [phase |-> g.phase,
                       t     |-> g.t + k - 1,
                       env   |-> IF g.phase = "FadeOut" THEN g.t + k - 1 - g.t_fo
                                    ELSE RunningDecay(g.decay_acc, n, k - 1)]
                         \in Samples
  BY DEF RunSamples
<1>2. g.phase \in Phases /\ g.t + k - 1 \in U32 /\ g.t + k - 1 - g.t_fo \in Int
  BY GrainFields, WidthAssumption DEF U32
<1>3. RunningDecay(g.decay_acc, n, k - 1) \in Int
  <2>1. g.decay_acc \in Nat /\ k - 1 \in Nat
    BY GrainFields
  <2> QED
    BY <2>1, RunningDecayType
<1> QED
  BY <1>2, <1>3 DEF Samples

\* Adding a run's samples keeps a buffer's length and what it holds, and fills
\* the cells of the run.
LEMMA AddedAtType ==
    ASSUME NEW buf \in Buffers, NEW at \in Nat, NEW n \in Nat,
           NEW samples \in [1 .. n -> Samples]
    PROVE  LET new == AddedAt(buf, at, samples)
           IN  /\ new \in Buffers /\ Len(new) = Len(buf)
               /\ DOMAIN new = DOMAIN buf
               /\ \A i \in DOMAIN buf :
                     /\ buf[i] # <<>> => new[i] # <<>>
                     /\ at < i /\ i <= at + n => new[i] # <<>>
<1> DEFINE new == AddedAt(buf, at, samples)
<1>1. /\ buf \in Seq(Seq(Samples)) /\ DOMAIN buf = 1 .. Len(buf) /\ Len(buf) \in Nat
      /\ DOMAIN samples = 1 .. n
  BY DEF Buffers
<1>2. ASSUME NEW i \in DOMAIN buf
      PROVE  /\ new[i] \in Seq(Samples)
             /\ buf[i] # <<>> => new[i] # <<>>
             /\ at < i /\ i <= at + n => new[i] # <<>>
  <2>1. buf[i] \in Seq(Samples) /\ i \in Nat
    BY <1>1
  <2>2. CASE i - at \in 1 .. n
    <3>1. new[i] = Append(buf[i], samples[i - at]) /\ samples[i - at] \in Samples
      BY <1>1, <2>2 DEF AddedAt
    <3>2. Append(buf[i], samples[i - at]) \in Seq(Samples)
          /\ Len(Append(buf[i], samples[i - at])) = Len(buf[i]) + 1
      BY <2>1, <3>1
    <3>3. Append(buf[i], samples[i - at]) # <<>>
      BY <2>1, <3>2
    <3> QED
      BY <3>1, <3>2, <3>3
  <2>3. CASE i - at \notin 1 .. n
    <3>1. new[i] = buf[i]
      BY <1>1, <2>3 DEF AddedAt
    <3>2. ~(at < i /\ i <= at + n)
      BY <2>1, <2>3
    <3> QED
      BY <2>1, <3>1, <3>2
  <2> QED
    BY <2>2, <2>3
<1>3. new \in [1 .. Len(buf) -> Seq(Samples)]
  BY <1>1, <1>2 DEF AddedAt
<1>4. DOMAIN new = DOMAIN buf
  BY <1>1, <1>3
<1> HIDE DEF new
<1>5. new \in Seq(Seq(Samples)) /\ Len(new) = Len(buf)
  BY <1>1, <1>3, FunctionIsSequence, Zenon
<1>6. new \in Buffers
  BY <1>5, Zenon DEF Buffers
<1> QED
  BY <1>2, <1>4, <1>5, <1>6, Zenon DEF new

\* The phase that transition_phase enters when a phase is over.
After(phase) == CASE phase = "Attack"  -> "Decay"
                  [] phase = "Decay"   -> "FadeOut"
                  [] phase = "FadeOut" -> "Dead"

\* One turn of the loop of fill_block: the run keeps its type and its length and
\* loses no sample; every cell it has passed over is filled; and either the
\* phase is over and the next one has begun, or the room is used up.
LEMMA RunPhaseType ==
    ASSUME NEW phase \in {"Attack", "Decay", "FadeOut"}, NEW run \in Runs
    PROVE  LET next == RunPhase(phase)[run]
           IN  /\ next \in Runs
               /\ Len(next.buf) = Len(run.buf) /\ DOMAIN next.buf = DOMAIN run.buf
               /\ run.at <= next.at
               /\ \A i \in DOMAIN run.buf :
                     run.buf[i] # <<>> \/ (run.at < i /\ i <= next.at) =>
                        next.buf[i] # <<>>
               /\ \/ /\ next.grain.phase = run.grain.phase
                     /\ run.grain.phase # phase \/ next.at >= Len(run.buf)
                  \/ /\ run.grain.phase = phase
                     /\ next.grain.phase = After(phase)
<1> DEFINE next == RunPhase(phase)[run]
           grain == run.grain
           at == run.at
           buf == run.buf
           room == Len(buf) - at
           remaining == Most(PhaseEnd(grain) - grain.t, 0)
           length == Least(remaining, room)
           rendered == Rendered(grain, length)
           samples == RunSamples(grain, length)
           turned == [grain |-> IF remaining < room THEN TransitionPhase(rendered)
                                                    ELSE rendered,
                      at    |-> at + length,
                      buf   |-> AddedAt(buf, at, samples)]
<1>1. /\ grain \in GrainStates /\ at \in Nat /\ buf \in Buffers
      /\ Len(buf) \in Nat /\ phase \in Phases
  BY DEF Runs, Buffers, Phases
<1>2. next = IF grain.phase # phase \/ room <= 0 THEN run ELSE turned
  BY <1>1, Zenon DEF RunPhase, Runs
<1>3. CASE grain.phase # phase \/ room <= 0
  <2>1. next = run
    BY <1>2, <1>3, Zenon
  <2>2. grain.phase # phase \/ at >= Len(buf)
    BY <1>1, <1>3
  <2>3. \A i \in DOMAIN buf : i \in Nat
    BY <1>1 DEF Buffers
  <2> HIDE DEF next
  <2>4. \A i \in DOMAIN buf : ~(at < i /\ i <= at)
    BY <1>1, <2>3
  <2> QED
    BY <1>1, <2>1, <2>2, <2>4 DEF next
<1>4. CASE grain.phase = phase /\ room > 0
  <2>1. next = turned
    BY <1>1, <1>2, <1>4
  <2>2. PhaseEnd(grain) \in Nat /\ PhaseEnd(grain) <= U32Max
    BY <1>1, <1>4, PhaseEndType, Zenon
  <2>3. grain.t \in Nat /\ grain.t <= U32Max
    BY <1>1, GrainFields, Zenon
  <2>4. /\ remaining \in Nat /\ length \in Nat
        /\ length <= room /\ grain.t + length <= U32Max
        /\ ~(remaining < room) => length = room
    BY <1>1, <1>4, <2>2, <2>3, WidthAssumption, SMTT(30) DEF Most, Least
  <2>5. rendered \in GrainStates /\ rendered.phase = phase
    BY <1>1, <1>4, <2>4, RenderedType, Zenon
  <2>6. samples \in [1 .. length -> Samples]
    BY <1>1, <2>4, RunSamplesType, Zenon
  <2>7. /\ turned.buf \in Buffers /\ Len(turned.buf) = Len(buf)
        /\ DOMAIN turned.buf = DOMAIN buf
        /\ \A i \in DOMAIN buf :
              /\ buf[i] # <<>> => turned.buf[i] # <<>>
              /\ at < i /\ i <= at + length => turned.buf[i] # <<>>
    <3> DEFINE added == AddedAt(buf, at, samples)
    <3>1. turned.buf = added
      OBVIOUS
    <3>2. length \in Nat /\ buf \in Buffers /\ at \in Nat
      BY <1>1, <2>4
    <3> HIDE DEF samples, turned, buf, at, length
    <3>3. /\ added \in Buffers /\ Len(added) = Len(buf)
          /\ DOMAIN added = DOMAIN buf
          /\ \A i \in DOMAIN buf :
                /\ buf[i] # <<>> => added[i] # <<>>
                /\ at < i /\ i <= at + length => added[i] # <<>>
      BY <2>6, <3>2, AddedAtType
    <3> HIDE DEF added
    <3> QED
      BY <3>1, <3>3
  <2>8. /\ TransitionPhase(rendered) \in GrainStates
        /\ TransitionPhase(rendered).phase = After(phase)
    <3> HIDE DEF rendered
    <3>1. CASE phase = "Attack"
      BY <2>5, <3>1, TransitionPhaseType DEF After
    <3>2. CASE phase = "Decay"
      BY <2>5, <3>2, TransitionPhaseType DEF After
    <3>3. CASE phase = "FadeOut"
      BY <2>5, <3>3, TransitionPhaseType DEF After
    <3> QED
      BY <3>1, <3>2, <3>3
  <2>9. turned.at = at + length
    OBVIOUS
  <2>10. /\ turned.grain \in GrainStates
         /\ remaining < room => turned.grain.phase = After(phase)
         /\ ~(remaining < room) => turned.grain.phase = phase
    <3>1. turned.grain = IF remaining < room THEN TransitionPhase(rendered)
                                             ELSE rendered
      OBVIOUS
    <3> HIDE DEF turned, rendered, remaining, room
    <3> QED
      BY <2>5, <2>8, <3>1
  <2>11. turned.at \in Nat /\ turned.at >= at
         /\ (~(remaining < room) => turned.at >= Len(buf))
    <3> HIDE DEF turned, length, remaining
    <3> QED
      BY <1>1, <2>4, <2>9
  <2>12. turned \in Runs
    <3>1. turned = [grain |-> turned.grain, at |-> turned.at, buf |-> turned.buf]
      OBVIOUS
    <3> HIDE DEF turned
    <3> QED
      BY <2>7, <2>10, <2>11, <3>1 DEF Runs
  <2> HIDE DEF turned, next, length, remaining, room, rendered, samples
  <2> QED
    BY <1>4, <2>1, <2>7, <2>9, <2>10, <2>11, <2>12 DEF next
<1>5. grain.phase # phase \/ room <= 0 \/ room > 0
  BY <1>1
<1> HIDE DEF next, room
<1> QED
  BY <1>3, <1>4, <1>5 DEF next

\* fill_block: the grain stays a grain and the buffer its length; a grain that
\* fades or is dead never wakes up; and unless the grain has died, the room from
\* its first sample to the end of the block is filled.
LEMMA FillBlockType ==
    ASSUME NEW g \in GrainStates, NEW offset \in Nat, NEW buf \in Buffers
    PROVE  LET filled == FillBlock(g, offset, buf)
           IN  /\ filled.grain \in GrainStates
               /\ filled.buf \in Buffers /\ DOMAIN filled.buf = DOMAIN buf
               /\ g.phase \in {"FadeOut", "Dead"} =>
                     filled.grain.phase \in {"FadeOut", "Dead"}
               /\ filled.grain.phase # "Dead" =>
                     \A i \in DOMAIN buf : i > offset => filled.buf[i] # <<>>
<1> DEFINE r0 == [grain |-> g, at |-> offset, buf |-> buf]
           r1 == RunPhase("Attack")[r0]
           r2 == RunPhase("Decay")[r1]
           r3 == RunPhase("FadeOut")[r2]
<1>1. r0 \in Runs /\ r0.grain = g /\ r0.at = offset /\ r0.buf = buf
  BY DEF Runs
<1>2. FillBlock(g, offset, buf) = r3
  BY Zenon DEF FillBlock
<1>3. After("Attack") = "Decay" /\ After("Decay") = "FadeOut" /\ After("FadeOut") = "Dead"
  BY DEF After
<1>4. buf \in Buffers /\ Len(buf) \in Nat /\ DOMAIN buf = 1 .. Len(buf)
  BY DEF Buffers
<1> HIDE DEF r0
<1>5. /\ r1 \in Runs /\ Len(r1.buf) = Len(buf) /\ DOMAIN r1.buf = DOMAIN buf
      /\ \A i \in DOMAIN buf :
            buf[i] # <<>> \/ (offset < i /\ i <= r1.at) => r1.buf[i] # <<>>
      /\ \/ /\ r1.grain.phase = g.phase
            /\ g.phase # "Attack" \/ r1.at >= Len(buf)
         \/ /\ g.phase = "Attack"
            /\ r1.grain.phase = "Decay"
  BY <1>1, <1>3, RunPhaseType
<1> HIDE DEF r1
<1>6. /\ r2 \in Runs /\ Len(r2.buf) = Len(buf) /\ DOMAIN r2.buf = DOMAIN buf
      /\ r1.at <= r2.at
      /\ \A i \in DOMAIN buf :
            r1.buf[i] # <<>> \/ (r1.at < i /\ i <= r2.at) => r2.buf[i] # <<>>
      /\ \/ /\ r2.grain.phase = r1.grain.phase
            /\ r1.grain.phase # "Decay" \/ r2.at >= Len(buf)
         \/ /\ r1.grain.phase = "Decay"
            /\ r2.grain.phase = "FadeOut"
  BY <1>3, <1>5, RunPhaseType
<1> HIDE DEF r2
<1>7. /\ r3 \in Runs /\ Len(r3.buf) = Len(buf) /\ DOMAIN r3.buf = DOMAIN buf
      /\ r2.at <= r3.at
      /\ \A i \in DOMAIN buf :
            r2.buf[i] # <<>> \/ (r2.at < i /\ i <= r3.at) => r3.buf[i] # <<>>
      /\ \/ /\ r3.grain.phase = r2.grain.phase
            /\ r2.grain.phase # "FadeOut" \/ r3.at >= Len(buf)
         \/ /\ r2.grain.phase = "FadeOut"
            /\ r3.grain.phase = "Dead"
  BY <1>3, <1>6, RunPhaseType
<1> HIDE DEF r3
<1>8. /\ r3.grain \in GrainStates /\ r3.buf \in Buffers
      /\ r1.at \in Nat /\ r2.at \in Nat /\ r3.at \in Nat
      /\ g.phase \in {"Attack", "Decay", "FadeOut", "Dead"}
  BY <1>5, <1>6, <1>7 DEF Runs, GrainStates, Phases
<1>9. r3.grain.phase # "Dead" => r3.at >= Len(buf)
  BY <1>4, <1>5, <1>6, <1>7, <1>8
<1>10. g.phase \in {"FadeOut", "Dead"} => r3.grain.phase \in {"FadeOut", "Dead"}
  BY <1>5, <1>6, <1>7
<1>11. ASSUME r3.grain.phase # "Dead", NEW i \in DOMAIN buf, i > offset
       PROVE  r3.buf[i] # <<>>
  <2>1. i \in Nat /\ i <= r3.at /\ offset < i
    BY <1>4, <1>8, <1>9, <1>11
  <2>2. i <= r1.at \/ (r1.at < i /\ i <= r2.at) \/ (r2.at < i /\ i <= r3.at)
    BY <1>8, <2>1
  <2> QED
    BY <1>5, <1>6, <1>7, <2>1, <2>2, Zenon
<1> QED
  BY <1>2, <1>7, <1>8, <1>10, <1>11

=============================================================================
