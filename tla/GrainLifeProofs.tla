--------------------------- MODULE GrainLifeProofs ---------------------------
(***************************************************************************)
(* Proofs about GrainLife: whatever the lengths of attack, decay and fade, *)
(* the cuts into blocks, the kills and the width of the counters, a grain  *)
(* renders one sample per sample of the clock until its life is over, and  *)
(* every sample is the one that belongs where it is.                       *)
(***************************************************************************)
EXTENDS GrainLife, GrainProofs

-----------------------------------------------------------------------------
(* Lengths. *)

\* The running product is multiplied by d once per sample: the chunks and the
\* tail of a run leave no trace.
LEMMA RunningDecayExact ==
    ASSUME NEW acc \in Nat, NEW n \in Nat, NEW idx \in Nat
    PROVE  RunningDecay(acc, n, idx) = acc + idx
<1>1. Lanes \in Nat \ {0}
  BY WidthAssumption
<1> DEFINE q == Lanes * (idx \div Lanes)
           r == idx % Lanes
           m == n % Lanes
<1>2. q + r = idx /\ q \in Int /\ r \in Int
  BY <1>1, SMT
<1>3. m \in Int
  BY <1>1, SMT
<1>4. RunningDecay(acc, n, idx) = IF idx < n - m THEN acc + q + r
                                  ELSE acc + (n - m) + (idx - (n - m))
  BY Zenon DEF RunningDecay, SimdEnd
<1> HIDE DEF q, r, m
<1> QED
  BY <1>2, <1>3, <1>4

\* The first element of a sequence.
LEMMA FirstOf ==
    ASSUME NEW S, NEW s \in Seq(S), s # <<>>
    PROVE  s[1] \in S /\ Len(s) >= 1
  OBVIOUS

\* The lengths a grain was spawned with and the kills it has met, as numbers.
GivenOK ==
    /\ given \in [attack : Lengths, decay : Decays, fade : Lengths]
    /\ kills \in Seq([t : U32, fade : Lengths])

\* How many samples the counters let a grain live: a fade whose end wraps around,
\* to before its beginning, does not take place, and a grain that is never to fade
\* begins to at the counter's end.  For a life that Fits it is LifeLength.
CounterLife == IF FadeStart + FadeLen > U32Max THEN FadeStart ELSE FadeStart + FadeLen

\* The beginning of the fade, its length and the length of the life.
LEMMA LifeFacts ==
    ASSUME GivenOK
    PROVE  /\ given.attack \in U32 /\ given.decay \in U32 /\ given.fade \in U32
           /\ NaturalEnd \in U32 /\ NaturalEnd >= given.attack
           /\ Killed \in BOOLEAN
           /\ Killed => kills[1].t \in U32 /\ kills[1].fade \in U32
           /\ FadeStart \in U32 /\ FadeStart <= NaturalEnd
           /\ FadeLen \in U32
           /\ CounterLife \in U32 /\ CounterLife >= FadeStart
<1>1. /\ given.attack \in U32 /\ given.decay \in U32 /\ given.fade \in U32
  BY LifeAssumption DEF GivenOK
<1>2. U32 \subseteq Nat /\ \A x \in U32 : x <= U32Max /\ U32Max \in Nat
  BY WidthAssumption DEF U32
<1>3. NaturalEnd \in U32 /\ NaturalEnd >= given.attack
  <2> DEFINE a == given.attack
             b == given.decay
  <2>1. NaturalEnd = IF a > b THEN a ELSE b
    BY DEF NaturalEnd, Most
  <2>2. a \in U32 /\ b \in U32
    BY <1>1
  <2>3. a \in Nat /\ b \in Nat
    BY <1>2, <2>2
  <2> HIDE DEF a, b
  <2>4. NaturalEnd \in U32 /\ NaturalEnd >= a
    BY <2>1, <2>2, <2>3
  <2> QED
    BY <2>4 DEF a
<1>4. ASSUME Killed
      PROVE  kills[1].t \in U32 /\ kills[1].fade \in U32 /\ kills[1].t <= NaturalEnd
  <2>1. kills \in Seq([t : U32, fade : Lengths]) /\ kills # <<>>
    BY <1>4 DEF GivenOK, Killed
  <2>2. kills[1] \in [t : U32, fade : Lengths]
    BY <2>1, FirstOf
  <2> QED
    BY <1>4, <2>2, LifeAssumption DEF Killed
<1>5. FadeStart \in U32 /\ FadeStart <= NaturalEnd /\ FadeLen \in U32
  BY <1>1, <1>2, <1>3, <1>4 DEF FadeStart, FadeLen
<1>6. CounterLife \in U32 /\ CounterLife >= FadeStart
  <2>1. CounterLife = IF FadeStart + FadeLen > U32Max THEN FadeStart
                                                     ELSE FadeStart + FadeLen
    BY DEF CounterLife
  <2>2. FadeStart \in Nat /\ FadeLen \in Nat /\ U32Max \in Nat
    BY <1>2, <1>5
  <2> HIDE DEF FadeStart, FadeLen, CounterLife
  <2> QED
    BY <1>5, <2>1, <2>2 DEF U32
<1> QED
  BY <1>1, <1>3, <1>4, <1>5, <1>6 DEF Killed

\* The sum that wraps around, as the fade's end does.
LEMMA PlusCases ==
    ASSUME NEW a \in U32, NEW b \in U32
    PROVE  Plus(a, b) = IF a + b > U32Max THEN a + b - U32Max - 1 ELSE a + b
<1> DEFINE w == U32Max + 1
<1>1. w \in Nat \ {0} /\ a \in Nat /\ b \in Nat /\ a < w /\ b < w
  BY WidthAssumption DEF U32
<1>2. Plus(a, b) = (a + b) % w
  BY DEF Plus
<1>3. w = U32Max + 1 /\ U32Max \in Nat
  BY WidthAssumption
<1> HIDE DEF w
<1>4. (a + b) % w = IF a + b >= w THEN a + b - w ELSE a + b
  BY <1>1, SMT
<1> QED
  BY <1>1, <1>2, <1>3, <1>4

-----------------------------------------------------------------------------
(* One grain, at any moment of its life. *)

Rendering == {"Attack", "Decay", "FadeOut"}

\* When a phase is over: unlike PhaseEnd, never before it has begun, as the life
\* of a grain whose fade would wrap around ends where the fade begins.
EndOf(phase) ==
    CASE phase = "Attack"  -> given.attack
      [] phase = "Decay"   -> NaturalEnd
      [] phase = "FadeOut" -> CounterLife

\* A grain has the lengths it was spawned with; it is in the phase its time says;
\* its running product is that of its time; nobody has killed it if it does not
\* fade; and its fade began where it should.
PhaseOK(g) ==
    /\ g.attack_end = given.attack /\ g.decay_end = NaturalEnd
    /\ g.fade_dur = given.fade
    /\ g.phase \in {"Attack", "Decay"} =>
          kills = <<>> /\ g.decay_acc = g.t /\ g.t_fo = 0
    /\ g.phase = "Decay" => given.attack <= g.t
    /\ g.phase \in {"FadeOut", "Dead"} => g.t_fo = FadeStart /\ FadeStart <= g.t
    /\ g.phase = "FadeOut" => g.fadeout_end = Plus(FadeStart, FadeLen)
    /\ g.phase \in Rendering => g.t <= EndOf(g.phase)
    /\ g.phase = "Dead" => g.t = CounterLife

\* The ends of the phases are natural numbers within the width.
LEMMA EndOfType ==
    ASSUME GivenOK
    PROVE  /\ EndOf("Attack") = given.attack /\ EndOf("Decay") = NaturalEnd
           /\ EndOf("FadeOut") = CounterLife
           /\ \A phase \in Rendering : EndOf(phase) \in Nat /\ EndOf(phase) <= U32Max
<1>1. /\ EndOf("Attack") = given.attack /\ EndOf("Decay") = NaturalEnd
      /\ EndOf("FadeOut") = CounterLife
  BY DEF EndOf
<1>2. \A x \in U32 : x \in Nat /\ x <= U32Max
  BY WidthAssumption DEF U32
<1>3. given.attack \in U32 /\ NaturalEnd \in U32 /\ CounterLife \in U32
  BY LifeFacts
<1> QED
  BY <1>1, <1>2, <1>3 DEF Rendering

\* Nobody has killed the grain: its fade begins at its natural end.
LEMMA NotKilledYet ==
    ASSUME kills = <<>>
    PROVE  FadeStart = NaturalEnd /\ FadeLen = given.fade
  BY DEF FadeStart, FadeLen, Killed

\* How many samples a phase still has (the subtraction saturates).
LEMMA RemainingExact ==
    ASSUME GivenOK, NEW g \in GrainStates, PhaseOK(g), g.phase \in Rendering
    PROVE  Most(PhaseEnd(g) - g.t, 0) = EndOf(g.phase) - g.t
<1> DEFINE t == g.t
<1>1. t \in Nat /\ t <= EndOf(g.phase) /\ EndOf(g.phase) \in Nat
  BY GrainFields, EndOfType DEF PhaseOK
<1>2. CASE g.phase \in {"Attack", "Decay"}
  <2>1. PhaseEnd(g) = EndOf(g.phase)
    BY <1>2, EndOfType DEF PhaseOK, PhaseEnd
  <2> HIDE DEF t
  <2>2. Most(PhaseEnd(g) - t, 0) = EndOf(g.phase) - t
    BY <1>1, <2>1 DEF Most
  <2> QED
    BY <2>2 DEF t
<1>3. CASE g.phase = "FadeOut"
  <2>1. PhaseEnd(g) = Plus(FadeStart, FadeLen) /\ EndOf(g.phase) = CounterLife
        /\ FadeStart <= t
    BY <1>3, EndOfType DEF PhaseOK, PhaseEnd
  <2>2. FadeStart \in U32 /\ FadeLen \in U32
    BY LifeFacts
  <2>3. Plus(FadeStart, FadeLen) =
           IF FadeStart + FadeLen > U32Max THEN FadeStart + FadeLen - U32Max - 1
                                           ELSE FadeStart + FadeLen
    BY <2>2, PlusCases
  <2>4. CounterLife = IF FadeStart + FadeLen > U32Max THEN FadeStart
                                                     ELSE FadeStart + FadeLen
    BY DEF CounterLife
  <2>5. FadeStart \in Nat /\ FadeLen \in Nat /\ FadeLen <= U32Max /\ U32Max \in Nat
    BY <2>2, WidthAssumption DEF U32
  <2> HIDE DEF t
  <2>6. Most(PhaseEnd(g) - t, 0) = CounterLife - t
    BY <1>1, <2>1, <2>3, <2>4, <2>5 DEF Most
  <2> QED
    BY <2>1, <2>6 DEF t
<1> QED
  BY <1>2, <1>3 DEF Rendering

\* The samples of a run within a phase are those that belong there.
LEMMA SamplesExact ==
    ASSUME GivenOK, NEW g \in GrainStates, PhaseOK(g), g.phase \in Rendering,
           NEW n \in Nat, g.t + n <= EndOf(g.phase), NEW k \in 1 .. n
    PROVE  RunSamples(g, n)[k] = SampleAt(g.t + k - 1)
<1> DEFINE t == g.t
           at == t + k - 1
<1>1. t \in Nat /\ at \in Nat /\ t <= at /\ at < EndOf(g.phase) /\ g.decay_acc \in Nat
  <2>1. t \in Nat /\ EndOf(g.phase) \in Nat /\ g.decay_acc \in Nat
    BY GrainFields, EndOfType
  <2>2. t + n <= EndOf(g.phase)
    OBVIOUS
  <2> HIDE DEF t
  <2> QED
    BY <2>1, <2>2
<1>2. RunSamples(g, n)[k] =
         [phase |-> g.phase, t |-> at,
          env |-> IF g.phase = "FadeOut" THEN at - g.t_fo
                                         ELSE RunningDecay(g.decay_acc, n, k - 1)]
  <2>1. g.t_fo \in Int /\ t \in Int
    BY GrainFields
  <2> DEFINE fo == g.t_fo
  <2>2. t + k - 1 - fo = at - fo
    <3> HIDE DEF t, fo
    <3> QED
      BY <2>1 DEF fo
  <2> QED
    BY <2>2, Zenon DEF RunSamples
<1>3. SampleAt(at) =
         IF at < FadeStart
         THEN [phase |-> IF at < given.attack THEN "Attack" ELSE "Decay",
               t |-> at, env |-> at]
         ELSE [phase |-> "FadeOut", t |-> at, env |-> at - FadeStart]
  BY DEF SampleAt
<1>4. /\ FadeStart \in Nat /\ given.attack \in Nat /\ NaturalEnd \in Nat
      /\ given.attack <= NaturalEnd
  BY LifeFacts, WidthAssumption DEF U32
<1>5. CASE g.phase \in {"Attack", "Decay"}
  <2>1. FadeStart = NaturalEnd /\ g.decay_acc = t
    BY <1>5, NotKilledYet DEF PhaseOK
  <2>2. RunningDecay(g.decay_acc, n, k - 1) = at
    <3>1. k - 1 \in Nat
      OBVIOUS
    <3>2. RunningDecay(g.decay_acc, n, k - 1) = g.decay_acc + (k - 1)
      BY <1>1, <3>1, RunningDecayExact, Zenon
    <3> QED
      BY <1>1, <2>1, <3>2
  <2>3. CASE g.phase = "Attack"
    <3>1. at < given.attack /\ at < FadeStart
      BY <1>1, <1>4, <2>1, <2>3, EndOfType
    <3> HIDE DEF at
    <3> QED
      BY <1>2, <1>3, <2>2, <2>3, <3>1 DEF at
  <2>4. CASE g.phase = "Decay"
    <3>1. ~(at < given.attack) /\ at < FadeStart
      BY <1>1, <1>4, <2>1, <2>4, EndOfType DEF PhaseOK
    <3> HIDE DEF at
    <3> QED
      BY <1>2, <1>3, <2>2, <2>4, <3>1 DEF at
  <2> QED
    BY <1>5, <2>3, <2>4
<1>6. CASE g.phase = "FadeOut"
  <2>1. g.t_fo = FadeStart /\ ~(at < FadeStart)
    BY <1>1, <1>4, <1>6 DEF PhaseOK
  <2> HIDE DEF at
  <2> QED
    BY <1>2, <1>3, <1>6, <2>1 DEF at
<1> QED
  BY <1>5, <1>6 DEF Rendering

\* A run within a phase leaves the grain as it should be, n samples older.
LEMMA RenderedExact ==
    ASSUME GivenOK, NEW g \in GrainStates, PhaseOK(g), g.phase \in Rendering,
           NEW n \in Nat, g.t + n <= EndOf(g.phase)
    PROVE  /\ PhaseOK(Rendered(g, n))
           /\ Rendered(g, n).t = g.t + n /\ Rendered(g, n).phase = g.phase
<1> DEFINE h == Rendered(g, n)
<1>1. /\ g.t \in Nat /\ g.decay_acc \in Nat /\ FadeStart \in Nat /\ given.attack \in Nat
  BY GrainFields, LifeFacts, WidthAssumption DEF U32
<1>2. RunningDecay(g.decay_acc, n, n) = g.decay_acc + n
  BY <1>1, RunningDecayExact
<1>3. /\ h.t = g.t + n /\ h.phase = g.phase
      /\ h.attack_end = g.attack_end /\ h.decay_end = g.decay_end
      /\ h.fade_dur = g.fade_dur /\ h.t_fo = g.t_fo
      /\ h.fadeout_end = g.fadeout_end
      /\ h.decay_acc = IF g.phase = "FadeOut" THEN g.decay_acc
                                              ELSE RunningDecay(g.decay_acc, n, n)
  BY DEF Rendered, GrainStates
<1> HIDE DEF h
<1>4. PhaseOK(h)
  BY <1>1, <1>2, <1>3 DEF PhaseOK, Rendering
<1> QED
  BY <1>3, <1>4 DEF h

\* At the end of a phase the next one begins as it should.
LEMMA TransitionExact ==
    ASSUME GivenOK, NEW g \in GrainStates, PhaseOK(g), g.phase \in Rendering,
           g.t = EndOf(g.phase)
    PROVE  PhaseOK(TransitionPhase(g)) /\ TransitionPhase(g).t = g.t
<1> DEFINE h == TransitionPhase(g)
<1>1. /\ FadeStart \in Nat /\ given.attack \in Nat /\ NaturalEnd \in Nat
      /\ CounterLife \in Nat /\ FadeStart <= CounterLife
      /\ given.attack <= NaturalEnd /\ g.t \in Nat
  BY LifeFacts, GrainFields, WidthAssumption DEF U32
<1>2. /\ EndOf("Attack") = given.attack /\ EndOf("Decay") = NaturalEnd
      /\ EndOf("FadeOut") = CounterLife
  BY EndOfType
<1>3. CASE g.phase = "Attack"
  <2>1. h = [g EXCEPT !.phase = "Decay"]
    BY <1>3 DEF TransitionPhase
  <2>2. /\ h.phase = "Decay" /\ h.t = g.t
        /\ h.attack_end = g.attack_end /\ h.decay_end = g.decay_end
        /\ h.fade_dur = g.fade_dur /\ h.t_fo = g.t_fo /\ h.decay_acc = g.decay_acc
    BY <2>1 DEF GrainStates
  <2> HIDE DEF h
  <2>3. PhaseOK(h)
    BY <1>1, <1>2, <1>3, <2>2 DEF PhaseOK, Rendering
  <2> QED
    BY <2>2, <2>3 DEF h
<1>4. CASE g.phase = "Decay"
  <2>1. h = EnterFadeOut(g, g.fade_dur)
    BY <1>4 DEF TransitionPhase
  <2>2. /\ h.phase = "FadeOut" /\ h.t = g.t
        /\ h.attack_end = g.attack_end /\ h.decay_end = g.decay_end
        /\ h.fade_dur = g.fade_dur /\ h.t_fo = g.t
        /\ h.fadeout_end = Plus(g.t, g.fade_dur)
    BY <2>1 DEF EnterFadeOut, GrainStates
  <2>3. FadeStart = NaturalEnd /\ FadeLen = given.fade
    BY <1>4, NotKilledYet DEF PhaseOK
  <2> HIDE DEF h
  <2>4. PhaseOK(h)
    BY <1>1, <1>2, <1>4, <2>2, <2>3 DEF PhaseOK, Rendering
  <2> QED
    BY <2>2, <2>4 DEF h
<1>5. CASE g.phase = "FadeOut"
  <2>1. h = [g EXCEPT !.phase = "Dead"]
    BY <1>5 DEF TransitionPhase
  <2>2. /\ h.phase = "Dead" /\ h.t = g.t
        /\ h.attack_end = g.attack_end /\ h.decay_end = g.decay_end
        /\ h.fade_dur = g.fade_dur /\ h.t_fo = g.t_fo
    BY <2>1 DEF GrainStates
  <2> HIDE DEF h
  <2>3. PhaseOK(h)
    BY <1>1, <1>2, <1>5, <2>2 DEF PhaseOK, Rendering
  <2> QED
    BY <2>2, <2>3 DEF h
<1> QED
  BY <1>3, <1>4, <1>5 DEF Rendering

-----------------------------------------------------------------------------
(* One block. *)

\* What a grain of age t0 has rendered of a block of len samples, in which it has
\* at0 samples to wait for its onset, when it has reached cell run.at.
RunOK(run, t0, at0, len) ==
    /\ run \in Runs /\ PhaseOK(run.grain)
    /\ Len(run.buf) = len
    /\ at0 <= run.at /\ run.at <= len
    /\ run.grain.t = t0 + (run.at - at0)
    /\ \A i \in 1 .. len :
          run.buf[i] = IF at0 < i /\ i <= run.at THEN <<SampleAt(t0 + (i - at0) - 1)>>
                                                 ELSE <<>>
    /\ run.grain.phase = "Dead" => run.at < len
    /\ run.grain.phase = "FadeOut" => run.at < len \/ FadeStart < run.grain.t

\* A turn of the loop of fill_block goes on from there, to the end of the phase or
\* of the block.
LEMMA TurnExact ==
    ASSUME GivenOK, NEW t0 \in Nat, NEW at0 \in Nat, NEW len \in Nat,
           NEW run, RunOK(run, t0, at0, len), NEW phase \in Rendering
    PROVE  RunOK(RunPhase(phase)[run], t0, at0, len)
<1> DEFINE next == RunPhase(phase)[run]
           turning == run.grain
           at == run.at
           buf == run.buf
           room == Len(buf) - at
           remaining == Most(PhaseEnd(turning) - turning.t, 0)
           length == Least(remaining, room)
           rendered == Rendered(turning, length)
           samples == RunSamples(turning, length)
           added == AddedAt(buf, at, samples)
           after == IF remaining < room THEN TransitionPhase(rendered) ELSE rendered
           turned == [grain |-> after, at |-> at + length, buf |-> added]
<1>1. /\ run \in Runs /\ turning \in GrainStates /\ at \in Nat /\ buf \in Buffers
      /\ PhaseOK(turning) /\ Len(buf) = len /\ at0 <= at /\ at <= len
      /\ turning.t = t0 + (at - at0)
  BY DEF Runs, RunOK
<1>2. next = IF turning.phase # phase \/ room <= 0 THEN run ELSE turned
  <2>1. phase \in Phases
    BY DEF Rendering, Phases
  <2> QED
    BY <1>1, <2>1, Zenon DEF RunPhase, Runs
<1> SUFFICES RunOK(next, t0, at0, len)
  OBVIOUS
<1>3. CASE turning.phase # phase \/ room <= 0
  BY <1>2, <1>3, Zenon
<1>4. CASE turning.phase = phase /\ room > 0
  <2>1. next = turned
    <3>1. ~(room <= 0)
      BY <1>1, <1>4
    <3> HIDE DEF turned, room, next
    <3> QED
      BY <1>2, <1>4, <3>1
  <2>2. /\ remaining = EndOf(phase) - turning.t /\ turning.t \in Nat
        /\ turning.t <= EndOf(phase) /\ EndOf(phase) \in Nat /\ EndOf(phase) <= U32Max
    <3>1. turning.phase \in Rendering
      BY <1>4
    <3>2. Most(PhaseEnd(turning) - turning.t, 0) = EndOf(turning.phase) - turning.t
      BY <1>1, <3>1, RemainingExact
    <3> QED
      BY <1>1, <1>4, <3>1, <3>2, EndOfType, GrainFields DEF PhaseOK
  <2>3. /\ length \in Nat /\ length <= room /\ turning.t + length <= EndOf(phase)
        /\ remaining < room => turning.t + length = EndOf(phase) /\ length < room
        /\ ~(remaining < room) => length = room
    <3> DEFINE t == turning.t
               end == EndOf(phase)
    <3>1. /\ remaining = end - t /\ t \in Nat /\ t <= end /\ end \in Nat
          /\ room \in Int /\ room > 0
      BY <1>1, <1>4, <2>2
    <3> HIDE DEF t, end, remaining, room
    <3>2. /\ length \in Nat /\ length <= room /\ t + length <= end
          /\ remaining < room => t + length = end /\ length < room
          /\ ~(remaining < room) => length = room
      BY <3>1 DEF Least
    <3> QED
      BY <3>2 DEF t, end
  <2>4. turning.phase \in Rendering /\ turning.t + length <= EndOf(turning.phase)
        /\ turning.t + length <= U32Max
    BY <1>4, <2>2, <2>3, WidthAssumption
  <2>5. /\ PhaseOK(rendered) /\ rendered.t = turning.t + length
        /\ rendered.phase = turning.phase /\ rendered \in GrainStates
    <3> HIDE DEF length
    <3> QED
      BY <1>1, <2>3, <2>4, RenderedExact, RenderedType
  <2>6. /\ remaining < room => PhaseOK(TransitionPhase(rendered))
                               /\ TransitionPhase(rendered).t = rendered.t
                               /\ TransitionPhase(rendered) \in GrainStates
    <3> HIDE DEF length, rendered, remaining, room
    <3>1. TransitionPhase(rendered) \in GrainStates
      BY <2>5, TransitionPhaseType
    <3>2. ASSUME remaining < room
          PROVE  PhaseOK(TransitionPhase(rendered))
                 /\ TransitionPhase(rendered).t = rendered.t
      <4>1. rendered.phase \in Rendering /\ rendered.t = EndOf(rendered.phase)
        BY <1>4, <2>3, <2>4, <2>5, <3>2
      <4> QED
        BY <2>5, <4>1, TransitionExact
    <3> QED
      BY <3>1, <3>2
  <2>7. /\ after \in GrainStates /\ PhaseOK(after) /\ after.t = turning.t + length
        /\ after.phase = "Dead" => length < room
        /\ after.phase = "FadeOut" => length < room \/ FadeStart < after.t
    <3>1. rendered.phase # "Dead" /\ room \in Int /\ room > 0
      BY <1>1, <1>4, <2>4, <2>5 DEF Rendering
    <3>2. FadeStart \in Nat
      BY LifeFacts, WidthAssumption DEF U32
    <3>3. rendered.phase = "FadeOut" => FadeStart <= turning.t
      BY <1>1, <2>5 DEF PhaseOK
    <3> HIDE DEF length, rendered, remaining, room
    <3>4. CASE remaining < room
      BY <2>3, <2>5, <2>6, <3>4
    <3>5. CASE ~(remaining < room)
      <4>1. after = rendered
        BY <3>5
      <4>2. rendered.phase = "FadeOut" => FadeStart < rendered.t
        BY <2>2, <2>3, <2>5, <3>1, <3>2, <3>3, <3>5
      <4> HIDE DEF after
      <4> QED
        BY <2>5, <3>1, <4>1, <4>2
    <3> QED
      BY <3>4, <3>5
  <2>8. samples \in [1 .. length -> Samples]
        /\ \A k \in 1 .. length : samples[k] = SampleAt(turning.t + k - 1)
    <3> HIDE DEF length
    <3>1. samples \in [1 .. length -> Samples]
      BY <1>1, <2>3, <2>4, RunSamplesType
    <3>2. \A k \in 1 .. length : samples[k] = SampleAt(turning.t + k - 1)
      BY <1>1, <2>3, <2>4, SamplesExact
    <3> QED
      BY <3>1, <3>2
  <2>9. added \in Buffers /\ Len(added) = len
    <3>1. length \in Nat /\ buf \in Buffers /\ at \in Nat /\ Len(buf) = len
      BY <1>1, <2>3
    <3> HIDE DEF samples, buf, at, length
    <3> QED
      BY <2>8, <3>1, AddedAtType
  <2>10. \A i \in 1 .. len :
            added[i] = IF at0 < i /\ i <= at + length
                       THEN <<SampleAt(t0 + (i - at0) - 1)>> ELSE <<>>
    <3> TAKE i \in 1 .. len
    <3>1. added[i] = IF i - at \in DOMAIN samples THEN Append(buf[i], samples[i - at])
                                                  ELSE buf[i]
      <4>1. DOMAIN buf = 1 .. len
        BY <1>1 DEF Buffers
      <4> QED
        BY <4>1 DEF AddedAt
    <3>2. buf[i] = IF at0 < i /\ i <= at THEN <<SampleAt(t0 + (i - at0) - 1)>> ELSE <<>>
      BY DEF RunOK
    <3>3. DOMAIN samples = 1 .. length
      BY <2>8
    <3> DEFINE s == SampleAt(t0 + (i - at0) - 1)
    <3>4. CASE i - at \in 1 .. length
      <4>1. /\ at < i /\ i <= at + length /\ at0 < i
            /\ turning.t + (i - at) - 1 = t0 + (i - at0) - 1
        <5> DEFINE t == turning.t
        <5>1. t = t0 + (at - at0) /\ at \in Nat /\ at0 <= at /\ length \in Nat /\ i \in Int
          BY <1>1, <2>3
        <5>2. i - at >= 1 /\ i - at <= length
          BY <3>4, <5>1
        <5> HIDE DEF length, at, t
        <5>3. /\ at < i /\ i <= at + length /\ at0 < i
              /\ t + (i - at) - 1 = t0 + (i - at0) - 1
          BY <5>1, <5>2
        <5> QED
          BY <5>3 DEF t
      <4>2. samples[i - at] = s
        BY <2>8, <3>4, <4>1
      <4>3. buf[i] = <<>>
        BY <1>1, <3>2, <4>1
      <4>4. added[i] = Append(<<>>, s)
        BY <3>1, <3>3, <3>4, <4>2, <4>3
      <4>5. Append(<<>>, s) = <<s>>
        OBVIOUS
      <4> QED
        BY <4>1, <4>4, <4>5
    <3>5. CASE i - at \notin 1 .. length
      <4>1. (at0 < i /\ i <= at + length) <=> (at0 < i /\ i <= at)
        <5> HIDE DEF length
        <5> QED
          BY <1>1, <2>3, <3>5, SMTT(30)
      <4>2. added[i] = buf[i]
        BY <3>1, <3>3, <3>5
      <4> HIDE DEF s, added, length
      <4> QED
        BY <3>2, <4>1, <4>2 DEF s
    <3> QED
      BY <3>4, <3>5
  <2>11. /\ turned.grain = after /\ turned.at = at + length /\ turned.buf = added
    OBVIOUS
  <2> HIDE DEF after, length, added, turned, remaining, room
  <2>12. /\ at + length \in Nat /\ at0 <= at + length /\ at + length <= len
         /\ turning.t + length = t0 + ((at + length) - at0)
         /\ length < room => at + length < len
    BY <1>1, <2>3, SMTT(30) DEF room
  <2>13. turned \in Runs
    BY <2>7, <2>9, <2>12 DEF Runs, turned
  <2>14. RunOK(turned, t0, at0, len)
    BY <2>7, <2>9, <2>10, <2>11, <2>12, <2>13 DEF RunOK
  <2> QED
    BY <2>1, <2>14, Zenon
<1>5. room <= 0 \/ room > 0
  BY <1>1
<1> QED
  BY <1>3, <1>4, <1>5

\* What a block of len samples makes of a grain that has to wait at0 samples for
\* its onset: it is as old as there was room for, or dead at the end of its life,
\* and the buffer holds its samples where they belong.
FilledOK(g, at0, len, filled) ==
    /\ filled.grain \in GrainStates /\ PhaseOK(filled.grain)
    /\ filled.grain.t = Least(g.t + (len - at0), CounterLife)
    /\ filled.grain.phase = "Dead" <=> g.t + (len - at0) > CounterLife
    /\ filled.grain.phase = "FadeOut" => FadeStart < filled.grain.t
    /\ filled.buf \in Buffers /\ DOMAIN filled.buf = 1 .. len
    /\ Len(filled.buf) = len
    /\ \A i \in 1 .. len :
          filled.buf[i] = IF i - at0 \in 1 .. filled.grain.t - g.t
                          THEN <<SampleAt(g.t + (i - at0) - 1)>> ELSE <<>>

\* fill_block does just that.
LEMMA BlockExact ==
    ASSUME GivenOK, NEW g \in GrainStates, PhaseOK(g), g.phase \in Rendering,
           NEW at0 \in Nat, NEW len \in Nat, at0 < len
    PROVE  FilledOK(g, at0, len, FillBlock(g, at0, Zeroed(len)))
<1> DEFINE r0 == [grain |-> g, at |-> at0, buf |-> Zeroed(len)]
           r1 == RunPhase("Attack")[r0]
           r2 == RunPhase("Decay")[r1]
           r3 == RunPhase("FadeOut")[r2]
           t0 == g.t
           room == len - at0
<1>1. Zeroed(len) \in Buffers /\ Len(Zeroed(len)) = len
      /\ \A i \in 1 .. len : Zeroed(len)[i] = <<>>
  <2>1. <<>> \in Seq(Samples)
    OBVIOUS
  <2>2. Zeroed(len) \in [1 .. len -> Seq(Samples)]
    BY <2>1 DEF Zeroed
  <2>3. \A i \in 1 .. len : Zeroed(len)[i] = <<>>
    BY DEF Zeroed
  <2> QED
    BY <2>2, <2>3, FunctionIsSequence DEF Buffers
<1>2. t0 \in Nat /\ t0 <= U32Max
  BY GrainFields
<1>3. r0 \in Runs /\ r0.grain = g /\ r0.at = at0 /\ r0.buf = Zeroed(len)
  BY <1>1 DEF Runs
<1>4. RunOK(r0, t0, at0, len)
  <2>1. g.phase # "Dead"
    BY DEF Rendering
  <2>2. \A i \in 1 .. len : ~(at0 < i /\ i <= at0)
    OBVIOUS
  <2>3. t0 = t0 + (at0 - at0)
    BY <1>2
  <2> HIDE DEF r0, t0
  <2> QED
    BY <1>1, <1>3, <2>1, <2>2, <2>3 DEF RunOK, t0
<1>5. FillBlock(g, at0, Zeroed(len)) = r3
  BY Zenon DEF FillBlock
<1>6. "Attack" \in Rendering /\ "Decay" \in Rendering /\ "FadeOut" \in Rendering
  BY DEF Rendering
<1> HIDE DEF r0, t0
<1>7. RunOK(r1, t0, at0, len)
  BY <1>2, <1>4, <1>6, TurnExact
<1> HIDE DEF r1
<1>8. RunOK(r2, t0, at0, len)
  BY <1>2, <1>6, <1>7, TurnExact
<1> HIDE DEF r2
<1>9. RunOK(r3, t0, at0, len)
  BY <1>2, <1>6, <1>8, TurnExact
<1>10. r1.grain.phase # "Attack" \/ r1.at >= len
  <2>1. r0 \in Runs /\ "Attack" \in {"Attack", "Decay", "FadeOut"} /\ Len(r0.buf) = len
    BY <1>4 DEF RunOK
  <2>2. \/ r1.grain.phase = r0.grain.phase
           /\ (r0.grain.phase # "Attack" \/ r1.at >= Len(r0.buf))
        \/ r1.grain.phase = After("Attack")
    BY <2>1, RunPhaseType DEF r1
  <2> QED
    BY <2>1, <2>2 DEF After
<1>11. r2.grain.phase \notin {"Attack", "Decay"} \/ r2.at >= len
  <2>1. r1 \in Runs /\ "Decay" \in {"Attack", "Decay", "FadeOut"} /\ Len(r1.buf) = len
    BY <1>7 DEF RunOK
  <2>2. /\ r1.at <= r2.at
        /\ \/ r2.grain.phase = r1.grain.phase
              /\ (r1.grain.phase # "Decay" \/ r2.at >= Len(r1.buf))
           \/ r2.grain.phase = After("Decay")
    BY <2>1, RunPhaseType DEF r2
  <2>3. r1.at \in Nat /\ r2.at \in Nat
    BY <1>7, <1>8 DEF RunOK, Runs
  <2> QED
    BY <1>10, <2>1, <2>2, <2>3 DEF After
<1>12. r3.grain.phase = "Dead" \/ r3.at >= len
  <2>1. r2 \in Runs /\ "FadeOut" \in {"Attack", "Decay", "FadeOut"} /\ Len(r2.buf) = len
        /\ r2.grain.phase \in Phases
    BY <1>8 DEF RunOK, Runs, GrainStates
  <2>2. /\ r2.at <= r3.at
        /\ \/ r3.grain.phase = r2.grain.phase
              /\ (r2.grain.phase # "FadeOut" \/ r3.at >= Len(r2.buf))
           \/ r3.grain.phase = After("FadeOut")
    BY <2>1, RunPhaseType
  <2>3. r2.at \in Nat /\ r3.at \in Nat
    BY <1>8, <1>9 DEF RunOK, Runs
  <2> HIDE DEF r3
  <2> QED
    BY <1>11, <2>1, <2>2, <2>3 DEF After, Phases
<1> HIDE DEF r3
<1> DEFINE last == r3.grain
           at == r3.at
<1>13. /\ last \in GrainStates /\ PhaseOK(last) /\ r3.buf \in Buffers
       /\ Len(r3.buf) = len /\ at \in Nat /\ at0 <= at /\ at <= len
       /\ last.t = t0 + (at - at0)
       /\ last.phase = "Dead" => at < len
  BY <1>9 DEF RunOK, Runs
<1>14. DOMAIN r3.buf = 1 .. len
  BY <1>13 DEF Buffers
<1>15. CounterLife \in Nat
  BY LifeFacts, WidthAssumption DEF U32
<1>16. ASSUME last.phase = "Dead"
       PROVE  last.t = Least(t0 + room, CounterLife) /\ t0 + room > CounterLife
  <2>1. last.t = CounterLife
    BY <1>13, <1>16 DEF PhaseOK
  <2> HIDE DEF last, at
  <2> QED
    BY <1>2, <1>13, <1>15, <1>16, <2>1 DEF Least
<1>17. ASSUME last.phase # "Dead"
       PROVE  last.t = Least(t0 + room, CounterLife) /\ ~(t0 + room > CounterLife)
  <2>1. last.t <= CounterLife
    <3>1. last.phase \in Rendering /\ last.t <= EndOf(last.phase)
      BY <1>13, <1>17 DEF PhaseOK, GrainStates, Phases, Rendering
    <3>2. EndOf(last.phase) <= CounterLife
      <4>1. /\ given.attack <= NaturalEnd /\ FadeStart <= CounterLife
            /\ given.attack \in Nat /\ NaturalEnd \in Nat /\ FadeStart \in Nat
            /\ EndOf("Attack") = given.attack /\ EndOf("Decay") = NaturalEnd
            /\ EndOf("FadeOut") = CounterLife
        BY LifeFacts, EndOfType, WidthAssumption DEF U32
      <4>2. CASE last.phase \in {"Attack", "Decay"}
        <5>1. FadeStart = NaturalEnd
          BY <1>13, <4>2, NotKilledYet DEF PhaseOK
        <5> QED
          BY <1>15, <4>1, <4>2, <5>1
      <4>3. CASE last.phase = "FadeOut"
        BY <1>15, <4>1, <4>3
      <4> QED
        BY <3>1, <4>2, <4>3 DEF Rendering
    <3>3. last.t \in Nat /\ EndOf(last.phase) \in Nat
      BY <1>13, <3>1, EndOfType, GrainFields
    <3> QED
      BY <1>15, <3>1, <3>2, <3>3
  <2>2. at = len
    BY <1>12, <1>13, <1>17
  <2> HIDE DEF last, at
  <2>3. last.t = t0 + room
    BY <1>13, <2>2
  <2> QED
    BY <1>2, <1>15, <2>1, <2>3 DEF Least
<1>18. \A i \in 1 .. len :
          r3.buf[i] = IF i - at0 \in 1 .. last.t - t0
                      THEN <<SampleAt(t0 + (i - at0) - 1)>> ELSE <<>>
  <2> TAKE i \in 1 .. len
  <2>1. r3.buf[i] = IF at0 < i /\ i <= at THEN <<SampleAt(t0 + (i - at0) - 1)>> ELSE <<>>
    BY <1>9 DEF RunOK
  <2>2. last.t - t0 = at - at0
    <3> HIDE DEF last, at
    <3> QED
      BY <1>2, <1>13
  <2>3. (at0 < i /\ i <= at) <=> i - at0 \in 1 .. last.t - t0
    <3> HIDE DEF last, at
    <3> QED
      BY <1>2, <1>13, <2>2
  <2> HIDE DEF last, at
  <2> QED
    BY <2>1, <2>3
<1> HIDE DEF last, room
<1>19. /\ last.t = Least(t0 + room, CounterLife)
       /\ last.phase = "Dead" <=> t0 + room > CounterLife
  BY <1>16, <1>17, Zenon
<1>20. last.phase = "FadeOut" => FadeStart < last.t
  <2>1. last.phase = "FadeOut" => at < len \/ FadeStart < last.t
    BY <1>9 DEF RunOK, last
  <2>2. last.phase = "FadeOut" => ~(at < len)
    BY <1>12, <1>13 DEF last
  <2> QED
    BY <2>1, <2>2
<1> QED
  BY <1>5, <1>13, <1>14, <1>18, <1>19, <1>20, Zenon DEF t0, last, room, FilledOK


-----------------------------------------------------------------------------
(* Block after block, kill after kill. *)

\* The grain as the blocks and the kills so far have left it.  Before its first
\* block it has no age; a kill that comes after the natural fade has begun is
\* recognised by the samples of the fade that have been rendered.
GrainOK ==
    /\ grain \in GrainStates /\ PhaseOK(grain)
    /\ start \in U32 /\ clock \in Nat /\ mono \in Buffers
    /\ clock = 0 => grain.t = 0 /\ grain.phase # "Dead" /\ mono = <<>>
    /\ clock > 0 => start < clock
    /\ kills = <<>> /\ grain.phase = "FadeOut" => NaturalEnd < grain.t

\* The two properties for every life, also one that does not fit the counters.
LivesCounterLife ==
    clock > 0 =>
        /\ grain.t = Least(Age, CounterLife)
        /\ grain.phase = "Dead" <=> Age > CounterLife
CounterLifeInPlace ==
    \A i \in DOMAIN mono :
        LET k == Age - Len(mono) + i - 1
        IN  mono[i] = IF k \in 0 .. CounterLife - 1 THEN <<SampleAt(k)>> ELSE <<>>

\* The inductive invariant.
LifeInv == GivenOK /\ GrainOK /\ LivesCounterLife /\ CounterLifeInPlace

\* A spawned grain satisfies the invariant.
LEMMA LifeInit == Init => LifeInv
<1> SUFFICES ASSUME Init PROVE LifeInv
  OBVIOUS
<1>1. /\ given \in [attack : Lengths, decay : Decays, fade : Lengths]
      /\ grain = Spawn(given.attack, given.decay, given.fade)
      /\ clock = 0 /\ mono = <<>> /\ kills = <<>> /\ start \in U32
  BY DEF Init
<1>2. GivenOK
  BY <1>1 DEF GivenOK
<1>3. /\ given.attack \in U32 /\ given.decay \in U32 /\ given.fade \in U32
      /\ given.attack \in Nat /\ given.decay \in Nat
  BY <1>2, LifeFacts, WidthAssumption DEF U32
<1>4. grain \in GrainStates
  BY <1>1, <1>3, SpawnType
<1>5. Most(given.decay, given.attack) = NaturalEnd
  BY <1>3 DEF Most, NaturalEnd
<1>6. /\ grain.phase = "Attack" /\ grain.t = 0 /\ grain.t_fo = 0 /\ grain.decay_acc = 0
      /\ grain.attack_end = given.attack /\ grain.decay_end = NaturalEnd
      /\ grain.fade_dur = given.fade
  BY <1>1, <1>5 DEF Spawn
<1>7. PhaseOK(grain)
  BY <1>1, <1>3, <1>6 DEF PhaseOK, EndOf, Rendering
<1>8. mono \in Buffers /\ DOMAIN mono = {}
  BY <1>1 DEF Buffers
<1>9. GrainOK
  BY <1>1, <1>4, <1>6, <1>7, <1>8 DEF GrainOK
<1>10. LivesCounterLife
  BY <1>1 DEF LivesCounterLife
<1>11. CounterLifeInPlace
  BY <1>8, Zenon DEF CounterLifeInPlace
<1> QED
  BY <1>2, <1>9, <1>10, <1>11 DEF LifeInv

\* What the lengths and the first kill say stays as it is while they do.
LEMMA LifeUnchanged ==
    ASSUME UNCHANGED <<given, kills>>
    PROVE  /\ GivenOK' <=> GivenOK
           /\ NaturalEnd' = NaturalEnd /\ FadeStart' = FadeStart
           /\ FadeLen' = FadeLen /\ CounterLife' = CounterLife
           /\ \A g : PhaseOK(g)' <=> PhaseOK(g)
<1>1. given' = given /\ kills' = kills
  OBVIOUS
<1>2. GivenOK' <=> GivenOK
  BY <1>1 DEF GivenOK
<1>3. NaturalEnd' = NaturalEnd
  BY <1>1 DEF NaturalEnd
<1>4. Killed' <=> Killed
  BY <1>1, <1>3 DEF Killed
<1>5. FadeStart' = FadeStart /\ FadeLen' = FadeLen
  BY <1>1, <1>3, <1>4 DEF FadeStart, FadeLen
<1>6. CounterLife' = CounterLife
  BY <1>5 DEF CounterLife
<1>7. \A g : PhaseOK(g)' <=> PhaseOK(g)
  BY <1>1, <1>3, <1>5, <1>6 DEF PhaseOK, EndOf
<1> QED
  BY <1>2, <1>3, <1>5, <1>6, <1>7


\* The cell that belongs to sample k of a grain.
Cell(k, life, fadeStart, attack) ==
    IF k \in 0 .. life - 1
    THEN IF k < fadeStart
         THEN <<[phase |-> IF k < attack THEN "Attack" ELSE "Decay", t |-> k, env |-> k]>>
         ELSE <<[phase |-> "FadeOut", t |-> k, env |-> k - fadeStart]>>
    ELSE <<>>

\* Every cell of the buffer is the one that belongs there: in these terms the
\* property speaks of its parameters in one place.
CellsInPlace ==
    \A i \in DOMAIN mono :
        mono[i] = Cell(Age - Len(mono) + i - 1, CounterLife, FadeStart, given.attack)

\* The two ways to say so agree.
LEMMA InPlace == CounterLifeInPlace <=> CellsInPlace
<1> SUFFICES ASSUME NEW i \in DOMAIN mono, NEW k
             PROVE  (IF k \in 0 .. CounterLife - 1 THEN <<SampleAt(k)>> ELSE <<>>)
                       = Cell(k, CounterLife, FadeStart, given.attack)
  BY DEF CounterLifeInPlace, CellsInPlace
<1> QED
  BY DEF SampleAt, Cell

\* A block keeps the invariant.
LEMMA BlockKeepsLife ==
    ASSUME LifeInv, NEW n \in BlockSizes, RenderBlock(n)
    PROVE  LifeInv'
<1> DEFINE at0 == StartOffset(start, clock)
           filled == FillBlock(grain, at0, Zeroed(n))
           t == grain.t
           room == n - at0
<1>1. /\ GivenOK /\ GrainOK /\ LivesCounterLife /\ CounterLifeInPlace
      /\ grain \in GrainStates /\ PhaseOK(grain) /\ start \in U32 /\ clock \in Nat
  BY DEF LifeInv, GrainOK
<1>2. /\ grain.phase # "Dead"
      /\ clock = 0 => start < n
      /\ grain' = filled.grain /\ mono' = filled.buf /\ clock' = clock + n
      /\ start' = start /\ UNCHANGED <<given, kills>>
  BY DEF RenderBlock
<1>3. /\ n \in Nat /\ n > 0 /\ start \in Nat /\ t \in Nat /\ CounterLife \in Nat
  <2>1. CounterLife \in Nat /\ start \in Nat
    BY <1>1, LifeFacts, WidthAssumption DEF U32
  <2> QED
    BY <1>1, <2>1, LifeAssumption, GrainFields
<1>4. /\ at0 \in Nat /\ at0 < n
      /\ t + room = clock + n - start
      /\ at0 = 0 \/ t = 0
  <2>1. CASE clock = 0
    <3>1. at0 = start /\ t = 0
      BY <1>1, <1>3, <2>1 DEF StartOffset, Most, GrainOK
    <3> HIDE DEF at0, t
    <3> QED
      BY <1>2, <1>3, <2>1, <3>1
  <2>2. CASE clock # 0
    <3>1. start < clock /\ clock > 0
      BY <1>1, <2>2 DEF GrainOK
    <3>2. at0 = 0
      BY <1>1, <1>3, <3>1 DEF StartOffset, Most
    <3>3. t = clock - start
      <4>1. t = Least(Age, CounterLife) /\ ~(Age > CounterLife)
        BY <1>1, <1>2, <3>1 DEF LivesCounterLife
      <4>2. Age = clock - start
        BY DEF Age
      <4> HIDE DEF t
      <4> QED
        BY <1>1, <1>3, <4>1, <4>2 DEF Least
    <3> HIDE DEF at0, t
    <3> QED
      BY <1>1, <1>3, <3>1, <3>2, <3>3
  <2> QED
    BY <2>1, <2>2
<1>5. grain.phase \in Rendering
  BY <1>1, <1>2 DEF GrainStates, Phases, Rendering
<1>6. /\ filled.grain \in GrainStates /\ PhaseOK(filled.grain)
      /\ filled.grain.t = Least(t + room, CounterLife)
      /\ filled.grain.phase = "Dead" <=> t + room > CounterLife
      /\ filled.grain.phase = "FadeOut" => FadeStart < filled.grain.t
      /\ filled.buf \in Buffers /\ DOMAIN filled.buf = 1 .. n
      /\ Len(filled.buf) = n
      /\ \A i \in 1 .. n :
            filled.buf[i] = IF i - at0 \in 1 .. filled.grain.t - t
                            THEN <<SampleAt(t + (i - at0) - 1)>> ELSE <<>>
  <2>1. at0 \in Nat /\ n \in Nat /\ at0 < n
    BY <1>3, <1>4
  <2>2. FilledOK(grain, at0, n, filled)
    <3> HIDE DEF at0
    <3> QED
      BY <1>1, <1>5, <2>1, BlockExact
  <2> HIDE DEF at0, filled
  <2> QED
    BY <2>2, Zenon DEF FilledOK
<1>7. /\ GivenOK' /\ NaturalEnd' = NaturalEnd /\ FadeStart' = FadeStart
      /\ CounterLife' = CounterLife
      /\ \A g : PhaseOK(g)' <=> PhaseOK(g)
      /\ given'.attack = given.attack
  BY <1>1, <1>2, LifeUnchanged
<1>8. Age' = t + room
  <2>1. Age' = clock + n - start
    BY <1>1, <1>2, <1>3 DEF Age
  <2> QED
    BY <1>4, <2>1
<1> HIDE DEF filled, at0, t
<1>9. GrainOK'
  <2>1. PhaseOK(grain)'
    BY <1>2, <1>6, <1>7 DEF PhaseOK, EndOf
  <2>2. clock' \in Nat /\ clock' > 0 /\ start' < clock' /\ mono' \in Buffers
    BY <1>1, <1>2, <1>3, <1>4, <1>6
  <2>3. kills' = <<>> => NaturalEnd' = FadeStart
    BY <1>2, <1>7, NotKilledYet
  <2>4. kills' = <<>> /\ grain'.phase = "FadeOut" => NaturalEnd' < grain'.t
    BY <1>2, <1>6, <2>3
  <2> QED
    BY <1>1, <1>2, <1>3, <1>6, <2>1, <2>2, <2>4 DEF GrainOK
<1>10. LivesCounterLife'
  <2>1. /\ grain'.t = Least(Age', CounterLife')
        /\ grain'.phase = "Dead" <=> Age' > CounterLife'
    BY <1>2, <1>6, <1>7, <1>8
  <2> QED
    BY <2>1 DEF LivesCounterLife
<1>11. CounterLifeInPlace'
  <2>1. Len(mono') = n /\ DOMAIN mono' = 1 .. n
    BY <1>2, <1>6
  <2>2. ASSUME NEW i \in 1 .. n, NEW k, k = Age' - n + i - 1
        PROVE  mono'[i] = IF k \in 0 .. CounterLife - 1 THEN <<SampleAt(k)>> ELSE <<>>
    <3>1. k = t + (i - at0) - 1 /\ k \in Int
      BY <1>3, <1>4, <1>8, <2>2
    <3>2. filled.grain.t = Least(t + room, CounterLife)
      BY <1>6
    <3>3. i - at0 \in 1 .. filled.grain.t - t <=> k \in 0 .. CounterLife - 1
      <4>1. i - at0 <= room /\ i \in Int /\ i >= 1
        BY <1>3, <1>4
      <4>2. i - at0 \in 1 .. Least(t + room, CounterLife) - t
               <=> i - at0 >= 1 /\ t + (i - at0) <= CounterLife
        BY <1>3, <1>4, <4>1 DEF Least
      <4>3. i - at0 >= 1 <=> k >= 0
        BY <1>3, <1>4, <3>1, <4>1
      <4>4. t + (i - at0) <= CounterLife <=> k <= CounterLife - 1
        BY <1>3, <1>4, <3>1, <4>1
      <4> QED
        BY <1>3, <3>1, <3>2, <4>2, <4>3, <4>4
    <3>4. mono'[i] = IF i - at0 \in 1 .. filled.grain.t - t THEN <<SampleAt(k)>>
                                                            ELSE <<>>
      BY <1>2, <1>6, <3>1
    <3> QED
      BY <3>3, <3>4
  <2>3. \A i \in DOMAIN mono' :
           mono'[i] = Cell(Age' - Len(mono') + i - 1, CounterLife', FadeStart', given'.attack)
    <3> SUFFICES ASSUME NEW i \in 1 .. n
                 PROVE  mono'[i] = Cell(Age' - n + i - 1, CounterLife, FadeStart, given.attack)
      BY <1>7, <2>1
    <3> DEFINE k == Age' - n + i - 1
    <3>1. mono'[i] = IF k \in 0 .. CounterLife - 1 THEN <<SampleAt(k)>> ELSE <<>>
      BY <2>2
    <3> HIDE DEF k
    <3>2. mono'[i] = Cell(k, CounterLife, FadeStart, given.attack)
      BY <3>1 DEF Cell, SampleAt
    <3> QED
      BY <3>2 DEF k
  <2> QED
    <3>1. CellsInPlace'
      BY <2>3 DEF CellsInPlace
    <3> QED
      BY <3>1, InPlace, PTL
<1> QED
  BY <1>7, <1>9, <1>10, <1>11 DEF LifeInv


\* A kill keeps the invariant: it changes nothing that has been rendered, and
\* only the first one changes what is still to come.
LEMMA KillKeepsLife ==
    ASSUME LifeInv, NEW fade \in Lengths, Kill(fade)
    PROVE  LifeInv'
<1> DEFINE t == grain.t
<1>1. /\ GivenOK /\ GrainOK /\ LivesCounterLife /\ CounterLifeInPlace
      /\ grain \in GrainStates /\ PhaseOK(grain)
      /\ given \in [attack : Lengths, decay : Decays, fade : Lengths]
      /\ kills \in Seq([t : U32, fade : Lengths])
  BY DEF LifeInv, GrainOK, GivenOK
<1>2. /\ grain.phase # "Dead"
      /\ grain' = TriggerFadeOut(grain, fade)
      /\ kills' = Append(kills, [t |-> t, fade |-> fade])
      /\ start' = start /\ clock' = clock /\ mono' = mono /\ given' = given
  BY DEF Kill
<1>3. /\ t \in U32 /\ fade \in U32 /\ t \in Nat /\ t <= U32Max
      /\ fade \in Nat /\ U32Max \in Nat
  <2>1. t \in U32 /\ fade \in U32
    BY <1>1, LifeAssumption DEF GrainStates
  <2> QED
    BY <2>1, WidthAssumption DEF U32
<1>4. GivenOK'
  <2>1. [t |-> t, fade |-> fade] \in [t : U32, fade : Lengths]
    BY <1>3
  <2>2. kills' \in Seq([t : U32, fade : Lengths])
    BY <1>1, <1>2, <2>1
  <2> QED
    BY <1>1, <1>2, <2>2 DEF GivenOK
<1>5. grain' \in GrainStates
  BY <1>1, <1>2, <1>3, TriggerFadeOutType
<1>6. NaturalEnd' = NaturalEnd /\ Age' = Age
  BY <1>2 DEF NaturalEnd, Age
<1>7. /\ kills = <<>> => kills'[1] = [t |-> t, fade |-> fade]
      /\ kills # <<>> => kills'[1] = kills[1]
      /\ kills' # <<>>
  <2> DEFINE kill == [t |-> t, fade |-> fade]
  <2>1. kill \in [t : U32, fade : Lengths]
    BY <1>3
  <2> HIDE DEF kill
  <2>2. /\ kills = <<>> => Append(kills, kill)[1] = kill
        /\ kills # <<>> => Append(kills, kill)[1] = kills[1]
        /\ Append(kills, kill) # <<>>
    BY <1>1, <2>1
  <2> QED
    BY <1>2, <2>2 DEF kill
<1>8. /\ FadeStart \in Nat /\ CounterLife \in Nat /\ NaturalEnd \in Nat
      /\ FadeStart <= CounterLife /\ given.attack \in Nat /\ given.attack <= NaturalEnd
  BY <1>1, LifeFacts, WidthAssumption DEF U32
<1> HIDE DEF t
<1>9. CASE grain.phase \in {"Attack", "Decay"}
  <2>1. /\ kills = <<>> /\ t <= EndOf(grain.phase)
        /\ grain.attack_end = given.attack /\ grain.decay_end = NaturalEnd
        /\ grain.fade_dur = given.fade
    BY <1>1, <1>9 DEF PhaseOK, Rendering, t
  <2>2. t <= NaturalEnd
    BY <1>1, <1>3, <1>8, <1>9, <2>1, EndOfType
  <2>3. FadeStart = NaturalEnd
    BY <2>1, NotKilledYet
  <2>4. Killed'
    BY <1>2, <1>6, <1>7, <2>1, <2>2 DEF Killed
  <2>5. FadeStart' = t /\ FadeLen' = fade
    BY <1>7, <2>1, <2>4 DEF FadeStart, FadeLen
  <2>6. CounterLife' = IF t + fade > U32Max THEN t ELSE t + fade
    BY <2>5 DEF CounterLife
  <2>7. CounterLife' \in Nat /\ t <= CounterLife'
    BY <1>3, <2>6
  <2>8. grain' = EnterFadeOut(grain, fade)
    BY <1>2, <1>9 DEF TriggerFadeOut
  <2>9. /\ grain'.phase = "FadeOut" /\ grain'.t = t /\ grain'.t_fo = t
        /\ grain'.fadeout_end = Plus(t, fade)
        /\ grain'.attack_end = grain.attack_end /\ grain'.decay_end = grain.decay_end
        /\ grain'.fade_dur = grain.fade_dur
    BY <1>1, <2>8 DEF EnterFadeOut, GrainStates, t
  <2>10. PhaseOK(grain)'
    BY <1>2, <1>3, <1>6, <2>1, <2>5, <2>7, <2>9 DEF PhaseOK, EndOf, Rendering
  <2>11. GrainOK'
    <3>1. clock = 0 => t = 0 /\ mono = <<>>
      BY <1>1 DEF GrainOK, t
    <3> QED
      BY <1>1, <1>2, <1>5, <1>7, <2>9, <2>10, <3>1 DEF GrainOK
  <2>12. ASSUME clock > 0
         PROVE  t = Age /\ Age \in Int
    <3>1. t = Least(Age, CounterLife) /\ ~(Age > CounterLife)
      BY <1>1, <1>2, <2>12 DEF LivesCounterLife, t
    <3>2. clock \in Nat /\ start \in Nat
      BY <1>1, WidthAssumption DEF GrainOK, U32
    <3>3. Age \in Int
      BY <3>2 DEF Age
    <3> QED
      BY <1>8, <3>1, <3>3 DEF Least
  <2>13. LivesCounterLife'
    <3>1. ASSUME clock > 0
          PROVE  t = Least(Age, CounterLife') /\ ~(Age > CounterLife')
      BY <2>7, <2>12, <3>1 DEF Least
    <3> QED
      BY <1>2, <1>6, <2>9, <3>1 DEF LivesCounterLife
  <2>14. CellsInPlace'
    <3>1. CellsInPlace
      BY <1>1, InPlace
    <3>2. mono \in Seq(Seq(Samples))
      BY <1>1 DEF GrainOK, Buffers
    <3>3. ASSUME NEW i \in DOMAIN mono
          PROVE  Cell(Age - Len(mono) + i - 1, CounterLife, FadeStart, given.attack)
                    = Cell(Age - Len(mono) + i - 1, CounterLife', FadeStart', given.attack)
      <4>1. i \in 1 .. Len(mono) /\ Len(mono) \in Nat
        BY <3>2
      <4>2. clock > 0
        <5>1. clock = 0 => mono = <<>>
          BY <1>1 DEF GrainOK
        <5>2. clock \in Nat /\ mono # <<>>
          BY <1>1, <4>1 DEF GrainOK
        <5> QED
          BY <5>1, <5>2
      <4> DEFINE k == Age - Len(mono) + i - 1
      <4>3. k \in Int /\ k < t
        BY <1>3, <2>12, <4>1, <4>2
      <4>4. t <= FadeStart /\ t <= CounterLife
        BY <1>3, <1>8, <2>2, <2>3
      <4> HIDE DEF k
      <4>5. Cell(k, CounterLife, FadeStart, given.attack)
               = Cell(k, CounterLife', FadeStart', given.attack)
        <5>1. k \in 0 .. CounterLife - 1 <=> k \in 0 .. CounterLife' - 1
          <6>1. \A life \in Nat : t <= life => (k \in 0 .. life - 1 <=> k >= 0)
            BY <1>3, <4>3
          <6> QED
            BY <1>8, <2>7, <4>4, <6>1
        <5>2. k < FadeStart /\ k < FadeStart'
          BY <1>3, <1>8, <2>5, <4>3, <4>4
        <5> QED
          BY <5>1, <5>2, Zenon DEF Cell
      <4> QED
        BY <4>5 DEF k
    <3>4. \A i \in DOMAIN mono :
             mono[i] = Cell(Age - Len(mono) + i - 1, CounterLife', FadeStart', given.attack)
      BY <3>1, <3>3, Zenon DEF CellsInPlace
    <3>5. \A i \in DOMAIN mono' :
             mono'[i] = Cell(Age' - Len(mono') + i - 1, CounterLife', FadeStart',
                             given'.attack)
      BY <1>2, <1>6, <3>4, Zenon
    <3> QED
      BY <3>5, Zenon DEF CellsInPlace
  <2>15. CounterLifeInPlace'
    BY <2>14, InPlace, PTL
  <2> QED
    BY <1>4, <2>11, <2>13, <2>15 DEF LifeInv
<1>10. CASE grain.phase = "FadeOut"
  <2>1. grain' = grain
    BY <1>2, <1>10 DEF TriggerFadeOut
  <2>2. Killed' <=> Killed
    <3>1. CASE kills = <<>>
      <4>1. NaturalEnd < t
        BY <1>1, <1>10, <3>1 DEF GrainOK, t
      <4>2. kills'[1].t = t
        BY <1>7, <3>1
      <4> QED
        BY <1>3, <1>6, <1>8, <3>1, <4>1, <4>2 DEF Killed
    <3>2. CASE kills # <<>>
      BY <1>6, <1>7, <3>2 DEF Killed
    <3> QED
      BY <3>1, <3>2
  <2>3. Killed => kills'[1] = kills[1]
    BY <1>7 DEF Killed
  <2>4. FadeStart' = FadeStart /\ FadeLen' = FadeLen
    BY <1>2, <1>6, <2>2, <2>3 DEF FadeStart, FadeLen
  <2>5. CounterLife' = CounterLife
    BY <2>4 DEF CounterLife
  <2>6. PhaseOK(grain)'
    BY <1>1, <1>2, <1>6, <1>10, <2>1, <2>4, <2>5 DEF PhaseOK, EndOf
  <2>7. GrainOK'
    BY <1>1, <1>2, <1>7, <2>1, <2>6 DEF GrainOK
  <2>8. LivesCounterLife'
    BY <1>1, <1>2, <1>6, <2>1, <2>5 DEF LivesCounterLife
  <2>9. CellsInPlace'
    <3>1. CellsInPlace
      BY <1>1, InPlace
    <3> QED
      BY <1>2, <1>6, <2>4, <2>5, <3>1, Zenon DEF CellsInPlace
  <2>10. CounterLifeInPlace'
    BY <2>9, InPlace, PTL
  <2> QED
    BY <1>4, <2>7, <2>8, <2>10 DEF LifeInv
<1> QED
  BY <1>1, <1>2, <1>9, <1>10 DEF GrainStates, Phases

\* A step that leaves everything as it is keeps the invariant.
LEMMA IdleKeepsLife ==
    ASSUME LifeInv, UNCHANGED vars
    PROVE  LifeInv'
<1>1. /\ grain' = grain /\ start' = start /\ clock' = clock /\ mono' = mono
      /\ given' = given /\ kills' = kills
  BY DEF vars
<1>2. /\ GivenOK' /\ NaturalEnd' = NaturalEnd /\ FadeStart' = FadeStart
      /\ FadeLen' = FadeLen /\ CounterLife' = CounterLife
  BY <1>1, LifeUnchanged DEF LifeInv
<1>3. Age' = Age
  BY <1>1 DEF Age
<1>4. PhaseOK(grain)'
  BY <1>1, <1>2 DEF PhaseOK, EndOf, LifeInv, GrainOK
<1>5. GrainOK'
  BY <1>1, <1>2, <1>4 DEF GrainOK, LifeInv
<1>6. LivesCounterLife'
  BY <1>1, <1>2, <1>3 DEF LivesCounterLife, LifeInv
<1>7. CellsInPlace'
  <2>1. CellsInPlace
    BY InPlace DEF LifeInv
  <2> QED
    BY <1>1, <1>2, <1>3, <2>1, Zenon DEF CellsInPlace
<1>8. CounterLifeInPlace'
  BY <1>7, InPlace, PTL
<1> QED
  BY <1>2, <1>5, <1>6, <1>8 DEF LifeInv

\* The invariant holds throughout the life of every grain.
THEOREM LifeInvHolds == Spec => []LifeInv
<1>1. LifeInv /\ [Next]_vars => LifeInv'
  <2> SUFFICES ASSUME LifeInv, [Next]_vars PROVE LifeInv'
    OBVIOUS
  <2>1. ASSUME NEW n \in BlockSizes, RenderBlock(n) PROVE LifeInv'
    BY <2>1, BlockKeepsLife
  <2>2. ASSUME NEW fade \in Lengths, Kill(fade) PROVE LifeInv'
    BY <2>2, KillKeepsLife
  <2>3. CASE Over \/ UNCHANGED vars
    BY <2>3, IdleKeepsLife DEF Over
  <2> QED
    BY <2>1, <2>2, <2>3, Zenon DEF Next
<1> QED
  BY LifeInit, <1>1, PTL DEF Spec

\* No counter of a grain leaves its 32 bits, although a release build would wrap
\* it silently, and no fade begins after the sample being rendered: the
\* subtraction self.t - self.t_fo of process_fadeout never wraps.
THEOREM LifeTypes == Spec => []TypeOK
<1>1. LifeInv => TypeOK
  <2> SUFFICES ASSUME LifeInv PROVE TypeOK
    OBVIOUS
  <2>1. GivenOK /\ GrainOK /\ grain \in GrainStates /\ PhaseOK(grain)
    BY DEF LifeInv, GrainOK
  <2>2. grain.t \in Nat
    BY <2>1, GrainFields
  <2>3. grain.t_fo <= grain.t
    <3>1. CASE grain.phase \in {"Attack", "Decay"}
      BY <2>1, <2>2, <3>1 DEF PhaseOK
    <3>2. CASE grain.phase \in {"FadeOut", "Dead"}
      BY <2>1, <3>2 DEF PhaseOK
    <3> QED
      BY <2>1, <3>1, <3>2 DEF GrainStates, Phases
  <2> QED
    BY <2>1, <2>3 DEF TypeOK, GrainOK, GivenOK
<1> QED
  BY <1>1, LifeInvHolds, PTL

\* A life that fits the counters is the one they let the grain live, and no other
\* is shorter than up to its fade.
LEMMA CountersTell ==
    ASSUME GivenOK
    PROVE  /\ Fits => CounterLife = LifeLength
           /\ FadeStart \in Nat /\ FadeStart <= CounterLife /\ FadeStart <= LifeLength
           /\ CounterLife \in Nat /\ LifeLength \in Nat
<1>1. /\ FadeStart \in Nat /\ FadeLen \in Nat /\ U32Max \in Nat
  BY LifeFacts, WidthAssumption DEF U32
<1>2. CounterLife = IF FadeStart + FadeLen > U32Max THEN FadeStart
                                                    ELSE FadeStart + FadeLen
  BY DEF CounterLife
<1>3. LifeLength = FadeStart + FadeLen
  BY DEF LifeLength
<1>4. Fits => LifeLength <= U32Max
  BY DEF Fits
<1> HIDE DEF FadeStart, FadeLen, CounterLife, LifeLength, Fits
<1> QED
  BY <1>1, <1>2, <1>3, <1>4

\* A grain whose life fits the counters renders one sample per sample of the clock
\* until its life is over and is dead as soon as a block goes past that point:
\* however the audio server cuts time into blocks, wherever in a block a phase ends
\* and however many kills follow the first; any other grain does so as far as its
\* fade (fill_block, transition_phase, trigger_fade_out).
THEOREM LivesItsLife == Spec => []RendersItsLife
<1>1. LifeInv => RendersItsLife
  <2> SUFFICES ASSUME LifeInv, clock > 0, Fits \/ Age <= FadeStart
               PROVE  /\ grain.t = Least(Age, LifeLength)
                      /\ grain.phase = "Dead" <=> Age > LifeLength
    BY DEF RendersItsLife
  <2>1. /\ grain.t = Least(Age, CounterLife)
        /\ grain.phase = "Dead" <=> Age > CounterLife
    BY DEF LifeInv, LivesCounterLife
  <2>2. /\ Fits => CounterLife = LifeLength
        /\ FadeStart \in Nat /\ FadeStart <= CounterLife /\ FadeStart <= LifeLength
        /\ CounterLife \in Nat /\ LifeLength \in Nat
    BY CountersTell DEF LifeInv
  <2>3. CASE Fits
    BY <2>1, <2>2, <2>3, Zenon
  <2>4. CASE Age <= FadeStart
    <3>1. Age \in Int
      <4>1. clock \in Int /\ start \in Int
        BY WidthAssumption DEF LifeInv, GrainOK, U32
      <4> QED
        BY <4>1 DEF Age
    <3>2. Least(Age, CounterLife) = Age /\ Least(Age, LifeLength) = Age
      BY <2>2, <2>4, <3>1 DEF Least
    <3>3. ~(Age > CounterLife) /\ ~(Age > LifeLength)
      BY <2>2, <2>4, <3>1
    <3> QED
      BY <2>1, <3>2, <3>3, Zenon
  <2> QED
    BY <2>3, <2>4
<1> QED
  BY <1>1, LifeInvHolds, PTL

\* Every cell of a block's buffer holds the sample that belongs to that moment,
\* once, with the decay's running product at d^t, for every SIMD width and every
\* cut of the phases into runs, chunks and tails (process_attack, process_decay,
\* process_fadeout).
THEOREM SamplesAreInPlace == Spec => []SamplesInPlace
<1>1. LifeInv => SamplesInPlace
  <2> SUFFICES ASSUME LifeInv, NEW i \in DOMAIN mono, NEW k,
                      k = Age - Len(mono) + i - 1, Fits \/ k < FadeStart
               PROVE  mono[i] = IF k \in 0 .. LifeLength - 1 THEN <<SampleAt(k)>>
                                                             ELSE <<>>
    BY DEF SamplesInPlace
  <2>1. mono[i] = IF k \in 0 .. CounterLife - 1 THEN <<SampleAt(k)>> ELSE <<>>
    BY DEF LifeInv, CounterLifeInPlace
  <2>2. /\ Fits => CounterLife = LifeLength
        /\ FadeStart \in Nat /\ FadeStart <= CounterLife /\ FadeStart <= LifeLength
        /\ CounterLife \in Nat /\ LifeLength \in Nat
    BY CountersTell DEF LifeInv
  <2>3. k \in 0 .. CounterLife - 1 <=> k \in 0 .. LifeLength - 1
    <3>1. CASE Fits
      BY <2>2, <3>1, Zenon
    <3>2. CASE k < FadeStart
      <4>1. k \in Int
        <5>1. clock \in Int /\ start \in Int /\ mono \in Seq(Seq(Samples))
          BY WidthAssumption DEF LifeInv, GrainOK, U32, Buffers
        <5>2. Len(mono) \in Nat /\ i \in Int
          BY <5>1
        <5>3. Age \in Int
          BY <5>1 DEF Age
        <5> QED
          BY <5>2, <5>3
      <4> QED
        BY <2>2, <3>2, <4>1
    <3> QED
      BY <3>1, <3>2
  <2> QED
    BY <2>1, <2>3, Zenon
<1> QED
  BY <1>1, LifeInvHolds, PTL

=============================================================================
