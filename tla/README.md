# A formal model of rfofs

rfofs synthesises sound from FOF grains. A client process schedules grains (and
kills them) through shared memory; a JACK server process renders them in an
audio callback that may neither block nor allocate; an offline renderer drives
the same engine into a file. This directory holds TLA+ models of the parts
whose correctness depends on ordering, concurrency, failure or arithmetic at
boundaries, the TLC configurations that check them, and proofs.

Source paths below are relative to the repository (`src/queue.rs`); PROJECT.json
maps every definition to its lines.

## 1. Inventory

| Component | State | Operations | Meets |
|---|---|---|---|
| FOF scheduler, `src/queue.rs` | ingress ring (rtrb), `Wheel` {slots, slot_index}, `QueueStats` | `push`; `drain_block_safe` = admit (`schedule`) then `advance` | pushed by the bridging thread, drained by the audio callback |
| Kill queue, `src/queue.rs` | ring of requests | `push`, `drain_all` | same two threads |
| Shared-memory rings, `src/shm.rs` | `Ring` {head, tail, slots}, one for FOFs, one for kills | `try_push`, `try_pop` | client process pushes, bridging thread pops |
| Control segment, `src/shm.rs` | POSIX segment under one name, header, `ready` | `ServerShm::create`, `ClientShm::attach`, drop | any number of servers and clients, any of which may die |
| Grain, `src/fof.rs` | `FofState` {phase, t, t_fo, attack_end, decay_end, fadeout_end} | `spawn`, `fill_block`, `transition_phase`, `trigger_fade_out` | called by the engine |
| Engine, `src/engine.rs` | slab `active`, `id_map`, `incoming`, `kill_requests`, `sample_clock` | `process_block`, `set_sample_clock` | runs on the audio thread, or in the offline renderer |
| Offline renderer, `src/offline.rs` | engine, producer, `last_start_sample` | `open`, `add_fof`, `close` | owns both ends of the queues |
| Server, `src/main.rs` | the composition; the request in the bridging thread's hand | process callback, bridge loop | JACK, clients |
| Clock, `src/clock.rs`, `clock_mode` in the segment | the mode in force | `set_clock_mode`, reading frame time or transport position | clients switch it live |
| Client library, `rfofs-client/src/lib.rs` | a handle | the C functions | wraps attach and the rings |
| Pan laws, `src/pan.rs` | none | `channel_count`, `pan_gains` | the engine's mix |
| Sample synthesis, `process_*` in `src/fof.rs`, `src/fastsin.rs` | the running decay product `decay_acc` | SIMD chunks and tail of a run | `fill_block` |
| `jack_probe`, `src/bin/jack_probe.rs` | ring of samples, chunk, `shutdown` | callback, writer thread, end of a recording | JACK; a measuring tool beside the server |
| command line, benches, examples, build script | | | start-up and development |

What interacts, from the client to the sound: a client thread pushes into a
shared ring; the bridging thread pops it and pushes into an in-process ring; the
audio callback first drains that ring into the wheel and fires the wheel's
elapsed slots, then drains the kill queue, spawns, kills, renders, removes. The
two drains of a block are not atomic with respect to the bridging thread. The
clock that drives all this comes from outside and may skip, jump or be set back.

What is hard here:

* **Concurrency**: the producer pushes while a drain is half-way; two processes
  share rings with nothing but acquire/release counters; servers race to create
  a segment; clients attach to a segment under construction.
* **Failure**: clients die in a push, servers at any step; nothing is cleaned up.
* **Time**: the wheel's clock is monotonic, the source's is not; blocks are not
  slot-aligned; a deadline may pass while a grain waits.
* **Boundaries**: circular arrays and wrapping counters, phases that end at a
  block's edge, slots and queues at capacity, `u32::MAX` as "never", runs that are
  no multiple of the SIMD width.
* **Reuse**: slab keys, ids and the two scratch buffers of the mix serve one grain
  after the other.

PROJECT.json, "hazards", lists each at its line with the properties that watch it.

What makes each component correct:

* scheduler: every accepted grain is in exactly one place; never fired early, in
  slot order, in the right rotation; a grain submitted in time is not dropped;
  the statistics add up; every grain is resolved.
* rings: a bounded FIFO without data races, whatever crashes and wraps.
* segment: one server per segment, no half-initialised header, attach gets an answer,
  and requests are taken as long as their server lives.
* grain: exactly one sample per clock tick from start to end of life, in its place
  and with the envelope of its own time, however the blocks fall; one fade; and without
  a natural fade, no end.
* engine: the id map leads only to the right grains, kills land, no sample meets
  another grain's gain, the pool empties.
* pan laws: a grain is written to channels the mode has, dry signal and reverb apart.
* server: requests stay in order through all threads, enough headroom is enough, a
  kill sent after the onset counts.
* probe: samples stay on their channels, and a stopped recording accounts for every
  sample.
* offline renderer: nothing dropped as overdue, everything rendered, close ends.

## 2. Modules

| Module | Models | Correspondence |
|---|---|---|
| `TimeWheel` | `queue.rs` scheduler | `Push` = `TimeWheelProducer::push`; `BeginDrain`, `Admit`, `StopAdmitting`, `FireSlot`, `FinishDrain` are the stretches of `drain_block_safe` between which the producer may act: entry, one turn of the admission loop, its end, one turn of the loop in `advance`, its end with the statistics |
| `Calendar` | what the scheduler promises | grains due in absolute slots; time passes and exactly the due ones fire. `TimeWheel` implements it (`ImplementsCalendar`) |
| `MCTimeWheel` | the wheel on a clock that is steady, or not | adds which of the two it is, as a variable fixed at the start |
| `SpscRing` | `Ring` in `shm.rs` | one action per load and store of `try_push` and `try_pop`; `PushCrash` is a client that dies inside |
| `BoundedFifo` | what a ring promises | implemented by `SpscRing` (`ImplementsFifo`) |
| `FofGrain` | `FofState` | operators only: `Spawn`, `FillBlock`, `TransitionPhase`, `TriggerFadeOut`; `RunSamples`, `AddedAt` are what `process_*` write into the block's buffer, `RunningDecay` the exponent of `decay_acc` over SIMD chunks and tail |
| `GrainLife` | one grain in its blocks | `RenderBlock`, `Kill` |
| `PanLayout` | `pan.rs` | operators only: `ChannelCount`, and `PanChannels`, the channels `pan_gains` writes |
| `Engine` | `process_block`, kill queue, bridge's pushes | `DrainWheels`, `DrainKills`, then one turn at a time of the spawn loop, the kill loop and the mixing loop (`BeginFill`, `FillOne`), `RemoveDead`; `PushFof`, `PushKill` interleave wherever the bridging thread can be told apart |
| `ControlSegment` | `create`, `attach`, and the requests sent through the segment | one action per system call and per store another process can see; `Submit` and `Serve` use the rings of the segment each has mapped |
| `Server` | the chain in `main.rs`: client, shared rings, bridging thread, scheduler and kill queue, callback, clock | EXTENDS `TimeWheel`; `AddFof` = `rfofs_add_fof`, `Kill` = `rfofs_kill`, `SetClockMode` = `rfofs_set_clock_mode`; `BridgePop`, `BridgePush`, `BridgePopKill`, `BridgePushKill`, `BridgePassOver` are the bridge's loop, `Callback`, `DrainStep`, `Publish` the process callback around `drain_block_safe` |
| `JackProbe` | `jack_probe.rs` | one action per sample pushed or popped and per look at `shutdown`; `Deactivate`, `StoreShutdown`, `Join` are the main thread |
| `OfflineRenderer` | `offline.rs` | EXTENDS `TimeWheel` and calls its actions in turn: composition, not a copy |
| `TimeWheelProofs`, `RingProofs`, `ControlSegmentProofs`, `GrainProofs`, `GrainLifeProofs`, `EngineProofs`, `ServerProofs`, `OfflineProofs` | proofs | section 5 |
| `MCSpscRing`, `MCEngine`, `MCControlSegment` | TLC instances | values of set-valued constants |

`Engine` does not contain the wheel but takes from it what a drain guarantees: it
hands over grains whose start lies before the end of the block, slot by slot and in
push order, may refuse any, and leaves one whose slot has elapsed only in the ring,
behind one that lay beyond the horizon of where the last block ended (`MayLeave`,
`FiresBefore`, `MustLeave`, `HeldUp`). That keeps both models small and is the
assume/guarantee boundary between them; that the wheel keeps its side, `DrainContract`,
is proved (section 5). Likewise `Server` stops where the engine takes a grain or a
kill: what a kill does to a grain that sounds is `Engine`'s part.

Operators marked *faulty* next to a definition are variants with a plausible
mistake; each property is checked to fail on one of them (PROJECT.json,
"mutants"), which shows that the property says something about the code.

### Abstractions

* A grain is a number (its position in the order of acceptance), its data the
  fields a property depends on. Lengths that the code computes in floating point
  and rounds up (attack, decay, fade, in samples) are inputs.
* u64 clocks and statistics do not overflow in a process's lifetime and are
  naturals; the u32 counters of a grain wrap (`U32Max`), the ring's counters wrap
  (`Wrap`, standing for 2^64).
* A sample is its phase, its grain's time and what its envelope is computed from: the
  exponent of the decay in Attack and Decay, the time since the fade began in FadeOut.
  A gain is the grain it was computed for. Buffers hold what was added to them since
  they were zeroed, so a buffer that is not zeroed, a sample in the wrong place and a
  product of two grains can be told apart; values cannot.
* An acquire load may return any value the counter has had since this thread last
  looked (`Loadable`). The Rust memory model promises no more; fairness says
  that a thread that keeps loading sees the newest value in the end.
* The audio server: a callback is called with some block size and some clock.
  `Drifts` says how far block_start is from where the previous block ended:
  {0} is the offline renderer's own clock; {-3, 0, 9} a transport that is
  relocated, also more than a rotation ahead. `Server` has the clock itself: a
  frame counter modulo `FrameWrap`, a transport that is anywhere in `Positions`
  when asked, or cannot be asked.
* `Server` takes the shared ring to be the bounded FIFO that `SpscRing` is shown to
  implement. A FOF's `start_sample` is any of a set: what a client computes it
  from is its own affair, and properties speak of it relative to the clock.
* In `Engine`, `Worlds` lists what the client and the clock may be like: does the
  client give every living grain an id of its own, and what is `Drifts`. A
  property that needs one or the other says so in its premise.
* `ControlSegment` counts the requests in a segment; the rings' insides are
  `SpscRing`'s. `Serve` stands for the bridging thread and what is behind it.
* The in-process rings (crate `rtrb`) of the scheduler, the kill queue and the probe
  are bounded sequences whose operations are atomic.
* Kernel: a name leads to a segment or nothing, unlinking leaves mappings alone, a
  new segment has no pages until ftruncate, touching such a mapping is SIGBUS.
* In `Engine`, Slab's choice of a vacant key is the lowest one: keys matter only by
  being equal or not. All fades have one length and attacks are empty; `GrainLife`
  covers the other lengths.

## 3. Runs

Passing runs:

| Run | Instance | Shows |
|---|---|---|
| TimeWheel_clocks | 2 slots of 2 samples, capacity 2, 3 grains in any order, blocks of 1 and 3, and either a free-running clock or one that is set back, runs or jumps | what needs no assumption on clock or client: `TypeOK`, `WheelPlacement`, `NeverEarly`, `DrainOrder`, `ExactlyOnce`, `StatsBalance`, `TooEarlyUnreachable`, `FiringNeverGoesBack`, `ImplementsCalendar`; and what a steady clock adds: `SteadyOnset`, `SteadyDeferredNotDropped`, `SteadyGrainsResolved` |
| SpscRing_onethread | capacity 3, counters modulo 6, 8 items, a crash at any step | `TypeOK`, `NoSlotRace`, `NothingLost`, `ImplementsFifo`, `RetrySucceeds` |
| Server_live | 3 requests of which up to 2 are kills, every ring of capacity 1, mode switched at will between a frame clock that jitters and a transport that stands ahead of it | `ChainInOrder`, `HeadroomSufficesOnSmoothClock`, `KillAfterOnsetCounts`, `StallEnds` |
| GrainLife_life | lengths 0, 2, 3; fade level at 0, 1, 4 or never; blocks of 1, 2, 5 in SIMD chunks of 2; two kills; counters that end at 7 (the lives that fit them, and the others as far as their fade) | `TypeOK`, `RendersItsLife`, `SamplesInPlace` |
| Engine_block | 3 grains, one of them at a distance, one id besides 0, a kill, first-order panning with a reverb bus; a careful client on a skipping clock, a careless one on a clock that runs or is set back | `TypeOK`, `KillsLand`, `StartsWithinBlock`, `IdMapSound`, `HeardOnItsChannels`, `PoolDrains` |
| ControlSegment_servers | 2 servers, a client, 3 segments with room for a request each, everybody may die | `TypeOK`, `AttachedIsInitialised`, `OneServerPerSegment`, `AttachReturns`, `RequestsAreTaken` |
| OfflineRenderer_aligned | blocks of two slots, 3 grains that live for 0, 7 or 14 samples or for ever, a time limit of 3 blocks | `CloseRendersEverything`, `NothingTooLate`, `CloseEnds` |
| JackProbe_record | 3 channels, a ring of 2 frames, chunks of 2 frames, 9 frames in blocks of 1 or 3 | `ChannelsInStep`, `StopYieldsRecording` |

Runs that show a disagreement between code and documentation (PROJECT.json,
"findings", quotes both):

| Run | Property | What happens |
|---|---|---|
| Server_wrap | HeadroomSuffices | when the 32-bit frame counter wraps, after about a day, every FOF is refused as too late until it has been round again |
| GrainLife_never | NeverFadesNaturally | a grain with no natural fade is dead once its sample counter reaches u32::MAX |
| ControlSegment_race | RaceWithCreateIsHarmless | attach between shm_open and ftruncate is SIGBUS |
| OfflineRenderer_close | CloseRendersEverything | close leaves grains in the wheel when the block size is not a multiple of 256 |

Other places where code and documentation part, met while modelling, which the
models show when asked but for which no run is kept:

* `fof.rs:15` "Sub-block accurate": a slot fires when it has wholly elapsed, so an
  onset is off by less than a slot unless blocks are slots (`SteadyOnset` states
  what is true; `TargetIndex`).
* `shm.rs:188` "Switching to a *larger*-valued source is always safe": a clock that
  jumps more than a rotation ahead passes over grains that wait in the ring beyond
  the horizon, and they are refused as late (`DeferredNotDropped` with such `Drifts`).
* `rfofs-client/src/lib.rs:7` "All functions are safe to call from any thread": two
  threads that push at the same time load the same tail, write the same cell and both
  return Ok, so an accepted item is lost; `shm.rs:59-63` demands a single producer
  (`NothingLost` with `Producers <- TwoThreads`).
* `fof.rs:7` ids: two living grains with one id share one map entry, and whichever
  dies first removes it, so a kill for the other is ignored (`KillsLand` without
  its premise `UniqueIds`).
* `fof.rs:406` asserts `start_offset < block_size`: false after the clock is set back
  (`StartsWithinBlock` without `Forward`); in a release build the grain waits silently.
* `shm.rs:8-9` "allocation-free": 256 queued kills may meet a vector reserved for 64.
* `rfofs-client/src/lib.rs:50` null "if no running `rfofs` was found", `shm.rs:378-379`
  on `ENOENT`: a segment outlives its server, and a second server hides a running one.
* `jack_probe.rs:225-226` "so the writer sees a final, unmoving ring buffer rather than
  racing new pushes": a writer that finds the ring empty, and is held up while a last
  block is pushed, the callback is stopped and `shutdown` is stored, then looks at
  `shutdown` and ends with that block, or the rest of a frame of it, in the ring.
  `StopYieldsRecording` states what is true: such samples are left in the ring, and none
  are once the writer has found it empty after the callback was stopped (`Accounted`;
  `ring = <<>>` at the end is false).
* `rfofs-client/examples/shm_client_smoke.rs` sends a FOF 0.2 s ahead and at once its
  kill: the kill finds no grain yet and is ignored. What a client may rely on is
  `KillAfterOnsetCounts`.
* `rfofs-client/README.md` describes `RfofsStats` as four `uint64_t`; the struct also
  holds the histogram.

### Bounds

Each bound is a constant: `MaxGrains`, `MaxStart`, `MaxClock`, `MaxItems`,
`MaxKills`, `MaxRequests`, `MaxSegments`, `MaxFrames` (of `JackProbe`), and in
`OfflineRenderer` `MaxExtra` (which is the code's own limit; `Forever` stands for a life
no run of the program sees the end of). Once the clock has reached `MaxClock` the callback is only
called while there is work left, so every behaviour runs dry instead of being cut;
`AtBound` and `Over` are the stuttering that then remains, so that TLC's deadlock
check stays on in every run.

`MaxFrame` keeps the frame counter where it is while the transport drives the clock.

They are large enough for the interesting cases: with two slots of two samples
and starts up to 4 the wheel goes round more than once, a jump of 9 is more than a
rotation, three grains fill a slot of capacity two and the ring; eight items
through a ring of three cells wrap counters modulo 6; three grains with one id and
three keys reuse a key while two grains share the id; a skip of 2 takes the engine's clock
past the horizon of a wheel of one slot; three segments let each
server take over from the other; with rings of one, the third request is in the
shared ring while the bridge holds the second and the first fills the scheduler's
ring; a transport at 3 takes the wheel round once in a single block and leaves a
frame counter that starts at 0 behind it, so a switch stalls the scheduler; blocks
of 1, 2 and 5 in chunks of 2 give runs with a tail, without one and without a chunk;
frames of three channels in a ring of six samples leave room for part of a frame; a life
of 14 samples outlasts three extra blocks of 4, and one without end any number of them.

`SteadyGrainsResolved`, `PoolDrains` and `StallEnds` say that *again and again* all
grains are resolved. As only so many are ever submitted and a resolved one stays
so, that is the same as each being resolved in the end, and cheaper to check.
The mutants confirm that the cases occur: each property fails within the same
bounds once the code is changed.

### Fairness

* `WF(Drain)`, `WF(ProcessBlock)`: JACK calls the process callback for ever, and a
  callback runs to its end (`MCSpec` has the first). Nothing is assumed of
  producers: they may stop.
* SpscRing: the bridging thread is an endless loop (`main.rs`), so `WF(Pop)`;
  `rfofs_add_fof` documents "retry later", so `WF(Push)` for a client that still
  has items. Strong fairness of the load that returns the newest value is
  visibility in finite time.
* Server: the bridge's loop and the callback (`WF(Bridge)`, `WF(Audio)`); nothing of
  clients, and `StallEnds` has a premise: from some time on the mode stays frame_time.
* ControlSegment: weak fairness of a call of attach that has begun and of the bridging
  thread of a server that has started (`WF(Serve)`, while it lives); none of a
  server that is starting, and any of them may exit at any time.
* JackProbe: the writer's loop, and the main thread once it is to stop; nothing makes
  JACK call or the user stop.
* OfflineRenderer: the thread runs (`WF(Run)`); its caller may stop adding.

Fairness is over actions that are enabled by the code's own loops; no property
relies on a client behaving well except `RetrySucceeds`.

## 4. Properties worth knowing

* `ImplementsCalendar` is the scheduler's specification in one line: a circular
  array reused for ever, drained block by block, is the same as a set of grains
  each due in a slot of absolute time.
* `SteadyOnset` is the scheduler's exact accuracy: the block in which the
  slot ends, never another, however a grain waited and whatever the block sizes.
* `HeadroomSufficesOnSmoothClock` against `HeadroomSuffices`: what a client is told to
  rely on, and the wrap that breaks it; the clock is what breaks it, not the queue.
* `ChainInOrder` accounts for every request a client was told Ok for, through two
  rings and three threads, FOFs and kills alike; the bridge's drops are the only leak.
* `KillAfterOnsetCounts` says from when on a client can rely on a kill: it reads the
  published clock and waits for the end of the FOF's slot. Three threads, two
  chains of rings and the clock the client reads are involved; publishing that
  clock one block early breaks it.
* `HeardOnItsChannels` relates every product in the output to one grain and to the
  channels it is panned to, although one buffer of samples and one of gains serve
  all grains in turn.
* `SamplesInPlace` compares what chunks, tails, runs and blocks write, and the
  exponent the decay product has arrived at, with a closed form in the sample's own time.
* `RequestsAreTaken` is about whom a client talks to: through takeovers of the name and
  creates that stop half-way, what it attached to is served by that segment's own
  server, or by nobody any more.
* `StopYieldsRecording` is the probe's shutdown handshake: down to the last partly filled
  chunk, where every sample is when it is over, and which ones the handshake may miss.
* `AttachReturns` names the answers attach may give in each situation; the one situation in
  which it gives none, a segment without pages, is `RaceWithCreateIsHarmless`.
* `CloseEnds` has grains that outlast the time limit and grains that never die: without the
  limit it fails.
* `StallEnds`: after any history of switches and relocations, leaving the clock on
  frame_time is enough for everything to be resolved.
* `KillsLand` relates the kill queue, the spawn of the same block, slab keys and
  ids; it holds for a client that uses an id for one living grain at a time, even
  when the kill arrives between the two drains of the block of the onset.
* `NothingLost` speaks of every item whose push returned Ok, across crashes: the
  crash leaves a written cell that was never published and the next push reuses it.
* `RendersItsLife` compares `fill_block`'s loop with the closed form: how blocks cut
  time does not matter. It is about lives that fit the 32-bit counters; what becomes of a
  grain without a natural fade at their end is `NeverFadesNaturally`, which is false.

## 5. Proofs

A run shows a property on one small instance; the theorems below, checked by
TLAPS, state it for every value of the constants that satisfies the modules'
ASSUMEs (positive capacities, lengths and block sizes, bounds that are numbers).
Every safety invariant and every action property of the passing runs is proved, and
so are both refinements; only liveness is left to TLC. Each proof module EXTENDS the
modules it is about:

| Module | About | Theorems, and the property of the runs each one states |
|---|---|---|
| `TimeWheelProofs` | `TimeWheel`, `MCTimeWheel` | `TypeCorrect` (`TypeOK`), `PlacementCorrect` (`WheelPlacement`), `NeverHeardEarly` (`NeverEarly`), `TooEarlyNeverCounted` (`TooEarlyUnreachable`), `FiringOrder` (`FiringNeverGoesBack`), `DrainsInOrder` (`DrainOrder`), `GrainsAccounted` (`ExactlyOnce`), `StatsAddUp` (`StatsBalance`), `WheelImplementsCalendar` (`ImplementsCalendar`), `SchedulerAnywhere` (all of these, and `DrainContract`, of `WheelSpec`), `OnsetOnSteadyClock` (`SteadyOnset`), `DeferralNeverDrops` (`SteadyDeferredNotDropped`) |
| `RingProofs` | `SpscRing` | `RingTypes` (`TypeOK`), `RingNoSlotRace` (`NoSlotRace`), `RingNothingLost` (`NothingLost`), `RingImplementsFifo` (`ImplementsFifo`) |
| `RingProofs` | `JackProbe` | `ChannelsStayInStep` (`ChannelsInStep`), `StoppedRecordingIsAccounted` (the safety half of `StopYieldsRecording`) |
| `ControlSegmentProofs` | `ControlSegment` | `SegmentTypes` (`TypeOK`), `SegmentOneServer` (`OneServerPerSegment`), `SegmentAttachedIsInitialised` (`AttachedIsInitialised`) |
| `GrainProofs` | `PanLayout`, and the types of `FofGrain`'s operators | `PansWithinItsChannels`, `DryAndReverbApart`, `NoChannelCutOff` |
| `GrainLifeProofs` | `GrainLife` | `LifeTypes` (`TypeOK`), `LivesItsLife` (`RendersItsLife`), `SamplesAreInPlace` (`SamplesInPlace`) |
| `EngineProofs` | `Engine` | `EngineTypes` (`TypeOK`), `IdMapLeadsToItsGrain` (`IdMapSound`), `StartsWithinItsBlock` (`StartsWithinBlock`), `KillsAreNotLost` (`KillsLand`), `MixIsSound` (`HeardOnItsChannels`) |
| `ServerProofs` | `Server` | `ChainStaysInOrder` (`ChainInOrder`), `TardyKillsCount` (`KillAfterOnsetCounts`), `HeadroomOnSmoothClock` (`HeadroomSufficesOnSmoothClock`), `ServerKeepsScheduler` (`SchedulerPromises` in the server) |
| `OfflineProofs` | `OfflineRenderer` | `OfflineDropsNothingLate` (`NothingTooLate`), `CloseRendersAll` (`CloseRendersEverything`), `OfflineKeepsScheduler` (`SchedulerPromises` in the renderer) |

Each argument has the same shape: an inductive invariant, a lemma that every action
keeps it, a lemma that it implies the property. The invariants were checked by TLC on
the instances of the runs before they were proved; what follows says what
they add to the property, which is seldom inductive as it stands.

### Hypotheses

Some theorems have a hypothesis besides the ASSUMEs. Each is met by an instance of a
passing run and none is idle:

| Hypothesis | Theorems | Why the code meets it, or that it is a condition |
|---|---|---|
| `SingleProducer`: one thread pushes | the four about `SpscRing` | `shm.rs:59-63` demands it; without it TLC finds `NothingLost` violated (section 3) |
| every block is no longer than `Horizon` | `DeferralNeverDrops`, `OfflineDropsNothingLate`, `CloseRendersAll` (`BlockWithinHorizon`) | the server gives the wheel `n_slots` slots, 256 by default, of one block each (`main.rs:138`); `OfflineRenderer::open` gives it 256 slots of 256 samples and leaves the block size to its caller, so offline this is a condition on the caller: with blocks longer than the horizon TLC finds both offline properties violated |
| a block and its jitter are no longer than `Horizon` | `HeadroomOnSmoothClock` | as above; a jump of more than a rotation is not a jitter |
| `BlockOfWholeSlots`: the block size is a multiple of the slot's | `CloseRendersAll` | a condition on the caller; without it the property is false (run `OfflineRenderer_close`) |

Properties with a premise (`KillsLand` for clients that satisfy `UniqueIds`,
`StartsWithinBlock` on a clock that is `Forward`, and those of a `steady` clock)
carry it into their theorems.

### The scheduler

`TypeOK` is inductive on its own, given that `schedule` puts a grain only where there
is room (`SchedulePlaces`). `WheelPlacement` is not: that the read head passes only
empty slots needs to know how far the firing loop has come. `WheelInv` adds

* `PhaseOK`: the loop's counter is 0 outside the loop and at most `Steps` inside,
  and `admitBefore` is still the wheel's own limit while grains are admitted;
* `FiredBehind`: what has fired lies in slots that have elapsed.

Then `Schedule` puts a grain into the entry of its own slot, less than a rotation
ahead (`DivShift`); `FireSlot` empties an entry that holds exactly one slot's
grains, because two slots less than `NSlots` apart never share an entry
(`ModDistinct`, used in `FiringEntry`), and that slot ends by the block's end;
`FinishDrain` moves the head over slots that were all visited or, after a full
rotation, over an empty array.

`LedgerInv` adds where every grain is: the ring holds the newest grains in push order
(`RingIsSuffix`), every slot is in push order (`SlotsInPushOrder`), and a grain that
left the ring is in the array, fired or refused, for good and nowhere else. `ExactlyOnce` and
`DrainOrder` follow, and the refinement of `Calendar`: an entry of the array is
the set of calendar entries due in one slot (`EntryIsDue`), so the array's test for a
full slot is the calendar's, and a step maps to a submission, an entry, a refusal, a slot
elapsing or a stutter (`StepImplementsCalendar`).

`StatsBalance` needs sums over a function of any size: that `FoldFunction` adds up is
itself proved, from an induction over subsets (`AllSubsets`) that takes a set in place
of the predicate the library's theorems take, and from there that one more in a bucket
is one more in the sum (`SumOfOneMore`). `BalanceInv` then is: what left the ring is
admitted or refused, and what was admitted is in the array or has fired.

On a steady clock, `InReach` (the read head is where the clock is) and `RingAhead`
(what waits in the ring is ahead of it, or excused) give `SteadyDeferredNotDropped`;
`OnTime` gives `SteadyOnset`.

All of this but the two for a steady clock is proved of `WheelSpec`: the scheduler whatever is pushed and
wherever a block begins, without the bounds of `Spec`. `SchedulerPromises` gathers what it
promises, the invariants, the refinement and `DrainContract`, and
`SchedulerAnywhere` proves it. `DrainContract` adds `HeadAtClock` (between drains the
read head has reached the end of the block): so the admission window reaches a rotation
beyond that end, and what the wheel still holds lies in slots to come. A system that uses
the scheduler by `push` and `drain_block_safe` alone then has only to show that its
steps are `WheelStep`s, which server and renderer do (`ServerKeepsScheduler`,
`OfflineKeepsScheduler`); nothing about the scheduler is proved twice.

### Server and offline renderer

`ServerInv` is `LedgerInv`, the types of the rings, `ChainInOrder` for FOFs and kills
apart, and that the scheduler's n-th grain is the n-th FOF forwarded. For
`KillAfterOnsetCounts`, `TardyBehind` ties the clock a client reads to the read head: it
is never ahead, so a FOF whose slot it has passed is behind the read head, where
nothing fires any more. For the headroom, `SmoothAhead` says that as long as the
clock is smooth the scheduler is `InReach`.

`OnTimeInv` is `InReach` and `RingAhead` with where the renderer's loops stand: while
grains may be added, the clock is not past the last one. `Covered` adds that blocks end
where slots do and that from the last block of `close` on the clock is past the last
grain and the ring empty; `CutAtLimit` that only the time limit cuts a grain off.

### Ring and segment

The ring's order is circular: `CountersInOrder` says that going round from what the
producer last saw of head one meets head, what the consumer last saw of tail, and
tail, within one capacity. With what either side knows in the middle of its call
(`ProducerLocals`, `ConsumerLocals`) and `NothingLost`, it is inductive. That
cells and counters agree across the wrap rests on the capacity dividing it
(`RingAssumption`; the code has 2^64 and powers of two).

`SegmentInv` adds who has which segment open, and that `ready` is stored last, by the
server whose header is complete.

### The probe

The writer knows a sample's channel only from how many samples it has popped, so what
must be invariant is arithmetic. `ProbeInv` has three parts besides the types:
`StreamPart` (samples popped and samples in the ring make up the stream of the frames
pushed, sample k at its place: `PlaceOfSample`, `SampleOfFrame`), `CallbackPart` (inside a
frame the rest of it has room, since the writer only makes more: the one check of
`slots` per frame is enough) and `CountedPart` (sample k has been counted on the
channel of k). `StopPart` adds that the callback is at its end before the main thread
stores `shutdown`, so that a ring found empty then stays empty, and that every
frame the clock has passed is recorded or dropped; with it, file and ring at the end are
the whole stream (`PushedStream`).

### Grain and engine

`RunningDecayExact` shows that chunks and tail leave no trace in the decay's exponent;
`TurnExact` that one turn of `fill_block`'s loop keeps `RunOK` (every cell passed is
filled with the sample of its own time); `BlockExact` puts the three turns together.
`LifeInv` then is the grain's type, the two properties and, for a second kill, that
a natural fade has shown in the samples. As the properties leave out the lives that do
not fit the counters, and the invariant may not, it speaks of the life the counters make
of every grain, wrap included (`CounterLife`); where a life fits, that is the life
the grain was given (`CountersTell`).

`EngineInv` keeps the engine's books: no grain is in two places, no grain under two keys,
and pool, grain states and id map agree. On it rest `WindowInv` (handed over, a grain
starts before the block's end), `KillInv` (a doomed grain is fading, or the kill that
names it is queued) and `MixInv` (in the rendering loop, only grains still to come
can be missing from an output).

`PansWithinItsChannels`, `DryAndReverbApart` and `NoChannelCutOff` hold for every panning
mode the command line admits and every order (TLC's instance has one mode). They rest on
`DirectPartIsLargeEnough` (2n + 1 and (n + 1)^2 reach three and four channels from order
1 on) and on `ReverbSendWithinBus` (the bus begins where `split_at_mut` puts it).

### Only model-checked

* Liveness: `SteadyGrainsResolved`, `RetrySucceeds`, `StallEnds`, `PoolDrains`,
  `AttachReturns`, `RequestsAreTaken`, `CloseEnds`, and of `StopYieldsRecording` that a
  stopped recording ends. Fairness and ENABLED are out of the prover's reach.
* That `Server`'s bounded sequences stand for `SpscRing`, and `Engine`'s `DrainWheels` for
  a drain of `TimeWheel`, is composition by contract (section 2): the contracts are
  theorems (`RingImplementsFifo`; `DrainContract` in `SchedulerAnywhere`), putting them
  together in one specification is not.

## 6. Not modelled

* Values: envelopes, glissando, the sine polynomial and table, pan gains. They are
  floating-point and real-valued; their accuracy is a matter for the repository's own
  tests. What is modelled of them is structure: which sample goes where, with which
  exponent, to which channel.
* The sound file and the JACK ports: write-only I/O. Of the probe, the choice of ports
  and the levels it prints.
* Failing `ftruncate` and `mmap`: both return an error at once. Allocation in the
  callback.
* The client's getters: they change nothing. `rfofs_get_stats` reads counter by
  counter, and nothing promises that the snapshot adds up.
* Command line, benches, examples, build script.
* The end of the server process while requests are under way, beyond what
  `ControlSegment` says of it.

## 7. Plan

Done: sections 2 to 5. What is left:

1. Several wheels per engine, which `RfofsEngine::new` allows and no caller uses.
2. One specification of client, rings, scheduler and engine in place of the contracts
   of section 2, with the contracts' theorems put together.
