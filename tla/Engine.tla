------------------------------- MODULE Engine -------------------------------
(***************************************************************************)
(* RfofsEngine::process_block (src/src/engine.rs): the pool of active      *)
(* grains, the map from ids to pool keys, and the kill queue, on the audio *)
(* thread; and the bridging thread that pushes into the queues at any      *)
(* moment, also between two drains of the same block.                      *)
(*                                                                         *)
(* The timing wheel is represented by what TimeWheel shows of it: a drain  *)
(* hands over grains whose start_sample lies before the end of the block,  *)
(* oldest first, may hold back one whose slot has not elapsed or that is   *)
(* held up in the ring, and may drop any as overdue or for want of room.   *)
(* There is one wheel, as in main.rs.  Grains are numbered in the order    *)
(* they are submitted.                                                     *)
(***************************************************************************)
EXTENDS FofGrain, PanLayout, FiniteSets, Functions

CONSTANTS
    Ids,             \* nonzero ids; NoId is the fire-and-forget id 0
    NoId,
    Keys,            \* keys of the slab
    Starts,          \* start_sample values
    SlotDuration,    \* samples per slot of the wheels
    Horizon,         \* Wheel::horizon, in samples
    Decays,          \* samples until a grain's fade level
    Fade,            \* length of every fade, in samples
    PanMode,         \* pan_mode
    FarGrains,       \* the grains that lie at distance 1 or more
    BlockSizes,      \* values of n_frames
    Worlds,          \* what the client and the clock may be like: [uniqueIds, drifts]
    KillCapacity,    \* capacity of the kill queue (256)
    MaxGrains,       \* bound: grains submitted
    MaxKills,        \* bound: kill requests
    MaxClock         \* bound: from here on, only blocks with work to do

ASSUME EngineAssumption ==
    /\ NoId \notin Ids
    /\ Keys \subseteq Nat /\ Cardinality(Keys) >= MaxGrains
    /\ SlotDuration \in Nat \ {0} /\ Horizon \in Nat \ {0}
    /\ Starts \subseteq Nat /\ Decays \subseteq U32 /\ Fade \in U32
    /\ BlockSizes \subseteq Nat \ {0}
    /\ \A w \in Worlds : w.uniqueIds \in BOOLEAN /\ w.drifts \subseteq Int
    /\ PanMode \in PanModes /\ FarGrains \subseteq Nat
    /\ KillCapacity \in Nat \ {0}
    /\ MaxGrains \in Nat /\ MaxKills \in Nat /\ MaxClock \in Nat

VARIABLES
    world,         \* the member of Worlds this run is in; it never changes
    pc,            \* the step of process_block
    blockStart,    \* block_start of the current block; 0 between blocks
    clock,         \* sample_clock; block_end while a block is in progress
    scheduled,     \* grains in the wheels or on their way to them
    incoming,      \* Vec incoming
    killQueue,     \* the SPSC kill queue
    killRequests,  \* Vec kill_requests
    active,        \* the slab: key -> grain number
    fof,           \* grain number -> its FofState, while in the slab
    idMap,         \* id_map: id -> key
    activeKeys,    \* Vec active_keys: those still to be rendered in this block
    mono,          \* mono_buf: whose samples it holds
    gains,         \* gains_buf: whose gains each channel's cell holds
    outputs,       \* what each output channel carries while a block is rendered
    sent,          \* history: [id, start, decay] of every submitted grain
    finished,      \* history: grains that died and left the slab
    dropped,       \* history: grains the wheel dropped
    doomed,        \* history: grains that were alive when a kill named them
    killsSent      \* history: number of kill requests

pool    == <<active, fof, idMap>>
clocks  == <<world, blockStart, clock>>
mixed   == <<activeKeys, mono, gains, outputs>>
fates   == <<finished, dropped, doomed>>
vars == <<clocks, pc, scheduled, incoming, killQueue, killRequests, pool, mixed,
          sent, fates, killsSent>>

Grains == 1 .. Len(sent)

\* A function without the members of S in its domain.
Without(f, S) == [x \in DOMAIN f \ S |-> f[x]]
With(f, x, y) == [z \in DOMAIN f \union {x} |-> IF z = x THEN y ELSE f[z]]

\* The members of S in the order that Before says, a strict total order: the set
\* has one member.  (SetToSortSeq, said so that it can be reasoned about.)
Listings(S, Before(_, _)) ==
    {s \in [1 .. Cardinality(S) -> S] :
        \A i, j \in DOMAIN s : i < j => Before(s[i], s[j])}

Active == {active[k] : k \in DOMAIN active}
\* Does the client give every living grain an id of its own?  By how much may
\* set_sample_clock move the clock away from the end of the previous block?
UniqueIds == world.uniqueIds
Drifts    == world.drifts
Forward   == \A d \in Drifts : d >= 0

Alive == Active \union Range(incoming)
InUse == {sent[g].id : g \in scheduled \union Alive}

\* The callback zeroes the output buffers before process_block.
Silence == [c \in ChannelsOf(PanMode) |-> {}]

-----------------------------------------------------------------------------

Init ==
    /\ world \in Worlds
    /\ pc = "idle"
    /\ blockStart = 0
    /\ clock = 0
    /\ scheduled = {}
    /\ incoming = <<>>
    /\ killQueue = <<>>
    /\ killRequests = <<>>
    /\ active = <<>>
    /\ fof = <<>>
    /\ idMap = <<>>
    /\ activeKeys = <<>> /\ mono = {} /\ gains = Silence /\ outputs = Silence
    /\ sent = <<>>
    /\ finished = {}
    /\ dropped = {}
    /\ doomed = {}
    /\ killsSent = 0

\* When the bridging thread pushes.  It may push at any moment, but from
\* drain_kills to the end of the block the audio thread looks at neither queue,
\* so a push in that stretch is the same as one right after the block.
BridgeMayPush == pc \in {"idle", "drain_kills"}

\* The bridging thread pushes a grain towards the wheel.
PushFof(id, start, decay) ==
    /\ BridgeMayPush
    /\ Len(sent) < MaxGrains
    /\ UniqueIds /\ id # NoId => id \notin InUse
    /\ sent' = Append(sent, [id |-> id, start |-> start, decay |-> decay])
    /\ scheduled' = scheduled \union {Len(sent) + 1}
    /\ UNCHANGED <<clocks, pc, incoming, killQueue, killRequests, pool,
                   mixed, fates, killsSent>>

\* The bridging thread pushes a kill request.
PushKill(id) ==
    /\ BridgeMayPush
    /\ Len(killQueue) < KillCapacity
    /\ killsSent < MaxKills
    /\ killQueue' = Append(killQueue, id)
    /\ killsSent' = killsSent + 1
    /\ doomed' = doomed \union {g \in Alive : sent[g].id = id}
    /\ UNCHANGED <<clocks, pc, scheduled, incoming, killRequests, pool,
                   mixed, sent, finished, dropped>>

\* g waits in the ring, not in the wheel, if it or one pushed before it lay
\* beyond the horizon of where the last block ended: admission stops there.
HeldUp(g) ==
    \E h \in scheduled :
        h <= g /\ sent[h].start >= (clock \div SlotDuration) * SlotDuration + Horizon

\* Which grains may be handed over and which must have left the wheel by
\* blockEnd, and in which order it hands them over.  (That is what a drain of
\* TimeWheel guarantees: DrainContract in TimeWheelProofs.)
MayLeaveTooSoon(blockEnd) ==                 \* faulty: off by one
    {g \in scheduled : sent[g].start <= blockEnd}
MayLeave(blockEnd)  == {g \in scheduled : sent[g].start < blockEnd}
MustLeave(blockEnd) ==
    {g \in scheduled : /\ sent[g].start \div SlotDuration < blockEnd \div SlotDuration
                       /\ ~HeldUp(g)}
FiresBefore(g, h) ==
    \/ sent[g].start \div SlotDuration < sent[h].start \div SlotDuration
    \/ /\ sent[g].start \div SlotDuration = sent[h].start \div SlotDuration
       /\ g < h

\* set_sample_clock, then drain_wheels: `fire' is what the wheel hands over and
\* `drop' what it refused.
DrainWheels(d, n, fire, drop) ==
    /\ pc = "idle"
    /\ clock < MaxClock \/ scheduled # {} \/ active # <<>> \/ killQueue # <<>>
    /\ clock + d >= 0
    /\ blockStart' = clock + d
    /\ clock' = clock + d + n
    /\ MustLeave(clock + d + n) \subseteq fire \union drop
    /\ incoming' \in Listings(fire, FiresBefore)
    /\ scheduled' = scheduled \ (fire \union drop)
    /\ dropped' = dropped \union drop
    /\ pc' = "drain_kills"
    /\ UNCHANGED <<world, killQueue, killRequests, pool, mixed, sent,
                   finished, doomed, killsSent>>

\* drain_kills: KillQueueConsumer::drain_all.
DrainKillsLookingUp ==                       \* faulty: ids looked up too soon
    /\ pc = "drain_kills"
    /\ killRequests' = SelectSeq(killQueue, LAMBDA id : id \in DOMAIN idMap)
    /\ killQueue' = <<>>
    /\ pc' = "spawn"
    /\ UNCHANGED <<clocks, scheduled, incoming, pool, mixed, sent, fates,
                   killsSent>>
DrainKills ==
    /\ pc = "drain_kills"
    /\ killRequests' = killQueue
    /\ killQueue' = <<>>
    /\ pc' = "spawn"
    /\ UNCHANGED <<clocks, scheduled, incoming, pool, mixed, sent, fates,
                   killsSent>>

\* Slab::insert takes a vacant key.  Which one is the slab's affair; the
\* lowest stands for them all, since keys only matter by being equal or not.
NextKeyByCount == Cardinality(DOMAIN active)    \* faulty: as if keys were dense
NextKey == CHOOSE k \in Keys \ DOMAIN active :
              \A j \in Keys \ DOMAIN active : k <= j

\* One turn of the spawn loop: the grain takes a vacant key, and its id,
\* unless it is 0, now leads to that key.
SpawnOneEvicting ==                          \* faulty: an id in use is evicted
    /\ pc = "spawn" /\ incoming # <<>>
    /\ LET g  == Head(incoming)
           id == sent[g].id
           k  == IF id \in DOMAIN idMap THEN idMap[id] ELSE NextKey
       IN  /\ active' = With(active, k, g)
           /\ fof' = With(Without(fof, {active[j] : j \in DOMAIN active \intersect {k}}),
                          g, Spawn(0, sent[g].decay, Fade))
           /\ idMap' = IF id = NoId THEN idMap ELSE With(idMap, id, k)
    /\ incoming' = Tail(incoming)
    /\ UNCHANGED <<clocks, pc, scheduled, killQueue, killRequests, mixed,
                   sent, fates, killsSent>>
SpawnOne ==
    /\ pc = "spawn" /\ incoming # <<>>
    /\ LET g  == Head(incoming)
           id == sent[g].id
           k  == NextKey
       IN  /\ active' = With(active, k, g)
           /\ fof' = With(fof, g, Spawn(0, sent[g].decay, Fade))
           /\ idMap' = IF id = NoId THEN idMap ELSE With(idMap, id, k)
    /\ incoming' = Tail(incoming)
    /\ UNCHANGED <<clocks, pc, scheduled, killQueue, killRequests, mixed,
                   sent, fates, killsSent>>

SpawnDone ==
    /\ pc = "spawn" /\ incoming = <<>>
    /\ pc' = "kill"
    /\ UNCHANGED <<clocks, scheduled, incoming, killQueue, killRequests, pool,
                   mixed, sent, fates, killsSent>>

\* One turn of the kill loop: an id that is not in the map is ignored.
KillOne ==
    /\ pc = "kill" /\ killRequests # <<>>
    /\ LET id == Head(killRequests)
       IN  IF id \in DOMAIN idMap
           THEN LET g == active[idMap[id]]
                IN  fof' = [fof EXCEPT ![g] = TriggerFadeOut(@, Fade)]
           ELSE UNCHANGED fof
    /\ killRequests' = Tail(killRequests)
    /\ UNCHANGED <<clocks, pc, scheduled, incoming, killQueue, active, idMap,
                   mixed, sent, fates, killsSent>>

\* The keys of the slab, in the order they are rendered in.
BeginFill ==
    /\ pc = "kill" /\ killRequests = <<>>
    /\ activeKeys' \in Listings(DOMAIN active, <)
    /\ pc' = "fill"
    /\ UNCHANGED <<clocks, scheduled, incoming, killQueue, killRequests, pool,
                   mono, gains, outputs, sent, fates, killsSent>>

\* One turn of the loop over the active keys.  Two scratch buffers serve every
\* grain in turn and are zeroed before each.  A buffer is what was added to it
\* since: `mono' the grains whose samples, a channel of `gains' the grains whose
\* gains; an output channel holds products of the two.  A grain whose start lies
\* beyond the block gets no room (the assertion in fill_block is compiled out of
\* a release build and its loop does not run).
KeptMono(buf) == buf                         \* faulty: the last grain's remain
ZeroedMono(buf) == {}
FilledMono(buf, g, cells) ==
    IF \A i \in DOMAIN cells : cells[i] = <<>> THEN buf ELSE buf \union {g}

ZeroedGains(buf) == [c \in DOMAIN buf |-> {}]
PannedGains(buf, g) ==
    [c \in DOMAIN buf |->
        IF c \in PanChannels(PanMode, g \in FarGrains) THEN buf[c] \union {g}
                                                       ELSE buf[c]]

FillOne ==
    /\ pc = "fill" /\ activeKeys # <<>>
    /\ LET g == active[Head(activeKeys)]
           at == StartOffset(sent[g].start, blockStart)
       IN  \E filled \in {FillBlock(fof[g], at, Zeroed(clock - blockStart))} :
              /\ fof' = [fof EXCEPT ![g] = filled.grain]
              /\ mono' = FilledMono(ZeroedMono(mono), g, filled.buf)
              /\ gains' = PannedGains(ZeroedGains(gains), g)
    /\ outputs' = [c \in DOMAIN outputs |-> outputs[c] \union (mono' \X gains'[c])]
    /\ activeKeys' = Tail(activeKeys)
    /\ UNCHANGED <<clocks, pc, scheduled, incoming, killQueue, killRequests,
                   active, idMap, sent, fates, killsSent>>

DeadKeys == {k \in DOMAIN active : fof[active[k]].phase = "Dead"}

\* Dead grains leave the slab, and their ids the map; the block is over and the
\* audio server has its buffers.  What the scratch buffers hold between blocks is
\* left out.
RemoveDeadKeepingIds ==                      \* faulty: the map is not cleaned
    /\ pc = "fill" /\ activeKeys = <<>>
    /\ active' = Without(active, DeadKeys)
    /\ fof' = Without(fof, {active[k] : k \in DeadKeys})
    /\ finished' = finished \union {active[k] : k \in DeadKeys}
    /\ pc' = "idle"
    /\ blockStart' = 0
    /\ mono' = {} /\ gains' = Silence /\ outputs' = Silence
    /\ UNCHANGED <<world, clock, scheduled, incoming, killQueue, killRequests,
                   activeKeys, idMap, sent, dropped, doomed, killsSent>>
RemoveDead ==
    /\ pc = "fill" /\ activeKeys = <<>>
    /\ active' = Without(active, DeadKeys)
    /\ fof' = Without(fof, {active[k] : k \in DeadKeys})
    /\ idMap' = Without(idMap, {sent[active[k]].id : k \in DeadKeys})
    /\ finished' = finished \union {active[k] : k \in DeadKeys}
    /\ pc' = "idle"
    /\ blockStart' = 0
    /\ mono' = {} /\ gains' = Silence /\ outputs' = Silence
    /\ UNCHANGED <<world, clock, scheduled, incoming, killQueue, killRequests,
                   activeKeys, sent, dropped, doomed, killsSent>>

\* The bound on the clock is reached: the model, not the system, stops here.
AtBound ==
    /\ pc = "idle" /\ clock >= MaxClock
    /\ scheduled = {} /\ active = <<>> /\ killQueue = <<>>
    /\ UNCHANGED vars

ProcessBlock ==
    \/ \E d \in Drifts, n \in BlockSizes :
          \E fire \in SUBSET MayLeave(clock + d + n) :
             \E drop \in SUBSET (scheduled \ fire) :
                DrainWheels(d, n, fire, drop)
    \/ DrainKills
    \/ SpawnOne
    \/ SpawnDone
    \/ KillOne
    \/ BeginFill
    \/ FillOne
    \/ RemoveDead

Next ==
    \/ \E id \in Ids \union {NoId}, s \in Starts, decay \in Decays :
          PushFof(id, s, decay)
    \/ \E id \in Ids : PushKill(id)
    \/ ProcessBlock
    \/ AtBound

Spec == Init /\ [][Next]_vars

\* The audio server keeps calling the callback.
FairSpec == Spec /\ WF_vars(ProcessBlock)

-----------------------------------------------------------------------------
(* What the engine promises. *)

\* Every variable has its type.
TypeOK ==
    /\ world \in Worlds
    /\ pc \in {"idle", "drain_kills", "spawn", "kill", "fill"}
    /\ blockStart \in Nat /\ clock \in Nat
    /\ scheduled \subseteq Grains
    /\ incoming \in Seq(Grains)
    /\ killQueue \in Seq(Ids) /\ Len(killQueue) <= KillCapacity
    /\ killRequests \in Seq(Ids)
    /\ DOMAIN active \subseteq Keys /\ Active \subseteq Grains
    /\ DOMAIN fof = Active /\ \A g \in Active : fof[g] \in GrainStates
    /\ DOMAIN outputs = ChannelsOf(PanMode)
    /\ \A c \in DOMAIN outputs : outputs[c] \subseteq Grains \X Grains
    /\ activeKeys \in Seq(Keys)
    /\ mono \subseteq Grains /\ DOMAIN gains = ChannelsOf(PanMode)
    /\ \A c \in DOMAIN gains : gains[c] \subseteq Grains
    /\ DOMAIN idMap \subseteq Ids /\ \A id \in DOMAIN idMap : idMap[id] \in Keys
    /\ sent \in Seq([id : Ids \union {NoId}, start : Starts, decay : Decays])
    /\ finished \subseteq Grains /\ dropped \subseteq Grains
    /\ doomed \subseteq Grains
    /\ killsSent \in Nat

\* An entry of the id map leads to an occupied slab key whose grain bears that
\* id: indexing the slab for a kill neither panics nor hits another grain,
\* although keys are reused at once and the client may reuse ids as it likes.
IdMapSound ==
    \A id \in DOMAIN idMap :
        /\ idMap[id] \in DOMAIN active
        /\ sent[active[idMap[id]]].id = id

\* A kill lands: once a block has been processed with no kill left in the
\* queue, every grain that was alive (handed over by the wheels) when a kill
\* named it is fading or gone.  In particular a kill that overtakes its
\* grain's spawn inside a block is not lost.
KillsLand ==
    UniqueIds /\ pc = "idle" /\ killQueue = <<>> =>
        \A g \in doomed \intersect Active : fof[g].phase \in {"FadeOut", "Dead"}

\* The mix is sound although the two scratch buffers serve every grain in turn:
\* no sample is ever multiplied by another grain's gain or reaches a channel its
\* grain is not panned to, and a grain that starts in this block and lives on is
\* heard on each of its channels.
HeardOnItsChannels ==
    pc = "fill" /\ activeKeys = <<>> =>
        \A c \in ChannelsOf(PanMode) :
            /\ \A product \in outputs[c] :
                  /\ product[1] = product[2] /\ product[1] \in Active
                  /\ c \in PanChannels(PanMode, product[1] \in FarGrains)
            /\ \A g \in Active :
                  /\ c \in PanChannels(PanMode, g \in FarGrains)
                  /\ sent[g].start \in blockStart .. clock - 1
                  /\ fof[g].phase # "Dead"
                  => <<g, g>> \in outputs[c]

\* The assertion in fill_block: when a grain is rendered, its start_sample
\* does not lie beyond the block.
StartsWithinBlock ==
    Forward /\ pc = "kill" /\ killRequests = <<>> =>
        \A g \in Active :
            StartOffset(sent[g].start, blockStart) < clock - blockStart

\* A grain that is submitted gets through: it is dropped by the wheel or has its
\* life in the pool and leaves it; no kill, reused key, shared id or block
\* boundary keeps it there for ever or takes its key away.  As no more than
\* MaxGrains are submitted, there is again and again a moment at which all have.
PoolDrains == []<>(Forward => Grains \subseteq finished \union dropped)

=============================================================================
