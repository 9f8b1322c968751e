-------------------------------- MODULE Server --------------------------------
(***************************************************************************)
(* The way of a FOF, and of a kill, through the running server of          *)
(* src/src/main.rs: a client process puts it into its shared ring, the     *)
(* bridging thread takes it out and pushes it into the scheduler's ring or *)
(* the kill queue, and JACK's callback drains both on a clock that comes   *)
(* from outside and that clients switch while the server runs.             *)
(*                                                                         *)
(* The scheduler is TimeWheel itself.  The shared rings are the bounded    *)
(* first-in first-out buffers that SpscRing implements.  A FOF is named by *)
(* its place in the sequence of those the client was told Ok for, which is *)
(* also its id; a kill likewise by its own.  What a kill does to a grain   *)
(* that has been handed over is Engine's part.                             *)
(*                                                                         *)
(* JACK and its user are the environment: the frame counter passes through *)
(* FrameWrap values (2^32), and the transport is wherever its user has put *)
(* it when a callback asks.                                                *)
(***************************************************************************)
EXTENDS TimeWheel

CONSTANTS
    FofCap,        \* FOF_CAP, the capacity of the shared ring of FOFs
    KillCap,       \* KILL_CAP, that of the shared ring of kills
    KillQueueCapacity,   \* capacity of the kill queue (256)
    CliMode,       \* the clock mode the server was started with
    Switches,      \* the modes clients switch to
    StartSamples,  \* start_sample values clients submit
    Jitters,       \* frame_time() minus the end of the previous block
    Positions,     \* where the transport may be
    FrameWrap,     \* values of the frame counter (2^32)
    MaxKills,      \* bound: kills
    MaxRequests,   \* bound: FOFs and kills together
    MaxFrame       \* bound: the counter rests here while the transport drives

ClockModes == {"frame_time", "transport"}

ASSUME ServerAssumption ==
    /\ FofCap \in Nat \ {0} /\ KillCap \in Nat \ {0}
    /\ KillQueueCapacity \in Nat \ {0}
    /\ MaxKills \in Nat /\ MaxRequests \in Nat
    /\ CliMode \in ClockModes /\ Switches \subseteq ClockModes
    /\ StartSamples \subseteq Nat
    /\ \A n \in BlockSizes, j \in Jitters : j \in Int /\ n + j > 0
    /\ Positions \subseteq Nat
    /\ FrameWrap \in Nat \ {0}
    /\ MaxFrame \in Nat

VARIABLES
    fofRing,     \* fof_ring: FOFs not yet taken by the bridging thread
    killRing,    \* kill_ring: kills not yet taken
    turn,        \* which of the two its loop looks at next: "fof" or "kill"
    hand,        \* what it has taken out and not yet passed on: none or one
    killQueue,   \* the kill queue towards the engine
    mode,        \* clock_mode in the shared segment
    currentSample,  \* current_sample in the shared segment
    frame,       \* what frame_time() will answer in the next callback
    inBlock,     \* is a callback under way?
    submitted,   \* history: start_sample of every FOF answered Ok
    kills,       \* history: the FOF each kill answered Ok names
    forwarded,   \* history: grain -> the FOF it was
    obeyed,      \* history: kills the engine took, in order
    ignored,     \* history: of these, those whose id it did not find
    lost,        \* history: FOFs the bridging thread dropped
    lostKills,   \* history: kills it dropped
    tardy,       \* history: kills sent when the published clock was past the
                 \*          slot of the FOF they name
    ahead,       \* history: grains that reached the scheduler before their time
    smooth       \* history: has every block begun near the end of the last?

fofVars   == <<fofRing, submitted, lost, forwarded, ahead>>
killVars  == <<killRing, kills, lostKills, tardy>>
endVars   == <<killQueue, obeyed, ignored>>
clockVars == <<mode, currentSample, frame, inBlock, smooth>>
serverVars == <<fofVars, killVars, endVars, turn, hand, clockVars>>
allVars == <<vars, serverVars>>

-----------------------------------------------------------------------------

ServerInit ==
    /\ Init
    /\ fofRing = <<>> /\ killRing = <<>> /\ killQueue = <<>>
    /\ turn = "fof" /\ hand = <<>>
    /\ mode = CliMode
    /\ currentSample = 0 /\ frame = 0
    /\ inBlock = FALSE
    /\ submitted = <<>> /\ forwarded = <<>>
    /\ kills = <<>> /\ obeyed = <<>>
    /\ ignored = {} /\ lost = {} /\ lostKills = {} /\ tardy = {} /\ ahead = {}
    /\ smooth = TRUE

MaySubmit == Len(submitted) + Len(kills) < MaxRequests

\* rfofs_add_fof answers 0.  When the ring is full it answers -2 and changes
\* nothing.
AddFof(s) ==
    /\ MaySubmit /\ Len(submitted) < MaxGrains
    /\ Len(fofRing) < FofCap
    /\ submitted' = Append(submitted, s)
    /\ fofRing' = Append(fofRing, Len(submitted) + 1)
    /\ UNCHANGED <<vars, lost, forwarded, ahead, killVars, endVars, turn, hand,
                   clockVars>>

\* From here on a clock is past the slot of start_sample s.
SlotEnd(s) == (SlotOf(s) + 1) * SlotDuration

\* rfofs_kill answers 0 for a FOF the client has submitted.
Kill(r) ==
    /\ MaySubmit /\ Len(kills) < MaxKills
    /\ Len(killRing) < KillCap
    /\ kills' = Append(kills, r)
    /\ killRing' = Append(killRing, Len(kills) + 1)
    /\ tardy' = IF SlotEnd(submitted[r]) <= currentSample
                THEN tardy \union {Len(kills) + 1} ELSE tardy
    /\ UNCHANGED <<vars, fofVars, lostKills, endVars, turn, hand, clockVars>>

\* rfofs_set_clock_mode; what is not a mode is refused.
SetClockMode(m) ==
    /\ mode' = m
    /\ UNCHANGED <<vars, fofVars, killVars, endVars, turn, hand, currentSample,
                   frame, inBlock, smooth>>

\* The bridging thread's loop looks at the ring of FOFs, and then at that of
\* kills.  It takes a FOF out ...
BridgePop ==
    /\ turn = "fof" /\ hand = <<>> /\ fofRing # <<>>
    /\ hand' = <<Head(fofRing)>>
    /\ fofRing' = Tail(fofRing)
    /\ UNCHANGED <<vars, submitted, lost, forwarded, ahead, killVars, endVars,
                   turn, clockVars>>

\* ... and pushes it into the scheduler's ring.  Is that full, the error is
\* ignored and the FOF is gone.
Forward ==
    /\ Push(submitted[hand[1]])
    /\ forwarded' = Append(forwarded, hand[1])
    /\ ahead' = IF submitted[hand[1]] >= blockEnd
                THEN ahead \union {Len(starts) + 1} ELSE ahead
    /\ UNCHANGED <<fofRing, lost>>
BridgePushPuttingBack ==                 \* faulty: a refused FOF is put back
    /\ turn = "fof" /\ hand # <<>>
    /\ turn' = "kill" /\ hand' = <<>>
    /\ \/ Forward
       \/ /\ Len(ingress) = IngressCapacity
          /\ fofRing' = Append(fofRing, hand[1])
          /\ UNCHANGED <<vars, lost, forwarded, ahead>>
    /\ UNCHANGED <<submitted, killVars, endVars, clockVars>>
BridgePush ==
    /\ turn = "fof" /\ hand # <<>>
    /\ turn' = "kill" /\ hand' = <<>>
    /\ \/ Forward
       \/ /\ Len(ingress) = IngressCapacity
          /\ lost' = lost \union {hand[1]}
          /\ UNCHANGED <<vars, fofRing, forwarded, ahead>>
    /\ UNCHANGED <<submitted, killVars, endVars, clockVars>>

\* The same with a kill and the kill queue.
BridgePopKill ==
    /\ turn = "kill" /\ hand = <<>> /\ killRing # <<>>
    /\ hand' = <<Head(killRing)>>
    /\ killRing' = Tail(killRing)
    /\ UNCHANGED <<vars, fofVars, kills, lostKills, tardy, endVars, turn,
                   clockVars>>

BridgePushKill ==
    /\ turn = "kill" /\ hand # <<>>
    /\ turn' = "fof" /\ hand' = <<>>
    /\ IF Len(killQueue) < KillQueueCapacity
       THEN /\ killQueue' = Append(killQueue, hand[1])
            /\ UNCHANGED lostKills
       ELSE /\ lostKills' = lostKills \union {hand[1]}
            /\ UNCHANGED killQueue
    /\ UNCHANGED <<vars, fofVars, killRing, kills, tardy, obeyed, ignored,
                   clockVars>>

\* A ring that is empty when the loop comes to it is passed over until the next
\* turn; what arrives in between may overtake.
BridgePassOver ==
    /\ hand = <<>>
    /\ \/ turn = "fof" /\ fofRing = <<>> /\ turn' = "kill"
       \/ turn = "kill" /\ killRing = <<>> /\ turn' = "fof"
    /\ UNCHANGED <<vars, fofVars, killVars, endVars, hand, clockVars>>

\* The mode the callback goes by, read anew in every block.
ActiveModeAtStartup == CliMode           \* faulty: the segment is not looked at
ActiveMode == mode

\* What block_start may be: the frame counter, or the transport's position,
\* or the engine's own clock when the transport cannot be asked.
BlockStarts ==
    IF ActiveMode = "frame_time" THEN {frame} ELSE Positions \union {blockEnd}

\* frame_time() one block of n samples later, give or take the jitter.
NextFrame(n, j) ==
    IF ActiveMode = "frame_time" \/ frame < MaxFrame
    THEN (frame + n + j) % FrameWrap ELSE frame

\* JACK calls back: the engine's clock is set and the drain begins.
Callback(t, n, j) ==
    /\ ~inBlock
    /\ BeginDrain(t - blockEnd, n)
    /\ inBlock' = TRUE
    /\ frame' = NextFrame(n, j)
    /\ smooth' = (smooth /\ t - blockEnd \in Jitters)
    /\ UNCHANGED <<fofVars, killVars, endVars, turn, hand, mode, currentSample>>

DrainStep ==
    /\ inBlock
    /\ Admit \/ StopAdmitting \/ FireSlot \/ FinishDrain
    /\ UNCHANGED serverVars

\* The rest of process_block: the kills that have come are taken and those whose
\* grain has not been handed over are ignored.  Then the clock is published.
HandedOver == {forwarded[g] : g \in fired}

PublishedClockOfNextBlock == blockEnd + (blockEnd - blockStart)   \* faulty
PublishedClock == blockEnd

Publish ==
    /\ inBlock /\ pc = "idle"
    /\ inBlock' = FALSE
    /\ killQueue' = <<>>
    /\ obeyed' = obeyed \o killQueue
    /\ ignored' = ignored \union
                     {k \in Range(killQueue) : kills[k] \notin HandedOver}
    /\ currentSample' = PublishedClock
    /\ UNCHANGED <<vars, fofVars, killVars, turn, hand, mode, frame, smooth>>

-----------------------------------------------------------------------------

Bridge ==
    \/ BridgePop \/ BridgePush
    \/ BridgePopKill \/ BridgePushKill
    \/ BridgePassOver

Audio ==
    \/ \E t \in BlockStarts, n \in BlockSizes, j \in Jitters : Callback(t, n, j)
    \/ DrainStep
    \/ Publish

ServerNext ==
    \/ \E s \in StartSamples : AddFof(s)
    \/ \E r \in DOMAIN submitted : Kill(r)
    \/ \E m \in Switches : SetClockMode(m)
    \/ Bridge
    \/ Audio

ServerSpec == ServerInit /\ [][ServerNext]_allVars

\* The bridging thread loops for ever and JACK calls for ever.
ServerFairSpec == ServerSpec /\ WF_allVars(Bridge) /\ WF_allVars(Audio)

-----------------------------------------------------------------------------
(* What the chain promises. *)

\* Of the FOFs the client was told Ok for, those the scheduler has, the one in
\* the bridging thread's hand and those in the shared ring follow each other in
\* the order of submission, each with the start_sample it came with, and only
\* those the bridging thread dropped are missing; and so it is with the kills:
\* two rings and three threads repeat, reorder and mix up nothing.
InOrderExcept(chain, all, missing) ==
    /\ \A i, j \in DOMAIN chain : i < j => chain[i] < chain[j]
    /\ Range(chain) = all \ missing

Held(ring) == IF turn = ring THEN hand ELSE <<>>

ChainInOrder ==
    /\ InOrderExcept(forwarded \o Held("fof") \o fofRing, DOMAIN submitted, lost)
    /\ InOrderExcept(obeyed \o killQueue \o Held("kill") \o killRing,
                     DOMAIN kills, lostKills)
    /\ \A g \in Grains : starts[g] = submitted[forwarded[g]]

\* A client that waits with a kill until the clock it reads (rfofs_current_sample)
\* has passed the slot of the FOF can rely on it: the engine does not ignore
\* the kill and let the grain sound afterwards, whatever the two rings, the
\* bridging thread and the clock did on the way.  (A kill sent sooner may be
\* ignored although its FOF sounds later.)
KillAfterOnsetCounts ==
    \A k \in tardy \intersect ignored : kills[k] \notin HandedOver

\* A grain is dropped as overdue only if the clock had reached its start_sample
\* when it came to the scheduler, or an earlier grain of a later start held it
\* up there (shm.rs: "Clients should submit `start_sample` as this value plus
\* some future headroom (enough to absorb the bridging thread's poll latency)").
HeadroomSuffices ==
    \A g \in rejected["too_late"] :
        g \in ahead => \E h \in 1 .. g - 1 : starts[h] > starts[g]

\* It does as long as every block begins about where the previous one ended,
\* through any switch of the clock's mode that keeps to that.
HeadroomSufficesOnSmoothClock == smooth => HeadroomSuffices

\* If the clock is left on frame_time, whatever it and the transport did
\* before, the stall that a switch to an earlier clock causes ends (shm.rs:
\* "until it naturally grows back past where the wheel had already reached"):
\* every request answered Ok is handed to the engine, refused by the scheduler,
\* or dropped by the bridging thread.  As no more than MaxGrains are submitted,
\* there is again and again a moment at which all of them are.
Resolved(r) ==
    \/ r \in lost
    \/ \E g \in Grains :
          /\ forwarded[g] = r
          /\ g \in fired \/ \E why \in Reasons : g \in rejected[why]

StallEnds ==
    <>[](mode = "frame_time") => []<>(\A r \in DOMAIN submitted : Resolved(r))

=============================================================================
