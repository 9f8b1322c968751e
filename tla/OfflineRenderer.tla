--------------------------- MODULE OfflineRenderer ---------------------------
(***************************************************************************)
(* OfflineRenderer (src/src/offline.rs): one thread that submits grains    *)
(* and runs the engine block by block on its own free-running clock,       *)
(* driven by the start_sample of each grain, and that on close renders     *)
(* what is left.  The scheduler is the very TimeWheel module, its actions  *)
(* now called in turn by this thread; of the engine, what matters here is  *)
(* which grains are sounding and for how long.                             *)
(*                                                                         *)
(* TimeWheel must be instantiated with BlockSizes = {BlockSize},           *)
(* Drifts = {0} and InOrder = TRUE, which is what add_fof asserts.         *)
(***************************************************************************)
EXTENDS TimeWheel

CONSTANTS
    BlockSize,     \* block_size given to open
    Lifetimes,     \* how many samples a grain sounds
    Forever,       \* the lifetime of a grain that never dies
    MaxExtra       \* max_extra: blocks in 30 seconds

ASSUME OfflineAssumption ==
    /\ BlockSizes = {BlockSize} /\ Drifts = {0} /\ InOrder
    /\ Lifetimes \subseteq Nat /\ Forever \in Nat
    /\ \A life \in Lifetimes : life <= Forever
    /\ MaxExtra \in Nat

VARIABLES
    rpc,        \* where the renderer is
    inBlock,    \* is process_one_block under way?
    living,     \* active grain -> samples it has left to sound
    lasting,    \* history: lifetime of each submitted grain
    extra,      \* turns of the last loop of close
    cut         \* history: grains still sounding when close gave up

rendererVars == <<rpc, inBlock, living, lasting, extra, cut>>
allVars == <<vars, rendererVars>>

\* last_start_sample.
LastStart == IF starts = <<>> THEN 0 ELSE starts[Len(starts)]

-----------------------------------------------------------------------------

OfflineInit ==
    /\ Init
    /\ rpc = "open"
    /\ inBlock = FALSE
    /\ living = <<>>
    /\ lasting = <<>>
    /\ extra = 0
    /\ cut = {}

\* add_fof: the push.  expect("time wheel full") ends the program when the
\* ring is full.
AddFof(s, life) ==
    /\ rpc = "open"
    /\ Push(s)
    /\ lasting' = Append(lasting, life)
    /\ rpc' = "adding"
    /\ UNCHANGED <<inBlock, living, extra, cut>>

WheelFull ==
    /\ rpc = "open"
    /\ Len(starts) < MaxGrains
    /\ Len(ingress) = IngressCapacity
    /\ rpc' = "panicked"
    /\ UNCHANGED <<vars, inBlock, living, lasting, extra, cut>>

\* process_one_block begins; what follows are the steps of the drain and then
\* Render.  The renderer goes to `next' and looks again when the block is over.
BeginBlock(next) ==
    /\ BeginDrain(0, BlockSize)
    /\ inBlock' = TRUE
    /\ rpc' = next
    /\ UNCHANGED <<living, lasting, cut>>

\* The renderer's loops are looked at only between blocks.
At(place) == rpc = place /\ ~inBlock

Goto(next) ==
    /\ rpc' = next
    /\ UNCHANGED <<vars, inBlock, living, lasting, extra, cut>>

\* The engine's part of a block: fired grains join the pool, every grain
\* sounds from its start to the end of the block, and a grain whose life ends
\* before the end of the block leaves (FofGrain models how it gets there).  A grain
\* without a natural fade never does: its counters outlast the 30 seconds by hours.
Sounded(g) == blockEnd - (IF starts[g] > blockStart THEN starts[g] ELSE blockStart)

Left(g) ==
    IF lasting[g] = Forever THEN Forever
    ELSE (IF g \in DOMAIN living THEN living[g] ELSE lasting[g]) - Sounded(g)

Survives(g) == Left(g) >= 0

Render ==
    /\ inBlock /\ pc = "idle"
    /\ living' = [g \in {h \in DOMAIN living \union Range(out) : Survives(h)}
                     |-> Left(g)]
    /\ inBlock' = FALSE
    /\ UNCHANGED <<vars, rpc, lasting, extra, cut>>

\* add_fof: blocks are rendered until the clock is just behind the grain.
AddLoopTooFar ==                         \* faulty: until the clock is past it
    /\ At("adding")
    /\ IF LastStart >= blockEnd THEN BeginBlock("adding") /\ UNCHANGED extra
                                ELSE Goto("open")
AddLoop ==
    /\ At("adding")
    /\ IF LastStart > blockEnd + BlockSize
       THEN BeginBlock("adding") /\ UNCHANGED extra
       ELSE Goto("open")

Close == At("open") /\ Goto("covering")

\* close: until the next block covers the last grain.
CoverLoopSkipped == At("covering") /\ Goto("last")     \* faulty: one block only
CoverLoop ==
    /\ At("covering")
    /\ IF blockEnd + BlockSize <= LastStart
       THEN BeginBlock("covering") /\ UNCHANGED extra
       ELSE Goto("last")

\* close: one more block.
LastBlock == At("last") /\ BeginBlock("tail") /\ UNCHANGED extra

\* close: until no grain sounds any more, for 30 seconds at most.
TailLoopUnlimited ==                     \* faulty: for as long as it takes
    /\ At("tail")
    /\ CASE living = <<>>         -> Goto("closed")
         [] blockEnd < MaxClock   -> BeginBlock("tail") /\ UNCHANGED extra
         [] OTHER                 -> Goto("tail")      \* and so on beyond the bound
TailLoop ==
    /\ At("tail")
    /\ IF extra < MaxExtra /\ living # <<>>
       THEN BeginBlock("tail") /\ extra' = extra + 1
       ELSE /\ rpc' = "closed"
            /\ cut' = DOMAIN living
            /\ UNCHANGED <<vars, inBlock, living, lasting, extra>>

DrainStep ==
    /\ inBlock
    /\ Admit \/ StopAdmitting \/ FireSlot \/ FinishDrain
    /\ UNCHANGED rendererVars

Run == DrainStep \/ Render \/ AddLoop \/ CoverLoop \/ LastBlock \/ TailLoop

OfflineNext ==
    \/ \E s \in 0 .. MaxStart, life \in Lifetimes : AddFof(s, life)
    \/ WheelFull
    \/ Close
    \/ Run
    \/ rpc \in {"closed", "panicked"} /\ UNCHANGED allVars

OfflineSpec == OfflineInit /\ [][OfflineNext]_allVars

\* The thread runs; its caller may never add another grain nor close.
OfflineFairSpec == OfflineSpec /\ WF_allVars(Run)

-----------------------------------------------------------------------------
(* What the renderer promises. *)

\* The clock never overtakes a grain before it has been submitted: offline
\* rendering drops no grain as overdue, as long as a block is no longer than the
\* wheel reaches ahead of its current slot (OfflineProofs).
NothingTooLate == rejected["too_late"] = {}

\* When close returns, every grain submitted has been handed to the engine
\* (or refused for want of room in its slot) and has sounded to its end, but
\* for those the time limit cuts off (offline.rs: "Renders blocks until every
\* scheduled and active FOF has fully decayed").
CloseRendersEverything ==
    rpc = "closed" =>
        /\ Grains = fired \union rejected["slot_full"]
        /\ cut # {} => extra = MaxExtra

\* close comes to an end, also when a grain never does (offline.rs: "A safety
\* limit of 30 seconds prevents infinite loops if a FOF never reaches the `Dead'
\* phase").
CloseEnds == rpc = "covering" ~> rpc = "closed"

=============================================================================
