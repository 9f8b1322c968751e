---------------------------- MODULE OfflineProofs ----------------------------
(***************************************************************************)
(* Proofs about OfflineRenderer, for every wheel, block size, lifetime and *)
(* number of grains, as far as a block is no longer than one rotation of   *)
(* the wheel, and, for what close renders, is a whole number of slots.     *)
(* What the scheduler does in the renderer is a WheelStep, so all that     *)
(* TimeWheelProofs shows of such steps holds here as well.  (That module   *)
(* comes with MCTimeWheel's variable `steady', which OfflineRenderer does  *)
(* not use and nothing here mentions.)                                     *)
(***************************************************************************)
EXTENDS OfflineRenderer, TimeWheelProofs

\* No block carries the clock past the wheel's horizon.  OfflineRenderer::open
\* gives the wheel 256 slots of 256 samples and leaves the block size, "typical"
\* 256, to its caller.
BlockWithinHorizon == BlockSize <= Horizon

\* Blocks end where slots do.
BlockOfWholeSlots == BlockSize % SlotDuration = 0

-----------------------------------------------------------------------------
(* The scheduler inside the renderer. *)

\* The renderer's block size is the scheduler's.
LEMMA BlockSizeType == BlockSize \in BlockSizes /\ BlockSize \in Nat /\ BlockSize > 0
BY OfflineAssumption, ClockAssumption

\* The actions of the renderer, apart.
LEMMA RendererSteps ==
    ASSUME [OfflineNext]_allVars
    PROVE  \/ \E s \in 0 .. MaxStart, life \in Lifetimes : AddFof(s, life)
           \/ WheelFull \/ Close \/ DrainStep \/ Render
           \/ AddLoop \/ CoverLoop \/ LastBlock \/ TailLoop
           \/ UNCHANGED allVars
BY DEF OfflineNext, Run

\* A step of the renderer is a step of the scheduler, or none of its.
LEMMA RendererStepOfWheel == [OfflineNext]_allVars => [WheelStep]_vars
<1>1. SUFFICES ASSUME [OfflineNext]_allVars PROVE [WheelStep]_vars
    OBVIOUS
<1>2. CASE \E s \in 0 .. MaxStart, life \in Lifetimes : AddFof(s, life)
  <2>1. PICK s \in 0 .. MaxStart, life \in Lifetimes : AddFof(s, life)
      BY <1>2
  <2>2. s \in Nat /\ Push(s)
      BY <2>1, BoundAssumption DEF AddFof
  <2>3. QED
      BY <2>2 DEF WheelStep
<1>3. CASE DrainStep
    BY <1>3 DEF DrainStep, WheelStep
<1>4. CASE BeginDrain(0, BlockSize)
    BY <1>4, BlockSizeType DEF WheelStep
<1>5. CASE WheelFull \/ Close \/ Render \/ AddLoop \/ CoverLoop \/ LastBlock \/ TailLoop
           \/ UNCHANGED allVars
    BY <1>4, <1>5 DEF WheelFull, Close, Goto, Render, AddLoop, CoverLoop, LastBlock,
                      TailLoop, BeginBlock, allVars
<1>6. QED
    BY <1>1, <1>2, <1>3, <1>5, RendererSteps

\* The scheduler's own invariant holds in the renderer.
LEMMA RendererLedger == OfflineSpec => []LedgerInv
<1>1. OfflineInit => LedgerInv
    BY InitLedgerInv DEF OfflineInit
<1>2. LedgerInv /\ [OfflineNext]_allVars => LedgerInv'
    BY RendererStepOfWheel, NextLedgerInv
<1>3. QED
    BY <1>1, <1>2, PTL DEF OfflineSpec

\* The offline renderer drives the scheduler by push and drain_block_safe only,
\* so, for every block size and even while close covers the horizon, the
\* scheduler in it keeps its promises.
THEOREM OfflineKeepsScheduler == OfflineSpec => SchedulerPromises
<1>1. OfflineInit => Init
    BY DEF OfflineInit
<1>2. OfflineSpec => WheelSpec
    BY <1>1, RendererStepOfWheel, PTL DEF OfflineSpec, WheelSpec
<1>3. QED
    BY <1>2, SchedulerAnywhere

-----------------------------------------------------------------------------
(* The clock never overtakes a grain. *)

\* Grains come in the order of their start_samples (add_fof asserts it).
SubmittedInOrder == \A g, h \in Grains : g <= h => starts[g] <= starts[h]

\* Where the renderer's loops stand, block by block.
LoopPlace ==
    /\ ~inBlock => pc = "idle"
    /\ rpc \in {"open", "last", "closed", "panicked"} => ~inBlock

\* While grains may be added, the clock is not past the last one.
ClockBehind == rpc \in {"open", "adding"} => blockEnd = 0 \/ blockEnd <= LastStart

OnTimeInv ==
    /\ InReach
    /\ RingAhead
    /\ SubmittedInOrder
    /\ LoopPlace
    /\ ClockBehind
    /\ overdue = {}

\* The last start is a sample, and every grain starts there or before.
LEMMA LastIsLatest ==
    ASSUME TypeOK, SubmittedInOrder
    PROVE  LastStart \in Nat /\ \A g \in Grains : starts[g] <= LastStart
<1>1. starts \in Seq(Nat) /\ Len(starts) \in Nat /\ Grains = 1 .. Len(starts)
    BY DEF TypeOK, Grains
<1>2. CASE starts = <<>>
    BY <1>1, <1>2 DEF LastStart
<1>3. CASE starts # <<>>
  <2>1. Len(starts) \in Grains /\ LastStart = starts[Len(starts)]
      BY <1>1, <1>3 DEF LastStart
  <2>2. LastStart \in Nat
      BY <2>1, StartIsNat
  <2>3. \A g \in Grains : g <= Len(starts)
      BY <1>1
  <2>4. QED
      BY <2>1, <2>2, <2>3 DEF SubmittedInOrder
<1>4. QED
    BY <1>2, <1>3

\* The grain that is added is not behind the wheel, and keeps the order.
LEMMA AddedOnTime ==
    ASSUME LedgerInv, OnTimeInv, InOrder, NEW s \in Nat, NEW life, AddFof(s, life)
    PROVE  SubmittedInOrder' /\ LoopPlace' /\ ClockBehind' /\ overdue' = {}
<1>1. /\ TypeOK /\ InReach /\ SubmittedInOrder /\ overdue = {}
      /\ LoopPlace /\ ClockBehind
    BY DEF OnTimeInv, LedgerInv, WheelInv
<1>2. /\ rpc = "open" /\ rpc' = "adding" /\ inBlock' = inBlock /\ pc' = pc
      /\ blockEnd' = blockEnd /\ starts' = Append(starts, s)
      /\ \A g \in Grains : starts[g] <= s
      /\ overdue' = IF s < (IF pc = "idle" THEN slotIndex ELSE NextIndex) * SlotDuration
                    THEN overdue \union {Len(starts) + 1} ELSE overdue
    BY DEF AddFof, Push
<1>3. /\ starts \in Seq(Nat) /\ Len(starts) \in Nat /\ Grains = 1 .. Len(starts)
      /\ \A g \in Grains : starts[g] \in Nat
      /\ blockEnd \in Nat
    BY <1>1, StartIsNat DEF TypeOK, Grains
<1>4. /\ Len(starts') = Len(starts) + 1 /\ starts' # <<>>
      /\ \A g \in Grains : starts'[g] = starts[g]
      /\ starts'[Len(starts) + 1] = s
    BY <1>2, <1>3
<1>5. LastStart' = s
    BY <1>4 DEF LastStart
<1>6. SubmittedInOrder'
  <2>1. SUFFICES ASSUME NEW g \in 1 .. Len(starts) + 1, NEW h \in 1 .. Len(starts) + 1,
                        g <= h
                 PROVE  starts'[g] <= starts'[h]
      BY <1>4 DEF SubmittedInOrder, Grains
  <2>2. CASE h = Len(starts) + 1
    <3>1. CASE g = Len(starts) + 1
        BY <1>4, <2>2, <3>1
    <3>2. CASE g # Len(starts) + 1
      <4>1. g \in Grains
          BY <1>3, <3>2
      <4>2. QED
          BY <1>2, <1>4, <2>2, <4>1
    <3>3. QED
        BY <3>1, <3>2
  <2>3. CASE h # Len(starts) + 1
    <3>1. g \in Grains /\ h \in Grains
        BY <1>3, <2>1, <2>3
    <3>2. QED
        BY <1>1, <1>4, <2>1, <3>1 DEF SubmittedInOrder
  <2>4. QED
      BY <2>2, <2>3
<1>7. LoopPlace'
    BY <1>1, <1>2, Zenon DEF LoopPlace
<1>8. blockEnd = 0 \/ blockEnd <= s
  <2>1. CASE starts = <<>>
    <3>1. blockEnd = 0 \/ blockEnd <= 0
        BY <1>1, <1>2, <2>1 DEF ClockBehind, LastStart
    <3>2. QED
        BY <1>3, <3>1
  <2>2. CASE starts # <<>>
    <3>1. Len(starts) \in Grains /\ LastStart = starts[Len(starts)]
        BY <1>3, <2>2 DEF LastStart
    <3>2. LastStart <= s /\ LastStart \in Nat
        BY <1>2, <1>3, <3>1
    <3>3. blockEnd = 0 \/ blockEnd <= LastStart
        BY <1>1, <1>2 DEF ClockBehind
    <3>4. QED
        BY <1>3, <3>2, <3>3
  <2>3. QED
      BY <2>1, <2>2
<1>9. ClockBehind'
    BY <1>2, <1>5, <1>8 DEF ClockBehind
<1>10. overdue' = {}
  <2>1. pc = "idle" /\ slotIndex = TargetIndex
      BY <1>1, <1>2 DEF LoopPlace, InReach
  <2>2. TargetIndex * SlotDuration <= blockEnd /\ TargetIndex * SlotDuration \in Nat
    <3>1. TargetIndex \in Nat /\ TargetIndex * SlotDuration <= blockEnd
        BY <1>3, DivBounds, WheelAssumption DEF TargetIndex, SlotOf
    <3>2. QED
        BY <3>1, WheelAssumption
  <2>3. ~(s < slotIndex * SlotDuration)
      BY <1>3, <1>8, <2>1, <2>2
  <2>4. QED
      BY <1>1, <1>2, <2>1, <2>3
<1>11. QED
    BY <1>6, <1>7, <1>9, <1>10

\* Every step of the renderer keeps the grains ahead of the clock.
LEMMA NextOnTimeInv ==
    ASSUME BlockWithinHorizon, LedgerInv, OnTimeInv, [OfflineNext]_allVars
    PROVE  OnTimeInv'
<1>1. /\ TypeOK /\ InReach /\ RingAhead /\ SubmittedInOrder /\ LoopPlace /\ ClockBehind
      /\ overdue = {} /\ [WheelStep]_vars
    BY RendererStepOfWheel DEF OnTimeInv, LedgerInv, WheelInv
<1>2. blockEnd \in Nat /\ Horizon \in Nat /\ BlockSize \in Nat
    BY <1>1, WheelTypes, BlockSizeType DEF TypeOK
<1>3. ASSUME pc = "idle", pc' = "admit"
      PROVE  blockEnd' - blockEnd \in 0 .. Horizon
  <2>1. BeginDrain(0, BlockSize)
      BY <1>3 DEF OfflineNext, Run, AddFof, Push, WheelFull, Close, Goto, Render, AddLoop,
                  CoverLoop, LastBlock, TailLoop, BeginBlock, DrainStep, Admit,
                  StopAdmitting, FireSlot, FinishDrain, allVars, vars
  <2>2. blockEnd' = blockEnd + 0 + BlockSize
      BY <2>1 DEF BeginDrain
  <2>3. QED
      BY <1>2, <2>2 DEF BlockWithinHorizon
<1>4. InReach'
    BY <1>1, <1>3, ReachStep
<1>5. RingAhead'
    BY <1>1, RingStep
<1>6. SUFFICES SubmittedInOrder' /\ LoopPlace' /\ ClockBehind' /\ overdue' = {}
    BY <1>4, <1>5 DEF OnTimeInv
<1>7. CASE \E s \in 0 .. MaxStart, life \in Lifetimes : AddFof(s, life)
  <2>1. PICK s \in 0 .. MaxStart, life \in Lifetimes : AddFof(s, life)
      BY <1>7
  <2>2. s \in Nat /\ InOrder
      BY BoundAssumption, OfflineAssumption
  <2>3. QED
      BY <2>1, <2>2, AddedOnTime
<1>8. ASSUME starts' = starts, overdue' = overdue
      PROVE  SubmittedInOrder' /\ overdue' = {} /\ LastStart' = LastStart
    BY <1>1, <1>8 DEF SubmittedInOrder, Grains, LastStart
<1>9. ASSUME NEW next \in {"adding", "covering", "tail"}, BeginBlock(next),
             next = "adding" => LastStart > blockEnd + BlockSize
      PROVE  SubmittedInOrder' /\ LoopPlace' /\ ClockBehind' /\ overdue' = {}
  <2>1. /\ starts' = starts /\ overdue' = overdue /\ inBlock' = TRUE /\ rpc' = next
        /\ blockEnd' = blockEnd + 0 + BlockSize
      BY <1>9 DEF BeginBlock, BeginDrain
  <2>2. LoopPlace'
      BY <1>9, <2>1, Zenon DEF LoopPlace
  <2>3. LastStart \in Nat
      BY <1>1, LastIsLatest
  <2>4. ClockBehind'
      BY <1>2, <1>8, <1>9, <2>1, <2>3 DEF ClockBehind
  <2>5. QED
      BY <1>8, <2>1, <2>2, <2>4
<1>10. CASE DrainStep
  <2>1. /\ starts' = starts /\ overdue' = overdue /\ rpc' = rpc /\ inBlock' = inBlock
        /\ blockEnd' = blockEnd
      BY <1>10 DEF DrainStep, Admit, StopAdmitting, FireSlot, FinishDrain, rendererVars
  <2>2. LoopPlace' /\ ClockBehind'
    <3>1. inBlock
        BY <1>10 DEF DrainStep
    <3>2. LoopPlace'
        BY <1>1, <2>1, <3>1, Zenon DEF LoopPlace
    <3>3. QED
        BY <1>1, <1>8, <2>1, <3>2 DEF ClockBehind
  <2>3. QED
      BY <1>8, <2>1, <2>2
<1>11. CASE Render
  <2>1. UNCHANGED vars /\ rpc' = rpc /\ inBlock' = FALSE /\ pc = "idle"
      BY <1>11 DEF Render
  <2>2. LoopPlace'
      BY <1>1, <2>1, Zenon DEF LoopPlace, vars
  <2>3. ClockBehind'
      BY <1>1, <1>8, <2>1 DEF ClockBehind, vars
  <2>4. QED
      BY <1>8, <2>1, <2>2, <2>3 DEF vars
<1>12. ASSUME UNCHANGED <<vars, inBlock>>, ~inBlock \/ rpc' = rpc,
              rpc' \in {"open", "adding"} => rpc \in {"open", "adding"}
       PROVE  SubmittedInOrder' /\ LoopPlace' /\ ClockBehind' /\ overdue' = {}
  <2>1. LoopPlace'
      BY <1>1, <1>12, Zenon DEF LoopPlace, vars
  <2>2. ClockBehind'
      BY <1>1, <1>8, <1>12 DEF ClockBehind, vars
  <2>3. QED
      BY <1>8, <1>12, <2>1, <2>2 DEF vars
<1>13. CASE AddLoop
  <2>1. CASE LastStart > blockEnd + BlockSize
      BY <1>9, <1>13, <2>1 DEF AddLoop
  <2>2. CASE ~(LastStart > blockEnd + BlockSize)
    <3>1. At("adding") /\ Goto("open")
        BY <1>13, <2>2 DEF AddLoop
    <3>2. QED
        BY <1>12, <3>1 DEF At, Goto
  <2>3. QED
      BY <2>1, <2>2
<1>14. CASE CoverLoop
  <2>1. CASE BeginBlock("covering")
      BY <1>9, <2>1
  <2>2. CASE At("covering") /\ Goto("last")
      BY <1>12, <2>2 DEF At, Goto
  <2>3. QED
      BY <1>14, <2>1, <2>2 DEF CoverLoop
<1>15. CASE LastBlock
    BY <1>9, <1>15 DEF LastBlock
<1>16. CASE TailLoop
  <2>1. CASE BeginBlock("tail")
      BY <1>9, <2>1
  <2>2. CASE At("tail") /\ rpc' = "closed" /\ UNCHANGED <<vars, inBlock>>
      BY <1>12, <2>2 DEF At
  <2>3. QED
      BY <1>16, <2>1, <2>2 DEF TailLoop
<1>17. CASE WheelFull \/ Close \/ UNCHANGED allVars
  <2>1. ~inBlock \/ UNCHANGED allVars
      BY <1>1, <1>17 DEF WheelFull, Close, At, LoopPlace
  <2>2. QED
      BY <1>12, <1>17, <2>1 DEF WheelFull, Close, Goto, allVars, rendererVars
<1>18. QED
    BY <1>7, <1>10, <1>11, <1>13, <1>14, <1>15, <1>16, <1>17, RendererSteps

\* Before the first grain nothing is late.
LEMMA InitOnTimeInv == OfflineInit => OnTimeInv
<1>1. SUFFICES ASSUME OfflineInit PROVE OnTimeInv
    OBVIOUS
<1>2. /\ slotIndex = 0 /\ blockEnd = 0 /\ pc = "idle" /\ overdue = {}
      /\ ingress = <<>> /\ rejected = [r \in Reasons |-> {}] /\ starts = <<>>
    BY <1>1 DEF OfflineInit, Init
<1>3. InReach
    BY <1>2, SlotZero DEF InReach, TargetIndex
<1>4. Len(ingress) = 0 /\ rejected["too_late"] = {} /\ Grains = {}
    BY <1>2 DEF Reasons, Grains
<1>5. RingAhead
    BY <1>4 DEF RingAhead, DeferredNotDropped
<1>6. SubmittedInOrder /\ ClockBehind
    BY <1>2, <1>4 DEF SubmittedInOrder, ClockBehind
<1>7. LoopPlace
    BY <1>1, <1>2 DEF OfflineInit, LoopPlace
<1>8. QED
    BY <1>2, <1>3, <1>5, <1>6, <1>7 DEF OnTimeInv

\* In order and none of them behind the wheel when submitted, no grain is late.
LEMMA OnTimeIsEnough ==
    ASSUME LedgerInv, OnTimeInv
    PROVE  NothingTooLate
<1>1. SUFFICES ASSUME NEW g \in rejected["too_late"] PROVE FALSE
    BY DEF NothingTooLate
<1>2. /\ g \in Grains /\ TypeOK
    BY DEF LedgerInv, WheelInv, TypeOK, Reasons
<1>3. PICK h \in 1 .. g - 1 : starts[h] > starts[g]
    BY <1>1 DEF OnTimeInv, RingAhead, DeferredNotDropped
<1>4. h \in Grains /\ h <= g
    BY <1>2 DEF Grains, TypeOK
<1>5. starts[h] <= starts[g]
    BY <1>2, <1>4 DEF OnTimeInv, SubmittedInOrder
<1>6. starts[h] \in Nat /\ starts[g] \in Nat
    BY <1>2, <1>4, StartIsNat
<1>7. QED
    BY <1>3, <1>5, <1>6

\* OnTimeInv in every reachable state.
LEMMA AlwaysOnTimeOffline ==
    ASSUME BlockWithinHorizon
    PROVE  OfflineSpec => []OnTimeInv
<1>1. LedgerInv /\ OnTimeInv /\ [OfflineNext]_allVars => OnTimeInv'
    BY NextOnTimeInv
<1>2. QED
    BY <1>1, RendererLedger, InitOnTimeInv, PTL DEF OfflineSpec

\* The renderer's clock never overtakes a grain before it is submitted, nor does
\* the wheel overtake it afterwards (add_fof's loop against drain_block_safe):
\* offline rendering drops nothing as overdue.
THEOREM OfflineDropsNothingLate ==
    ASSUME BlockWithinHorizon
    PROVE  OfflineSpec => []NothingTooLate
<1>1. LedgerInv /\ OnTimeInv => NothingTooLate
    BY OnTimeIsEnough
<1>2. QED
    BY <1>1, RendererLedger, AlwaysOnTimeOffline, PTL

-----------------------------------------------------------------------------
(* What close renders. *)

\* The clock is at the end of a slot; from the last block of close on it is past
\* the last grain, and once a drain has looked at the ring that is empty.
Covered ==
    /\ blockEnd = TargetIndex * SlotDuration
    /\ rpc = "last" => LastStart < blockEnd + BlockSize
    /\ rpc \in {"tail", "closed"} =>
          LastStart < blockEnd /\ (pc # "admit" => ingress = <<>>)

\* A grain is cut off only when the time limit is reached.
CutAtLimit ==
    /\ extra \in 0 .. MaxExtra
    /\ cut # {} => rpc = "closed" /\ extra = MaxExtra

\* A whole number of slots after the end of a slot is the end of a slot.
LEMMA StaysAligned ==
    ASSUME BlockOfWholeSlots, NEW t \in Nat, t = SlotOf(t) * SlotDuration
    PROVE  t + BlockSize = SlotOf(t + BlockSize) * SlotDuration
<1> DEFINE a == SlotOf(t)
           b == BlockSize \div SlotDuration
           c == SlotOf(t + BlockSize)
           d == SlotDuration
<1>1. d \in Nat \ {0} /\ BlockSize \in Nat
    BY WheelAssumption, BlockSizeType
<1>2. /\ a \in Nat /\ t = a * d
    BY <1>1, DivBounds DEF SlotOf
<1>3. /\ b \in Nat /\ BlockSize = b * d
  <2>1. BlockSize = b * d + (BlockSize % d) /\ b \in Nat
      BY <1>1, ModDef, DivBounds, Zenon
  <2>2. BlockSize % d = 0
      BY DEF BlockOfWholeSlots
  <2> HIDE DEF b, d
  <2>3. b * d \in Nat
      BY <1>1, <2>1, SMT
  <2>4. QED
      BY <2>1, <2>2, <2>3
<1>4. /\ c \in Nat /\ c * d <= t + BlockSize /\ t + BlockSize < (c + 1) * d
    BY <1>1, DivBounds DEF SlotOf
<1> HIDE DEF a, b, c, d
<1>5. t + BlockSize = (a + b) * d
    BY <1>1, <1>2, <1>3, SMT
<1>6. c = a + b
  <2>1. ~(c + 1 <= a + b)
    <3>1. c + 1 <= a + b => (c + 1) * d <= (a + b) * d
        BY <1>1, <1>2, <1>3, <1>4, TimesMonotone
    <3>2. (c + 1) * d \in Nat /\ (a + b) * d \in Nat
        BY <1>1, <1>2, <1>3, <1>4, TimesMonotone
    <3>3. QED
        BY <1>4, <1>5, <3>1, <3>2
  <2>2. ~(a + b + 1 <= c)
    <3>1. a + b + 1 <= c => (a + b + 1) * d <= c * d
        BY <1>1, <1>2, <1>3, <1>4, TimesMonotone
    <3>2. (a + b + 1) * d = (a + b) * d + d
        BY <1>1, <1>2, <1>3, SMT
    <3>3. (a + b) * d \in Nat /\ c * d \in Nat
        BY <1>1, <1>2, <1>3, <1>4, TimesMonotone
    <3>4. QED
        BY <1>1, <1>4, <1>5, <3>1, <3>2, <3>3
  <2>3. QED
      BY <1>2, <1>3, <1>4, <2>1, <2>2
<1>7. QED
    BY <1>5, <1>6 DEF c, d

\* The drain of the last block, and of those after it, leaves nothing in the ring.
LEMMA RingIsEmptied ==
    ASSUME LedgerInv, OnTimeInv, Covered, rpc \in {"tail", "closed"}, StopAdmitting
    PROVE  ingress = <<>>
<1>1. SUFFICES ASSUME ingress # <<>> PROVE FALSE
    OBVIOUS
<1>2. /\ TypeOK /\ SubmittedInOrder
      /\ pc = "admit" /\ admitBefore = AdmitLimit /\ ~Ready
      /\ slotIndex <= TargetIndex /\ TargetIndex <= slotIndex + NSlots
      /\ blockEnd = TargetIndex * SlotDuration /\ LastStart < blockEnd
    BY DEF StopAdmitting, LedgerInv, WheelInv, PhaseOK, OnTimeInv, InReach, Covered
<1>3. /\ slotIndex \in Nat /\ TargetIndex \in Nat /\ blockEnd \in Nat
      /\ NSlots \in Nat /\ SlotDuration \in Nat
      /\ AdmitLimit \in Nat
    BY <1>2, WheelTypes, WheelAssumption DEF TypeOK
<1>4. Head(ingress) \in Grains
  <2>1. ingress \in Seq(Grains)
      BY <1>2 DEF TypeOK
  <2>2. QED
      BY <1>1, <2>1
<1>5. /\ starts[Head(ingress)] \in Nat /\ LastStart \in Nat
      /\ starts[Head(ingress)] <= LastStart
    BY <1>2, <1>4, StartIsNat, LastIsLatest
<1>6. starts[Head(ingress)] >= AdmitLimit
    BY <1>1, <1>2, <1>3, <1>5 DEF Ready
<1>7. blockEnd <= AdmitLimit
  <2>1. TargetIndex * SlotDuration <= (slotIndex + NSlots) * SlotDuration
      BY <1>2, <1>3, TimesMonotone
  <2>2. (slotIndex + NSlots) * SlotDuration = slotIndex * SlotDuration + NSlots * SlotDuration
      BY <1>3, SMT
  <2>3. AdmitLimit = slotIndex * SlotDuration + NSlots * SlotDuration
      BY DEF AdmitLimit, WheelTime, Horizon
  <2>4. QED
      BY <1>2, <2>1, <2>2, <2>3
<1>8. QED
    BY <1>2, <1>3, <1>5, <1>6, <1>7

\* Every step of the renderer keeps the clock on the slots and, from the last
\* block on, past the last grain.
LEMMA NextCovered ==
    ASSUME BlockOfWholeSlots, LedgerInv, OnTimeInv, Covered, [OfflineNext]_allVars
    PROVE  Covered'
<1>1. /\ TypeOK /\ LoopPlace /\ SubmittedInOrder /\ blockEnd \in Nat
      /\ BlockSize \in Nat /\ LastStart \in Nat
      /\ blockEnd = SlotOf(blockEnd) * SlotDuration
    BY BlockSizeType, LastIsLatest
    DEF OnTimeInv, LedgerInv, WheelInv, TypeOK, Covered, TargetIndex
<1>2. CASE \E s \in 0 .. MaxStart, life \in Lifetimes : AddFof(s, life)
  <2>1. rpc' = "adding" /\ blockEnd' = blockEnd
      BY <1>2 DEF AddFof, Push
  <2>2. QED
      BY <2>1 DEF Covered, TargetIndex, SlotOf
<1>3. ASSUME NEW next \in {"adding", "covering", "tail"}, BeginBlock(next),
             next = "tail" => LastStart < blockEnd + BlockSize
      PROVE  Covered'
  <2>1. /\ blockEnd' = blockEnd + BlockSize /\ pc' = "admit" /\ rpc' = next
        /\ starts' = starts
      BY <1>1, <1>3 DEF BeginBlock, BeginDrain
  <2>2. blockEnd' = SlotOf(blockEnd') * SlotDuration
      BY <1>1, <2>1, StaysAligned
  <2>3. LastStart' = LastStart
      BY <2>1 DEF LastStart
  <2>4. QED
      BY <1>3, <2>1, <2>2, <2>3 DEF Covered, TargetIndex, SlotOf
<1>4. ASSUME UNCHANGED <<starts, blockEnd>>,
             rpc' \in {"last", "tail", "closed"} => rpc' = rpc,
             rpc \in {"tail", "closed"} /\ pc' # "admit" => ingress' = <<>>
      PROVE  Covered'
  <2>1. LastStart' = LastStart /\ TargetIndex' = TargetIndex
      BY <1>4 DEF LastStart, TargetIndex, SlotOf
  <2>2. QED
      BY <1>4, <2>1 DEF Covered
<1>5. CASE DrainStep
  <2>1. UNCHANGED <<starts, blockEnd, rpc>>
      BY <1>5 DEF DrainStep, Admit, StopAdmitting, FireSlot, FinishDrain, rendererVars
  <2>2. ASSUME rpc \in {"tail", "closed"}, pc' # "admit" PROVE ingress' = <<>>
    <3>1. CASE Admit
        BY <2>2, <3>1 DEF Admit
    <3>2. CASE StopAdmitting
      <4>1. ingress = <<>>
          BY <2>2, <3>2, RingIsEmptied
      <4>2. QED
          BY <3>2, <4>1 DEF StopAdmitting
    <3>3. CASE FireSlot \/ FinishDrain
        BY <2>2, <3>3 DEF FireSlot, FinishDrain, Covered
    <3>4. QED
        BY <1>5, <3>1, <3>2, <3>3 DEF DrainStep
  <2>3. QED
      BY <1>4, <2>1, <2>2
<1>6. ASSUME UNCHANGED vars, rpc' \in {"last", "tail", "closed"} => rpc' = rpc
      PROVE  Covered'
  <2>1. rpc \in {"tail", "closed"} /\ pc' # "admit" => ingress' = <<>>
      BY <1>6 DEF vars, Covered
  <2>2. QED
      BY <1>4, <1>6, <2>1 DEF vars
<1>7. CASE WheelFull \/ Close \/ Render \/ UNCHANGED allVars
    BY <1>6, <1>7 DEF WheelFull, Close, Goto, Render, allVars, rendererVars
<1>8. CASE AddLoop
  <2>1. CASE BeginBlock("adding")
      BY <1>3, <2>1
  <2>2. CASE Goto("open")
      BY <1>6, <2>2 DEF Goto
  <2>3. QED
      BY <1>8, <2>1, <2>2 DEF AddLoop
<1>9. CASE CoverLoop
  <2>1. CASE BeginBlock("covering")
      BY <1>3, <2>1
  <2>2. CASE ~(blockEnd + BlockSize <= LastStart) /\ Goto("last")
    <3>1. LastStart < blockEnd + BlockSize
        BY <1>1, <2>2
    <3>2. UNCHANGED <<starts, blockEnd>> /\ rpc' = "last"
        BY <2>2 DEF Goto, vars
    <3>3. LastStart' = LastStart /\ TargetIndex' = TargetIndex
        BY <3>2 DEF LastStart, TargetIndex, SlotOf
    <3>4. QED
        BY <3>1, <3>2, <3>3 DEF Covered
  <2>3. QED
      BY <1>9, <2>1, <2>2 DEF CoverLoop
<1>10. CASE LastBlock
  <2>1. LastStart < blockEnd + BlockSize
      BY <1>10 DEF LastBlock, At, Covered
  <2>2. QED
      BY <1>3, <1>10, <2>1 DEF LastBlock
<1>11. CASE TailLoop
  <2>1. rpc = "tail" /\ ~inBlock
      BY <1>11 DEF TailLoop, At
  <2>2. LastStart < blockEnd /\ pc = "idle" /\ ingress = <<>>
    <3>1. pc = "idle"
        BY <1>1, <2>1, Zenon DEF LoopPlace
    <3>2. QED
        BY <2>1, <3>1 DEF Covered
  <2>3. CASE BeginBlock("tail")
    <3>1. LastStart < blockEnd + BlockSize
        BY <1>1, <2>2
    <3>2. QED
        BY <1>3, <2>3, <3>1
  <2>4. CASE rpc' = "closed" /\ UNCHANGED vars
    <3>1. LastStart' = LastStart /\ TargetIndex' = TargetIndex
          /\ UNCHANGED <<blockEnd, ingress>>
        BY <2>4 DEF LastStart, TargetIndex, SlotOf, vars
    <3>2. QED
        BY <2>2, <2>4, <3>1 DEF Covered
  <2>5. QED
      BY <1>11, <2>3, <2>4 DEF TailLoop
<1>12. QED
    BY <1>2, <1>5, <1>7, <1>8, <1>9, <1>10, <1>11, RendererSteps

\* Every step keeps the time limit.
LEMMA NextCutAtLimit ==
    ASSUME CutAtLimit, [OfflineNext]_allVars
    PROVE  CutAtLimit'
<1>1. MaxExtra \in Nat
    BY OfflineAssumption
<1>2. CASE TailLoop
  <2>1. rpc = "tail" /\ extra \in 0 .. MaxExtra /\ cut = {}
      BY <1>2 DEF TailLoop, At, CutAtLimit
  <2>2. CASE extra < MaxExtra /\ living # <<>>
    <3>1. extra' = extra + 1 /\ cut' = cut
        BY <1>2, <2>2 DEF TailLoop, BeginBlock
    <3>2. QED
        BY <1>1, <2>1, <2>2, <3>1 DEF CutAtLimit
  <2>3. CASE ~(extra < MaxExtra /\ living # <<>>)
    <3>1. extra' = extra /\ cut' = DOMAIN living /\ rpc' = "closed"
        BY <1>2, <2>3 DEF TailLoop
    <3>2. cut' # {} => living # <<>>
        BY <3>1
    <3>3. cut' # {} => extra = MaxExtra
        BY <1>1, <2>1, <2>3, <3>2
    <3>4. QED
        BY <2>1, <3>1, <3>3 DEF CutAtLimit
  <2>4. QED
      BY <2>2, <2>3
<1>3. CASE ~TailLoop
  <2>1. extra' = extra /\ cut' = cut
      BY <1>3, RendererSteps DEF AddFof, WheelFull, Close, Goto, Render, AddLoop,
                  CoverLoop, LastBlock, BeginBlock, DrainStep, rendererVars, allVars
  <2>2. rpc = "closed" => rpc' = "closed"
      BY <1>3, RendererSteps DEF AddFof, WheelFull, Close, Goto, Render, AddLoop, At,
                  CoverLoop, LastBlock, BeginBlock, DrainStep, rendererVars, allVars
  <2>3. QED
      BY <2>1, <2>2 DEF CutAtLimit
<1>4. QED
    BY <1>2, <1>3

\* Nothing is covered or cut at the start.
LEMMA InitCovered == OfflineInit => Covered /\ CutAtLimit
<1>1. SUFFICES ASSUME OfflineInit PROVE Covered /\ CutAtLimit
    OBVIOUS
<1>2. blockEnd = 0 /\ rpc = "open" /\ extra = 0 /\ cut = {}
    BY <1>1 DEF OfflineInit, Init
<1>3. TargetIndex * SlotDuration = 0
    BY <1>2, SlotZero, WheelAssumption DEF TargetIndex
<1>4. QED
    BY <1>2, <1>3, OfflineAssumption DEF Covered, CutAtLimit

\* When the renderer is closed, the scheduler holds no grain any more.
LEMMA ClosedIsEmpty ==
    ASSUME LedgerInv, OnTimeInv, Covered, rpc = "closed", NEW g \in Grains
    PROVE  g \in fired \/ \E r \in Reasons : g \in rejected[r]
<1>1. /\ TypeOK /\ PhaseOK /\ SubmittedInOrder /\ NoneForgotten /\ WheelInv
      /\ pc = "idle" /\ ingress = <<>> /\ fireAt = 0
      /\ slotIndex = TargetIndex
      /\ blockEnd = TargetIndex * SlotDuration /\ LastStart < blockEnd
  <2>1. pc = "idle"
      BY Zenon DEF OnTimeInv, LoopPlace
  <2>2. QED
      BY <2>1 DEF LedgerInv, WheelInv, PhaseOK, OnTimeInv, InReach, Covered
<1>2. g <= Taken
  <2>1. Len(ingress) = 0 /\ Len(starts) \in Nat /\ g \in 1 .. Len(starts)
      BY <1>1 DEF TypeOK, Grains
  <2>2. QED
      BY <2>1 DEF Taken
<1>3. ~Placed(g)
  <2>1. SUFFICES ASSUME NEW i \in SlotIndices, NEW k \in DOMAIN slots[i], slots[i][k] = g
                 PROVE  FALSE
      BY DEF Placed
  <2>2. /\ starts[g] \in Nat /\ SlotOf(starts[g]) \in Nat
        /\ slotIndex + fireAt <= SlotOf(starts[g])
      BY <1>1, <2>1, PlacedGrain
  <2>3. starts[g] < blockEnd /\ blockEnd \in Nat
    <3>1. LastStart \in Nat /\ starts[g] <= LastStart
        BY <1>1, LastIsLatest
    <3>2. QED
        BY <1>1, <2>2, <3>1 DEF TypeOK
  <2>4. slotIndex \in Nat /\ slotIndex <= SlotOf(starts[g]) /\ SlotDuration \in Nat \ {0}
      BY <1>1, <2>2, WheelAssumption DEF TypeOK
  <2>5. /\ slotIndex * SlotDuration <= SlotOf(starts[g]) * SlotDuration
        /\ slotIndex * SlotDuration \in Nat /\ SlotOf(starts[g]) * SlotDuration \in Nat
      BY <2>2, <2>4, TimesMonotone
  <2>6. SlotOf(starts[g]) * SlotDuration <= starts[g]
      BY <2>2, <2>4, DivBounds DEF SlotOf
  <2>7. QED
      BY <1>1, <2>2, <2>3, <2>5, <2>6
<1>4. QED
    BY <1>1, <1>2, <1>3 DEF NoneForgotten

\* When close returns, every grain submitted has been handed to the engine or
\* refused for want of room in its slot, and has sounded to its end unless the
\* time limit cut it off (close: "until every scheduled and active FOF has fully
\* decayed").  That blocks are whole slots is needed: without it, as the run
\* OfflineRenderer_close shows, the slot of the last grain may not have elapsed.
THEOREM CloseRendersAll ==
    ASSUME BlockWithinHorizon, BlockOfWholeSlots
    PROVE  OfflineSpec => []CloseRendersEverything
<1>1. OfflineSpec => [](Covered /\ CutAtLimit)
  <2>1. LedgerInv /\ OnTimeInv /\ Covered /\ CutAtLimit /\ [OfflineNext]_allVars
           => Covered' /\ CutAtLimit'
      BY NextCovered, NextCutAtLimit
  <2>2. QED
      BY <2>1, RendererLedger, AlwaysOnTimeOffline, InitCovered, PTL DEF OfflineSpec
<1>2. LedgerInv /\ OnTimeInv /\ Covered /\ CutAtLimit => CloseRendersEverything
  <2>1. SUFFICES ASSUME LedgerInv, OnTimeInv, Covered, CutAtLimit, rpc = "closed"
                 PROVE  /\ Grains = fired \union rejected["slot_full"]
                        /\ cut # {} => extra = MaxExtra
      BY DEF CloseRendersEverything
  <2>2. rejected["too_late"] = {} /\ rejected["too_early"] = {}
      BY <2>1, OnTimeIsEnough
      DEF NothingTooLate, LedgerInv, WheelInv, TooEarlyUnreachable
  <2>3. fired \subseteq Grains /\ rejected["slot_full"] \subseteq Grains
      BY <2>1 DEF LedgerInv, WheelInv, TypeOK, Reasons
  <2>4. ASSUME NEW g \in Grains PROVE g \in fired \union rejected["slot_full"]
      BY <2>1, <2>2, ClosedIsEmpty DEF Reasons
  <2>5. QED
      BY <2>1, <2>3, <2>4 DEF CutAtLimit
<1>3. QED
    BY <1>1, <1>2, RendererLedger, AlwaysOnTimeOffline, PTL

=============================================================================
