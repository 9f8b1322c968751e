---------------------------- MODULE EngineProofs ----------------------------
(***************************************************************************)
(* Proofs about Engine: for any number of grains, kills, keys, block sizes *)
(* and jumps of the clock, the pool, the id map and the wheels' output     *)
(* keep their books (EngineInv), and, relative to these,                   *)
(*   - no grain is rendered whose onset lies beyond the block (WindowInv), *)
(*   - no kill is lost (KillInv),                                          *)
(*   - the scratch buffers never mix up two grains (MixInv).               *)
(***************************************************************************)
EXTENDS Engine, GrainProofs, FiniteSetTheorems, SequenceTheorems,
        WellFoundedInduction

-----------------------------------------------------------------------------
(* Functions, sequences and keys. *)

\* Sequences in which nothing occurs twice.
Distinct(s) == \A i, j \in DOMAIN s : s[i] = s[j] => i = j

\* The queue loses its head: the rest is what the range had besides, if nothing
\* occurred twice.
LEMMA TailOf ==
    ASSUME NEW S, NEW s \in Seq(S), s # <<>>
    PROVE  /\ Head(s) \in S /\ Tail(s) \in Seq(S)
           /\ Head(s) \in Range(s)
           /\ Range(s) = {Head(s)} \union Range(Tail(s))
           /\ Distinct(s) => Distinct(Tail(s)) /\ Head(s) \notin Range(Tail(s))
<1>1. /\ Head(s) \in S /\ Tail(s) \in Seq(S) /\ Len(s) \in Nat /\ Len(s) >= 1
      /\ Len(Tail(s)) = Len(s) - 1
      /\ \A i \in 1 .. Len(Tail(s)) : Tail(s)[i] = s[i + 1]
      /\ DOMAIN s = 1 .. Len(s) /\ DOMAIN Tail(s) = 1 .. Len(Tail(s))
      /\ Head(s) = s[1]
  BY HeadTailProperties
<1> DEFINE t == Tail(s)
           h == Head(s)
           n == Len(s)
<1>2. /\ n \in Nat /\ n >= 1 /\ DOMAIN s = 1 .. n /\ DOMAIN t = 1 .. n - 1
      /\ \A i \in 1 .. n - 1 : t[i] = s[i + 1]
      /\ h = s[1]
  BY <1>1
<1> HIDE DEF t, h, n
<1>3. h \in Range(s)
  BY <1>2 DEF Range
<1>4. \A x \in Range(t) : x \in Range(s)
  BY <1>2, SMTT(30) DEF Range
<1>5. ASSUME NEW x \in Range(s), x # h
      PROVE  x \in Range(t)
  <2>1. PICK i \in 1 .. n : x = s[i]
    BY <1>2 DEF Range
  <2>2. i - 1 \in 1 .. n - 1 /\ s[i] = t[i - 1]
    BY <1>2, <1>5, <2>1
  <2> QED
    BY <1>2, <2>1, <2>2 DEF Range
<1>6. ASSUME Distinct(s)
      PROVE  Distinct(t) /\ h \notin Range(t)
  <2>1. \A i, j \in 1 .. n - 1 : t[i] = t[j] => i = j
    <3>1. \A i, j \in 1 .. n - 1 : s[i + 1] = s[j + 1] => i + 1 = j + 1
      BY <1>2, <1>6, SMTT(30) DEF Distinct
    <3> QED
      BY <1>2, <3>1
  <2>2. \A i \in 1 .. n - 1 : t[i] # s[1]
    <3>1. \A i \in 1 .. n - 1 : s[i + 1] = s[1] => i + 1 = 1
      BY <1>2, <1>6 DEF Distinct
    <3> QED
      BY <1>2, <3>1
  <2> QED
    BY <1>2, <2>1, <2>2 DEF Distinct, Range
<1> QED
  BY <1>1, <1>3, <1>4, <1>5, <1>6 DEF t, h

\* An element more at the end.
LEMMA AppendOf ==
    ASSUME NEW S, NEW s \in Seq(S), NEW x \in S
    PROVE  /\ Append(s, x) \in Seq(S)
           /\ Len(Append(s, x)) = Len(s) + 1
           /\ Range(Append(s, x)) = Range(s) \union {x}
<1> DEFINE t == Append(s, x)
           n == Len(s)
<1>1. /\ t \in Seq(S) /\ n \in Nat /\ Len(t) = n + 1
      /\ DOMAIN s = 1 .. n /\ DOMAIN t = 1 .. n + 1
      /\ \A i \in 1 .. n : t[i] = s[i]
      /\ t[n + 1] = x
  BY AppendProperties
<1> HIDE DEF t, n
<1>2. \A i \in 1 .. n + 1 : i \in 1 .. n \/ i = n + 1
  BY <1>1
<1>3. n + 1 \in 1 .. n + 1 /\ \A i \in 1 .. n : i \in 1 .. n + 1
  BY <1>1
<1>4. \A y : y \in Range(t) <=> y \in Range(s) \/ y = x
  BY <1>1, <1>2, <1>3, Zenon DEF Range
<1>5. Range(t) = Range(s) \union {x}
  BY <1>4
<1> QED
  BY <1>1, <1>5 DEF t, n

\* Counting off a finite set without repeating oneself misses nothing.
LEMMA Enumerates ==
    ASSUME NEW S, IsFiniteSet(S), NEW s \in [1 .. Cardinality(S) -> S], Distinct(s)
    PROVE  s \in Seq(S) /\ Range(s) = S
<1> DEFINE n == Cardinality(S)
<1>1. n \in Nat
  BY FS_CardinalityType
<1>2. IsFiniteSet(1 .. n) /\ Cardinality(1 .. n) = n
  <2>1. 0 \in Int /\ 1 \in Int /\ n \in Int
    BY <1>1
  <2>2. IsFiniteSet(1 .. n) /\ Cardinality(1 .. n) = IF 1 > n THEN 0 ELSE n - 1 + 1
    BY <2>1, FS_Interval
  <2> HIDE DEF n
  <2> QED
    BY <1>1, <2>2
<1>3. s \in Injection(1 .. n, S)
  BY DEF Distinct, Injection, IsInjective
<1>4. s \in Surjection(1 .. n, S)
  BY <1>2, <1>3, FS_Injection
<1>5. Range(s) = S
  BY <1>4 DEF Surjection, Range
<1>6. s \in Seq(S)
  <2> HIDE DEF n
  <2> QED
    BY <1>1, FunctionIsSequence DEF n
<1> QED
  BY <1>5, <1>6

\* A set of natural numbers that is not empty has a least element.
LEMMA LeastExists ==
    ASSUME NEW S \in SUBSET Nat, S # {}
    PROVE  \E k \in S : \A j \in S : k <= j
<1>1. PICK k \in S : \A j \in S : ~ (<<j, k>> \in OpToRel(<, Nat))
  BY NatLessThanWellFounded, WFMin
<1>2. \A j \in S : ~(j < k)
  BY <1>1 DEF OpToRel
<1> QED
  BY <1>2

-----------------------------------------------------------------------------
(* The engine keeps its books. *)

Requests == [id : Ids \union {NoId}, start : Starts, decay : Decays]

ClockOK ==
    /\ world \in Worlds
    /\ pc \in {"idle", "drain_kills", "spawn", "kill", "fill"}
    /\ blockStart \in Nat /\ clock \in Nat /\ killsSent \in Nat
    /\ pc # "idle" => blockStart < clock

\* A grain is scheduled, on its way into the pool or in it, never two of these
\* at once; nothing is on its way once the spawn loop is over.
LedgerOK ==
    /\ sent \in Seq(Requests) /\ Len(sent) <= MaxGrains
    /\ scheduled \subseteq Grains
    /\ incoming \in Seq(Grains) /\ Distinct(incoming)
    /\ finished \subseteq Grains /\ dropped \subseteq Grains /\ doomed \subseteq Grains
    /\ Range(incoming) \intersect Active = {}
    /\ scheduled \intersect Alive = {}
    /\ pc \in {"kill", "fill", "idle"} => incoming = <<>>

QueuesOK ==
    /\ killQueue \in Seq(Ids) /\ Len(killQueue) <= KillCapacity
    /\ killRequests \in Seq(Ids)
    /\ pc \in {"idle", "drain_kills", "fill"} => killRequests = <<>>

\* No grain sits under two keys, and the pool, the grains' states and the id map
\* agree.
PoolOK ==
    /\ active \in [DOMAIN active -> Grains] /\ DOMAIN active \subseteq Keys
    /\ Active \subseteq Grains /\ Distinct(active)
    /\ DOMAIN fof = Active /\ \A g \in Active : fof[g] \in GrainStates
    /\ DOMAIN idMap \subseteq Ids
    /\ IdMapSound

\* The keys that are still to be rendered are occupied.
MixOK ==
    /\ activeKeys \in Seq(Keys) /\ Range(activeKeys) \subseteq DOMAIN active
    /\ DOMAIN outputs = ChannelsOf(PanMode)
    /\ \A c \in DOMAIN outputs : outputs[c] \subseteq Grains \X Grains
    /\ mono \subseteq Grains
    /\ DOMAIN gains = ChannelsOf(PanMode)
    /\ \A c \in DOMAIN gains : gains[c] \subseteq Grains

\* The inductive invariant.
EngineInv == ClockOK /\ LedgerOK /\ QueuesOK /\ PoolOK /\ MixOK

\* It implies what the runs check.
LEMMA EngineInvImplies ==
    EngineInv => TypeOK /\ IdMapSound
<1> SUFFICES ASSUME EngineInv PROVE TypeOK
  BY DEF EngineInv, PoolOK
<1>1. \A id \in DOMAIN idMap : idMap[id] \in Keys
  BY DEF EngineInv, PoolOK, IdMapSound
<1> QED
  BY <1>1 DEF EngineInv, ClockOK, LedgerOK, QueuesOK, PoolOK, MixOK, TypeOK, Requests

\* Nothing happens before the first block.
LEMMA EngineStarts == Init => EngineInv
<1> SUFFICES ASSUME Init PROVE EngineInv
  OBVIOUS
<1>1. Active = {} /\ Range(incoming) = {} /\ Range(activeKeys) = {}
  BY DEF Init, Active, Range
<1>2. ClockOK
  BY DEF Init, ClockOK
<1>3. LedgerOK
  <2>1. Distinct(incoming) /\ incoming \in Seq(Grains) /\ sent \in Seq(Requests)
    BY DEF Init, Distinct
  <2>2. Len(sent) = 0 /\ MaxGrains \in Nat
    BY EngineAssumption DEF Init
  <2> QED
    BY <1>1, <2>1, <2>2 DEF Init, LedgerOK, Alive
<1>4. QueuesOK
  BY EngineAssumption DEF Init, QueuesOK
<1>5. PoolOK
  BY <1>1 DEF Init, PoolOK, IdMapSound, Distinct
<1>6. MixOK
  BY <1>1 DEF Init, MixOK, Silence
<1> QED
  BY <1>2, <1>3, <1>4, <1>5, <1>6 DEF EngineInv

\* A pool with a grain still outside it has a vacant key.
LEMMA VacantKey ==
    ASSUME LedgerOK, PoolOK, incoming # <<>>
    PROVE  /\ NextKey \in Keys /\ NextKey \notin DOMAIN active
<1> DEFINE h == Head(incoming)
           others == Grains \ {h}
<1>1. h \in Grains /\ h \notin Active
  <2>1. h \in Grains /\ h \in Range(incoming)
    BY TailOf DEF LedgerOK
  <2> QED
    BY <2>1 DEF LedgerOK
<1>2. Len(sent) \in Nat /\ Len(sent) <= MaxGrains /\ MaxGrains \in Nat
  BY EngineAssumption DEF LedgerOK
<1>3. IsFiniteSet(Grains) /\ Cardinality(Grains) = Len(sent)
  <2>1. IsFiniteSet(1 .. Len(sent))
        /\ Cardinality(1 .. Len(sent)) = IF 1 > Len(sent) THEN 0 ELSE Len(sent) - 1 + 1
    <3>1. 1 \in Int /\ Len(sent) \in Int
      BY <1>2
    <3> QED
      BY <3>1, FS_Interval, Zenon
  <2> QED
    BY <1>2, <2>1 DEF Grains
<1>4. IsFiniteSet(others) /\ Cardinality(others) = Len(sent) - 1
  BY <1>1, <1>3, FS_RemoveElement
<1>5. active \in Injection(DOMAIN active, others)
  <2>1. active \in [DOMAIN active -> others]
    <3>1. \A k \in DOMAIN active : active[k] \in Active
      BY DEF Active
    <3>2. \A k \in DOMAIN active : active[k] \in others
      BY <1>1, <3>1 DEF PoolOK
    <3> QED
      BY <3>2 DEF PoolOK
  <2> QED
    BY <2>1 DEF PoolOK, Distinct, Injection, IsInjective
<1>6. IsFiniteSet(DOMAIN active) /\ Cardinality(DOMAIN active) <= Len(sent) - 1
  BY <1>4, <1>5, FS_Injection
<1>7. Keys \ DOMAIN active # {}
  <2> SUFFICES ASSUME Keys \ DOMAIN active = {} PROVE FALSE
    OBVIOUS
  <2>1. Keys = DOMAIN active
    BY DEF PoolOK
  <2>2. Cardinality(Keys) \in Nat /\ Cardinality(Keys) <= Len(sent) - 1
    BY <1>6, <2>1, FS_CardinalityType
  <2>3. Cardinality(Keys) >= MaxGrains
    BY EngineAssumption
  <2> QED
    BY <1>2, <2>2, <2>3
<1>8. \E k \in Keys \ DOMAIN active : \A j \in Keys \ DOMAIN active : k <= j
  BY <1>7, LeastExists, EngineAssumption
<1> QED
  BY <1>8 DEF NextKey

-----------------------------------------------------------------------------
(* Every step keeps the books. *)

\* What the wheel hands over comes as a sequence of just these grains.
LEMMA FireListed ==
    ASSUME NEW fire \in SUBSET Grains, NEW s \in Listings(fire, FiresBefore), LedgerOK
    PROVE  s \in Seq(fire) /\ Range(s) = fire /\ Distinct(s)
<1>1. IsFiniteSet(fire)
  <2>1. Len(sent) \in Int /\ 1 \in Int
    BY DEF LedgerOK
  <2>2. IsFiniteSet(Grains)
    BY <2>1, FS_Interval, Zenon DEF Grains
  <2> QED
    BY <2>2, FS_Subset
<1>2. /\ s \in [1 .. Cardinality(fire) -> fire]
      /\ \A i, j \in DOMAIN s : i < j => FiresBefore(s[i], s[j])
  BY DEF Listings
<1>3. \A g \in fire : ~FiresBefore(g, g)
  <2> TAKE g \in fire
  <2>1. sent[g] \in Requests /\ g \in Nat
    BY DEF LedgerOK, Grains
  <2>2. sent[g].start \in Nat
    BY <2>1, EngineAssumption DEF Requests
  <2>3. sent[g].start \div SlotDuration \in Int
    BY <2>2, EngineAssumption
  <2> DEFINE slot == sent[g].start \div SlotDuration
  <2>4. slot \in Int /\ g \in Nat
    BY <2>1, <2>3
  <2> HIDE DEF slot
  <2>5. ~(slot < slot) /\ ~(g < g)
    BY <2>4
  <2> QED
    BY <2>5, Zenon DEF FiresBefore, slot
<1>4. Cardinality(fire) \in Nat
  BY <1>1, FS_CardinalityType
<1>5. Distinct(s)
  <2> SUFFICES ASSUME NEW i \in DOMAIN s, NEW j \in DOMAIN s, s[i] = s[j], i # j
               PROVE  FALSE
    BY DEF Distinct
  <2>1. i < j \/ j < i
    BY <1>2, <1>4
  <2>2. s[i] \in fire /\ s[j] \in fire
    BY <1>2
  <2> QED
    BY <1>2, <1>3, <2>1, <2>2, Zenon
<1> QED
  BY <1>1, <1>2, <1>5, Enumerates

\* The keys to be rendered are those of the whole slab.
LEMMA KeysListed ==
    ASSUME LedgerOK, PoolOK
    PROVE  \A s \in Listings(DOMAIN active, <) :
              s \in Seq(DOMAIN active) /\ Range(s) = DOMAIN active
<1> SUFFICES ASSUME NEW s \in [1 .. Cardinality(DOMAIN active) -> DOMAIN active],
                    \A i, j \in DOMAIN s : i < j => s[i] < s[j]
             PROVE  s \in Seq(DOMAIN active) /\ Range(s) = DOMAIN active
  BY DEF Listings
<1>1. IsFiniteSet(DOMAIN active)
  <2>1. Len(sent) \in Int /\ 1 \in Int
    BY DEF LedgerOK
  <2>2. IsFiniteSet(Grains)
    BY <2>1, FS_Interval, Zenon DEF Grains
  <2>3. active \in Injection(DOMAIN active, Grains)
    BY DEF PoolOK, Distinct, Injection, IsInjective
  <2> QED
    BY <2>2, <2>3, FS_Injection
<1>2. Cardinality(DOMAIN active) \in Nat
  BY <1>1, FS_CardinalityType
<1>3. Distinct(s)
  <2> SUFFICES ASSUME NEW i \in DOMAIN s, NEW j \in DOMAIN s, s[i] = s[j], i # j
               PROVE  FALSE
    BY DEF Distinct
  <2>1. i < j \/ j < i
    BY <1>2
  <2>2. s[i] \in Nat /\ s[j] \in Nat
    BY EngineAssumption DEF PoolOK
  <2>3. s[i] < s[j] \/ s[j] < s[i]
    BY <2>1
  <2> QED
    BY <2>2, <2>3
<1> QED
  BY <1>1, <1>3, Enumerates

\* The client submits a grain.
LEMMA PushFofKeeps ==
    ASSUME EngineInv, NEW id \in Ids \union {NoId}, NEW s \in Starts, NEW decay \in Decays,
           PushFof(id, s, decay)
    PROVE  EngineInv'
<1> DEFINE request == [id |-> id, start |-> s, decay |-> decay]
           n == Len(sent)
<1>1. request \in Requests
  BY DEF Requests
<1>2. /\ sent \in Seq(Requests) /\ n \in Nat /\ n < MaxGrains /\ MaxGrains \in Nat
  BY EngineAssumption DEF EngineInv, LedgerOK, PushFof
<1>3. sent' = Append(sent, request) /\ scheduled' = scheduled \union {n + 1}
  BY DEF PushFof
<1>4. sent' \in Seq(Requests) /\ Len(sent') = n + 1
  BY <1>1, <1>2, <1>3, AppendProperties
<1> HIDE DEF request, n
<1>5. Grains \subseteq Grains' /\ n + 1 \in Grains' /\ n + 1 \notin Grains
  BY <1>2, <1>4 DEF Grains, n
<1>6. Active' = Active /\ Alive' = Alive
  BY DEF PushFof, pool, Active, Alive
<1>7. ClockOK'
  BY DEF EngineInv, ClockOK, PushFof, clocks
<1>8. QueuesOK'
  BY DEF EngineInv, QueuesOK, PushFof
<1>9. Active \subseteq Grains /\ Range(incoming) \subseteq Grains
  BY DEF EngineInv, PoolOK, LedgerOK, Range
<1>10. LedgerOK'
  <2>1. scheduled' \subseteq Grains' /\ incoming' \in Seq(Grains')
    BY <1>3, <1>5 DEF EngineInv, LedgerOK, PushFof
  <2>2. finished' \subseteq Grains' /\ dropped' \subseteq Grains' /\ doomed' \subseteq Grains'
    BY <1>5 DEF EngineInv, LedgerOK, PushFof, fates
  <2>3. Distinct(incoming') /\ Range(incoming') \intersect Active' = {}
        /\ (pc' \in {"kill", "fill", "idle"} => incoming' = <<>>)
    BY <1>6 DEF EngineInv, LedgerOK, PushFof
  <2>4. scheduled' \intersect Alive' = {}
    BY <1>3, <1>5, <1>6, <1>9 DEF EngineInv, LedgerOK, Alive
  <2>5. Len(sent') <= MaxGrains
    BY <1>2, <1>4
  <2> QED
    BY <1>4, <2>1, <2>2, <2>3, <2>4, <2>5 DEF LedgerOK, Distinct
<1>11. PoolOK'
  <2>1. /\ active' \in [DOMAIN active' -> Grains'] /\ DOMAIN active' \subseteq Keys
        /\ Active' \subseteq Grains' /\ Distinct(active')
        /\ DOMAIN fof' = Active' /\ \A g \in Active' : fof'[g] \in GrainStates
        /\ DOMAIN idMap' \subseteq Ids
    BY <1>5, <1>6 DEF EngineInv, PoolOK, PushFof, pool
  <2>2. IdMapSound'
    <3>1. \A g \in Grains : sent'[g] = sent[g]
      BY <1>1, <1>2, <1>3, AppendProperties DEF Grains, n
    <3>2. \A k \in DOMAIN active : active[k] \in Grains
      BY DEF EngineInv, PoolOK
    <3> QED
      BY <3>1, <3>2 DEF EngineInv, PoolOK, IdMapSound, PushFof, pool
  <2> QED
    BY <2>1, <2>2 DEF PoolOK, Distinct
<1>12. MixOK'
  BY <1>5 DEF EngineInv, MixOK, PushFof, mixed, pool
<1> QED
  BY <1>7, <1>8, <1>10, <1>11, <1>12 DEF EngineInv

\* The client asks for a kill.
LEMMA PushKillKeeps ==
    ASSUME EngineInv, NEW id \in Ids, PushKill(id)
    PROVE  EngineInv'
<1>1. Active' = Active /\ Alive' = Alive /\ Grains' = Grains
  BY DEF PushKill, pool, Active, Alive, Grains
<1>2. ClockOK'
  BY DEF EngineInv, ClockOK, PushKill, clocks
<1>3. LedgerOK'
  <2>1. Alive \subseteq Grains
    BY DEF EngineInv, PoolOK, LedgerOK, Alive, Range
  <2>2. doomed' \subseteq Grains
    BY <2>1 DEF EngineInv, LedgerOK, PushKill
  <2> QED
    BY <1>1, <2>2 DEF EngineInv, LedgerOK, PushKill, Distinct
<1>4. QueuesOK'
  <2>1. killQueue \in Seq(Ids) /\ Len(killQueue) \in Nat /\ KillCapacity \in Nat
    BY EngineAssumption DEF EngineInv, QueuesOK
  <2>2. killQueue' \in Seq(Ids) /\ Len(killQueue') = Len(killQueue) + 1
    BY <2>1, AppendProperties DEF PushKill
  <2> QED
    BY <2>1, <2>2 DEF EngineInv, QueuesOK, PushKill
<1>5. PoolOK'
  BY <1>1 DEF EngineInv, PoolOK, IdMapSound, Distinct, PushKill, pool
<1>6. MixOK'
  BY <1>1 DEF EngineInv, MixOK, PushKill, mixed, pool
<1> QED
  BY <1>2, <1>3, <1>4, <1>5, <1>6 DEF EngineInv

\* Nothing but the clocks, the wheel and the grains on their way is touched by a
\* drain of the wheels.
LEMMA DrainWheelsKeeps ==
    ASSUME EngineInv, NEW d \in Drifts, NEW n \in BlockSizes,
           NEW fire \in SUBSET MayLeave(clock + d + n),
           NEW drop \in SUBSET (scheduled \ fire),
           DrainWheels(d, n, fire, drop)
    PROVE  EngineInv'
<1>1. d \in Int /\ n \in Nat /\ n > 0 /\ clock \in Nat
  <2>1. world \in Worlds
    BY DEF EngineInv, ClockOK
  <2> QED
    BY <2>1, EngineAssumption DEF EngineInv, ClockOK, Drifts
<1>2. Active' = Active /\ Grains' = Grains
  BY DEF DrainWheels, pool, Active, Grains
<1>3. ClockOK'
  BY <1>1 DEF EngineInv, ClockOK, DrainWheels
<1>4. LedgerOK'
  <2>1. fire \subseteq scheduled /\ drop \subseteq scheduled /\ scheduled \subseteq Grains
    BY DEF MayLeave, EngineInv, LedgerOK
  <2>2. incoming' \in Seq(fire) /\ Range(incoming') = fire /\ Distinct(incoming')
    BY <2>1, FireListed DEF EngineInv, DrainWheels
  <2>3. incoming' \in Seq(Grains)
    BY <2>1, <2>2
  <2>4. scheduled' = scheduled \ (fire \union drop) /\ dropped' = dropped \union drop
    BY DEF DrainWheels
  <2>5. Range(incoming') \intersect Active = {}
    BY <2>1, <2>2 DEF EngineInv, LedgerOK, Alive
  <2>6. scheduled' \intersect Alive' = {}
    BY <1>2, <2>1, <2>2, <2>4 DEF EngineInv, LedgerOK, Alive
  <2>7. pc' \notin {"kill", "fill", "idle"}
    BY DEF DrainWheels
  <2>8. sent' = sent /\ finished' = finished /\ doomed' = doomed
    BY DEF DrainWheels
  <2> QED
    BY <1>2, <2>1, <2>2, <2>3, <2>4, <2>5, <2>6, <2>7, <2>8
       DEF EngineInv, LedgerOK, Distinct
<1>5. QueuesOK'
  BY DEF EngineInv, QueuesOK, DrainWheels
<1>6. PoolOK'
  BY <1>2 DEF EngineInv, PoolOK, IdMapSound, Distinct, DrainWheels, pool
<1>7. MixOK'
  BY <1>2 DEF EngineInv, MixOK, DrainWheels, mixed, pool
<1> QED
  BY <1>3, <1>4, <1>5, <1>6, <1>7 DEF EngineInv

\* The kill requests move from the queue to the scratch vector.
LEMMA DrainKillsKeeps ==
    ASSUME EngineInv, DrainKills
    PROVE  EngineInv'
<1>1. Active' = Active /\ Alive' = Alive /\ Grains' = Grains
  BY DEF DrainKills, pool, Active, Alive, Grains
<1>2. ClockOK'
  BY DEF EngineInv, ClockOK, DrainKills, clocks
<1>3. LedgerOK'
  BY <1>1 DEF EngineInv, LedgerOK, DrainKills, Distinct, fates
<1>4. QueuesOK'
  <2>1. killQueue' = <<>> /\ <<>> \in Seq(Ids) /\ Len(<<>>) = 0
    BY DEF DrainKills
  <2> QED
    BY <2>1, EngineAssumption DEF EngineInv, QueuesOK, DrainKills
<1>5. PoolOK'
  BY <1>1 DEF EngineInv, PoolOK, IdMapSound, Distinct, DrainKills, pool
<1>6. MixOK'
  BY <1>1 DEF EngineInv, MixOK, DrainKills, mixed, pool
<1> QED
  BY <1>2, <1>3, <1>4, <1>5, <1>6 DEF EngineInv

\* What a turn of the spawn loop does to the pool and the grains on their way:
\* the first of them takes a vacant key.
LEMMA SpawnOneMoves ==
    ASSUME EngineInv, SpawnOne
    PROVE  LET g == Head(incoming)
               k == NextKey
               id == sent[g].id
           IN  /\ g \in Grains /\ g \notin Active /\ g \notin scheduled
               /\ k \in Keys /\ k \notin DOMAIN active
               /\ id \in Ids \union {NoId}
               /\ Range(incoming) = {g} \union Range(incoming')
               /\ g \notin Range(incoming')
               /\ incoming' \in Seq(Grains) /\ Distinct(incoming')
               /\ DOMAIN active' = DOMAIN active \union {k} /\ active'[k] = g
               /\ \A j \in DOMAIN active : active'[j] = active[j]
               /\ Active' = Active \union {g}
               /\ DOMAIN fof' = DOMAIN fof \union {g} /\ fof'[g] \in GrainStates
               /\ \A h \in DOMAIN fof : h # g => fof'[h] = fof[h]
               /\ id = NoId => idMap' = idMap
               /\ id # NoId =>
                     /\ DOMAIN idMap' = DOMAIN idMap \union {id} /\ idMap'[id] = k
                     /\ \A i \in DOMAIN idMap : i # id => idMap'[i] = idMap[i]
<1> DEFINE g == Head(incoming)
           k == NextKey
           id == sent[g].id
           state == Spawn(0, sent[g].decay, Fade)
<1>1. /\ incoming \in Seq(Grains) /\ incoming # <<>> /\ Distinct(incoming)
      /\ incoming' = Tail(incoming)
  BY DEF EngineInv, LedgerOK, SpawnOne
<1>2. /\ g \in Grains /\ g \in Range(incoming)
      /\ Range(incoming) = {g} \union Range(incoming')
      /\ g \notin Range(incoming')
      /\ incoming' \in Seq(Grains) /\ Distinct(incoming')
  BY <1>1, TailOf
<1>3. g \notin Active /\ g \notin scheduled
  BY <1>2 DEF EngineInv, LedgerOK, Alive
<1>4. k \in Keys /\ k \notin DOMAIN active
  BY <1>1, VacantKey DEF EngineInv
<1>5. /\ active' = With(active, k, g) /\ fof' = With(fof, g, state)
      /\ idMap' = IF id = NoId THEN idMap ELSE With(idMap, id, k)
  BY DEF SpawnOne
<1>6. sent[g] \in Requests
  BY <1>2 DEF EngineInv, LedgerOK, Grains
<1>7. id \in Ids \union {NoId} /\ state \in GrainStates
  <2>1. sent[g].decay \in U32 /\ Fade \in U32 /\ 0 \in U32
    <3>1. sent[g].decay \in Decays
      BY <1>6 DEF Requests
    <3>2. 0 \in U32
      BY WidthAssumption DEF U32
    <3> QED
      BY <3>1, <3>2, EngineAssumption
  <2>2. state \in GrainStates
    BY <2>1, SpawnType, Zenon
  <2> QED
    BY <1>6, <2>2 DEF Requests
<1> HIDE DEF g, k, id, state
<1>8. /\ DOMAIN active' = DOMAIN active \union {k} /\ active'[k] = g
      /\ \A j \in DOMAIN active : active'[j] = active[j]
  BY <1>4, <1>5 DEF With
<1>9. /\ DOMAIN fof' = DOMAIN fof \union {g} /\ fof'[g] \in GrainStates
      /\ \A h \in DOMAIN fof : h # g => fof'[h] = fof[h]
  BY <1>5, <1>7 DEF With
<1>10. /\ id = NoId => idMap' = idMap
       /\ id # NoId =>
             /\ DOMAIN idMap' = DOMAIN idMap \union {id} /\ idMap'[id] = k
             /\ \A i \in DOMAIN idMap : i # id => idMap'[i] = idMap[i]
  BY <1>5 DEF With
<1>11. Active' = Active \union {g}
  BY <1>8 DEF Active
<1> QED
  BY <1>2, <1>3, <1>4, <1>7, <1>8, <1>9, <1>10, <1>11 DEF g, k, id

\* A turn of the spawn loop.
LEMMA SpawnOneKeeps ==
    ASSUME EngineInv, SpawnOne
    PROVE  EngineInv'
<1> DEFINE g == Head(incoming)
           k == NextKey
           id == sent[g].id
<1>1. /\ g \in Grains /\ g \notin Active /\ g \notin scheduled
      /\ k \in Keys /\ k \notin DOMAIN active
      /\ id \in Ids \union {NoId}
      /\ Range(incoming) = {g} \union Range(incoming')
      /\ g \notin Range(incoming')
      /\ incoming' \in Seq(Grains) /\ Distinct(incoming')
      /\ DOMAIN active' = DOMAIN active \union {k} /\ active'[k] = g
      /\ \A j \in DOMAIN active : active'[j] = active[j]
      /\ Active' = Active \union {g}
      /\ DOMAIN fof' = DOMAIN fof \union {g} /\ fof'[g] \in GrainStates
      /\ \A h \in DOMAIN fof : h # g => fof'[h] = fof[h]
      /\ id = NoId => idMap' = idMap
      /\ id # NoId =>
            /\ DOMAIN idMap' = DOMAIN idMap \union {id} /\ idMap'[id] = k
            /\ \A i \in DOMAIN idMap : i # id => idMap'[i] = idMap[i]
  BY SpawnOneMoves
<1> HIDE DEF g, k
<1>2. Grains' = Grains /\ sent' = sent
  BY DEF SpawnOne, Grains
<1>3. Alive' = Alive
  BY <1>1 DEF Alive
<1>4. ClockOK'
  BY DEF EngineInv, ClockOK, SpawnOne, clocks
<1>5. LedgerOK'
  <2>1. Range(incoming') \intersect Active' = {}
    BY <1>1 DEF EngineInv, LedgerOK
  <2>2. pc' \notin {"kill", "fill", "idle"}
    BY DEF SpawnOne
  <2> QED
    BY <1>1, <1>2, <1>3, <2>1, <2>2 DEF EngineInv, LedgerOK, SpawnOne, fates
<1>6. QueuesOK'
  BY DEF EngineInv, QueuesOK, SpawnOne
<1>7. PoolOK'
  <2>1. /\ DOMAIN active \subseteq Keys /\ Active \subseteq Grains /\ Distinct(active)
        /\ active \in [DOMAIN active -> Grains]
        /\ DOMAIN fof = Active /\ \A h \in Active : fof[h] \in GrainStates
        /\ DOMAIN idMap \subseteq Ids /\ IdMapSound
    BY DEF EngineInv, PoolOK
  <2>2. Distinct(active')
    <3>1. \A j \in DOMAIN active : active[j] # g
      BY <1>1 DEF Active
    <3> QED
      BY <1>1, <2>1, <3>1 DEF Distinct
  <2>3. active' \in [DOMAIN active' -> Grains']
    <3>1. active' = [z \in DOMAIN active' |-> active'[z]]
      BY DEF SpawnOne, With
    <3>2. \A z \in DOMAIN active' : active'[z] \in Grains'
      BY <1>1, <1>2, <2>1
    <3> QED
      BY <3>1, <3>2
  <2>4. \A h \in Active' : fof'[h] \in GrainStates
    BY <1>1, <2>1
  <2>5. DOMAIN idMap' \subseteq Ids
    BY <1>1, <2>1
  <2>6. \A i \in DOMAIN idMap' :
           /\ idMap'[i] \in DOMAIN active'
           /\ sent[active'[idMap'[i]]].id = i
    BY <1>1, <2>1 DEF IdMapSound
  <2> QED
    BY <1>1, <1>2, <2>1, <2>2, <2>3, <2>4, <2>5, <2>6 DEF PoolOK, IdMapSound
<1>8. MixOK'
  BY <1>1, <1>2 DEF EngineInv, MixOK, SpawnOne, mixed
<1> QED
  BY <1>4, <1>5, <1>6, <1>7, <1>8 DEF EngineInv

\* The end of the spawn loop.
LEMMA SpawnDoneKeeps ==
    ASSUME EngineInv, SpawnDone
    PROVE  EngineInv'
<1>1. Active' = Active /\ Alive' = Alive /\ Grains' = Grains
  BY DEF SpawnDone, pool, Active, Alive, Grains
<1>2. ClockOK'
  BY DEF EngineInv, ClockOK, SpawnDone, clocks
<1>3. LedgerOK'
  BY <1>1 DEF EngineInv, LedgerOK, SpawnDone, Distinct, fates
<1>4. QueuesOK'
  BY DEF EngineInv, QueuesOK, SpawnDone
<1>5. PoolOK'
  BY <1>1 DEF EngineInv, PoolOK, IdMapSound, Distinct, SpawnDone, pool
<1>6. MixOK'
  BY <1>1 DEF EngineInv, MixOK, SpawnDone, mixed, pool
<1> QED
  BY <1>2, <1>3, <1>4, <1>5, <1>6 DEF EngineInv

\* A turn of the kill loop.
LEMMA KillOneKeeps ==
    ASSUME EngineInv, KillOne
    PROVE  EngineInv'
<1>1. Active' = Active /\ Alive' = Alive /\ Grains' = Grains
  BY DEF KillOne, Active, Alive, Grains
<1>2. ClockOK'
  BY DEF EngineInv, ClockOK, KillOne, clocks
<1>3. LedgerOK'
  BY <1>1 DEF EngineInv, LedgerOK, KillOne, Distinct, fates
<1>4. QueuesOK'
  <2>1. killRequests' \in Seq(Ids)
    BY TailOf DEF EngineInv, QueuesOK, KillOne
  <2>2. pc' \notin {"idle", "drain_kills", "fill"}
    BY DEF KillOne
  <2> QED
    BY <2>1, <2>2 DEF EngineInv, QueuesOK, KillOne
<1>5. PoolOK'
  <2>1. DOMAIN fof' = Active /\ \A g \in Active : fof'[g] \in GrainStates
    <3>1. DOMAIN fof = Active /\ \A g \in Active : fof[g] \in GrainStates
      BY DEF EngineInv, PoolOK
    <3>2. CASE Head(killRequests) \in DOMAIN idMap
      <4> DEFINE target == active[idMap[Head(killRequests)]]
      <4>1. fof' = [fof EXCEPT ![target] = TriggerFadeOut(@, Fade)]
        BY <3>2 DEF KillOne
      <4> HIDE DEF target
      <4>2. \A g \in Active : TriggerFadeOut(fof[g], Fade) \in GrainStates
        BY <3>1, TriggerFadeOutType, EngineAssumption
      <4> QED
        BY <3>1, <4>1, <4>2
    <3>3. CASE Head(killRequests) \notin DOMAIN idMap
      BY <3>1, <3>3 DEF KillOne
    <3> QED
      BY <3>2, <3>3
  <2> QED
    BY <1>1, <2>1 DEF EngineInv, PoolOK, IdMapSound, Distinct, KillOne
<1>6. MixOK'
  BY <1>1 DEF EngineInv, MixOK, KillOne, mixed
<1> QED
  BY <1>2, <1>3, <1>4, <1>5, <1>6 DEF EngineInv

\* The list of the keys to be rendered is drawn up.
LEMMA BeginFillKeeps ==
    ASSUME EngineInv, BeginFill
    PROVE  EngineInv'
<1>1. Active' = Active /\ Alive' = Alive /\ Grains' = Grains
  BY DEF BeginFill, pool, Active, Alive, Grains
<1>2. ClockOK'
  BY DEF EngineInv, ClockOK, BeginFill, clocks
<1>3. LedgerOK'
  BY <1>1 DEF EngineInv, LedgerOK, BeginFill, Distinct, fates
<1>4. QueuesOK'
  BY DEF EngineInv, QueuesOK, BeginFill
<1>5. PoolOK'
  BY <1>1 DEF EngineInv, PoolOK, IdMapSound, Distinct, BeginFill, pool
<1>6. MixOK'
  <2>1. activeKeys' \in Seq(DOMAIN active) /\ Range(activeKeys') = DOMAIN active
    BY KeysListed DEF EngineInv, BeginFill
  <2>2. active' = active
    BY Zenon DEF BeginFill, pool
  <2>3. activeKeys' \in Seq(Keys) /\ DOMAIN active' = DOMAIN active
    BY <2>1, <2>2 DEF EngineInv, PoolOK
  <2> QED
    BY <1>1, <2>1, <2>3 DEF EngineInv, MixOK, BeginFill
<1> QED
  BY <1>2, <1>3, <1>4, <1>5, <1>6 DEF EngineInv

\* What a turn of the rendering loop does: the grain under the first of the keys
\* fills its room in the block, alone in the zeroed scratch buffers, and reaches the
\* outputs through them.
LEMMA FillOneRenders ==
    ASSUME EngineInv, FillOne
    PROVE  LET k == Head(activeKeys)
               g == active[k]
               filled == FillBlock(fof[g], StartOffset(sent[g].start, blockStart),
                                   Zeroed(clock - blockStart))
           IN  /\ k \in DOMAIN active /\ g \in Active
               /\ sent[g].start \in Nat
               /\ Range(activeKeys) = {k} \union Range(activeKeys')
               /\ activeKeys' \in Seq(Keys)
               /\ filled.grain \in GrainStates
               /\ fof[g].phase \in {"FadeOut", "Dead"} =>
                     filled.grain.phase \in {"FadeOut", "Dead"}
               /\ DOMAIN filled.buf = 1 .. clock - blockStart
               /\ filled.grain.phase # "Dead" =>
                     \A i \in 1 .. clock - blockStart :
                        i > StartOffset(sent[g].start, blockStart) =>
                           filled.buf[i] # <<>>
               /\ DOMAIN fof' = DOMAIN fof /\ fof'[g] = filled.grain
               /\ \A h \in DOMAIN fof : h # g => fof'[h] = fof[h]
               /\ DOMAIN gains' = DOMAIN gains
               /\ \A c \in DOMAIN gains :
                     gains'[c] = IF c \in PanChannels(PanMode, g \in FarGrains)
                                 THEN {g} ELSE {}
               /\ mono' \subseteq {g}
               /\ (\E i \in DOMAIN filled.buf : filled.buf[i] # <<>>) => g \in mono'
               /\ outputs' = [c \in DOMAIN outputs |->
                                 outputs[c] \union (mono' \X gains'[c])]
<1> DEFINE k == Head(activeKeys)
           g == active[k]
           at == StartOffset(sent[g].start, blockStart)
           n == clock - blockStart
           filled == FillBlock(fof[g], at, Zeroed(n))
<1>1. /\ activeKeys \in Seq(Keys) /\ activeKeys # <<>>
      /\ Range(activeKeys) \subseteq DOMAIN active
  BY DEF EngineInv, MixOK, FillOne
<1>2. /\ k \in DOMAIN active /\ Range(activeKeys) = {k} \union Range(activeKeys')
      /\ activeKeys' \in Seq(Keys)
  <2>1. activeKeys' = Tail(activeKeys)
    BY DEF FillOne
  <2> QED
    BY <1>1, <2>1, TailOf
<1>3. g \in Active /\ g \in Grains
  BY <1>2 DEF EngineInv, PoolOK, Active
<1>4. sent[g].start \in Nat
  <2>1. sent[g] \in Requests
    BY <1>3 DEF EngineInv, LedgerOK, Grains
  <2> QED
    BY <2>1, EngineAssumption DEF Requests
<1>5. n \in Nat /\ blockStart \in Nat
  BY SMTT(30) DEF EngineInv, ClockOK, FillOne
<1>6. at \in Nat
  BY <1>4, <1>5 DEF StartOffset, Most
<1>7. fof[g] \in GrainStates /\ DOMAIN fof = Active
  BY <1>3 DEF EngineInv, PoolOK
<1>8. Zeroed(n) \in Buffers /\ DOMAIN Zeroed(n) = 1 .. n
  <2>1. <<>> \in Seq(Samples)
    OBVIOUS
  <2>2. Zeroed(n) \in [1 .. n -> Seq(Samples)]
    BY <2>1 DEF Zeroed
  <2> HIDE DEF n
  <2> QED
    BY <1>5, <2>2, FunctionIsSequence DEF Buffers
<1>9. /\ filled.grain \in GrainStates
      /\ fof[g].phase \in {"FadeOut", "Dead"} =>
            filled.grain.phase \in {"FadeOut", "Dead"}
      /\ DOMAIN filled.buf = 1 .. n
      /\ filled.grain.phase # "Dead" =>
            \A i \in 1 .. n : i > at => filled.buf[i] # <<>>
  <2> DEFINE buf == Zeroed(n)
             state == fof[g]
  <2>1. buf \in Buffers /\ state \in GrainStates /\ DOMAIN buf = 1 .. n
    BY <1>7, <1>8
  <2> HIDE DEF buf, state, at, n
  <2>2. LET filling == FillBlock(state, at, buf)
        IN  /\ filling.grain \in GrainStates
            /\ filling.buf \in Buffers /\ DOMAIN filling.buf = DOMAIN buf
            /\ state.phase \in {"FadeOut", "Dead"} =>
                  filling.grain.phase \in {"FadeOut", "Dead"}
            /\ filling.grain.phase # "Dead" =>
                  \A i \in DOMAIN buf : i > at => filling.buf[i] # <<>>
    BY <1>6, <2>1, FillBlockType
  <2> QED
    BY <2>1, <2>2 DEF buf, state
<1>10. /\ fof' = [fof EXCEPT ![g] = filled.grain]
       /\ mono' = FilledMono(ZeroedMono(mono), g, filled.buf)
       /\ gains' = PannedGains(ZeroedGains(gains), g)
       /\ outputs' = [c \in DOMAIN outputs |-> outputs[c] \union (mono' \X gains'[c])]
  BY DEF FillOne
<1> HIDE DEF filled, at, n, g, k
<1>11. /\ DOMAIN fof' = DOMAIN fof /\ fof'[g] = filled.grain
       /\ \A h \in DOMAIN fof : h # g => fof'[h] = fof[h]
  BY <1>3, <1>7, <1>10
<1>12. /\ DOMAIN gains' = DOMAIN gains
       /\ \A c \in DOMAIN gains :
             gains'[c] = IF c \in PanChannels(PanMode, g \in FarGrains)
                         THEN {g} ELSE {}
  BY <1>10 DEF PannedGains, ZeroedGains
<1>13. /\ mono' \subseteq {g}
       /\ (\E i \in DOMAIN filled.buf : filled.buf[i] # <<>>) => g \in mono'
  BY <1>10 DEF FilledMono, ZeroedMono
<1> QED
  BY <1>2, <1>3, <1>4, <1>9, <1>10, <1>11, <1>12, <1>13, Zenon DEF filled, at, n, g, k

\* A turn of the rendering loop.
LEMMA FillOneKeeps ==
    ASSUME EngineInv, FillOne
    PROVE  EngineInv'
<1> DEFINE k == Head(activeKeys)
           g == active[k]
           filled == FillBlock(fof[g], StartOffset(sent[g].start, blockStart),
                               Zeroed(clock - blockStart))
<1>1. /\ k \in DOMAIN active /\ g \in Active
      /\ Range(activeKeys) = {k} \union Range(activeKeys')
      /\ activeKeys' \in Seq(Keys)
      /\ filled.grain \in GrainStates
      /\ DOMAIN fof' = DOMAIN fof /\ fof'[g] = filled.grain
      /\ \A h \in DOMAIN fof : h # g => fof'[h] = fof[h]
      /\ DOMAIN gains' = DOMAIN gains
      /\ \A c \in DOMAIN gains :
            gains'[c] = IF c \in PanChannels(PanMode, g \in FarGrains)
                        THEN {g} ELSE {}
      /\ mono' \subseteq {g}
      /\ outputs' = [c \in DOMAIN outputs |-> outputs[c] \union (mono' \X gains'[c])]
  BY FillOneRenders
<1> HIDE DEF k, g, filled
<1>2. Active' = Active /\ Alive' = Alive /\ Grains' = Grains /\ active' = active
  BY DEF FillOne, Active, Alive, Grains
<1>3. ClockOK'
  BY DEF EngineInv, ClockOK, FillOne, clocks
<1>4. LedgerOK'
  BY <1>2 DEF EngineInv, LedgerOK, FillOne, Distinct, fates
<1>5. QueuesOK'
  BY DEF EngineInv, QueuesOK, FillOne
<1>6. PoolOK'
  <2>1. DOMAIN fof' = Active /\ \A h \in Active : fof'[h] \in GrainStates
    BY <1>1 DEF EngineInv, PoolOK
  <2>2. idMap' = idMap /\ sent' = sent
    BY DEF FillOne
  <2> QED
    BY <1>2, <2>1, <2>2 DEF EngineInv, PoolOK, IdMapSound, Distinct
<1>7. MixOK'
  <2>1. g \in Grains
    BY <1>1 DEF EngineInv, PoolOK
  <2>2. \A c \in DOMAIN gains : gains'[c] \subseteq {g}
    BY <1>1
  <2>3. \A c \in DOMAIN gains' : gains'[c] \subseteq Grains
    BY <1>1, <2>1, <2>2
  <2>4. DOMAIN outputs' = DOMAIN outputs
    BY <1>1
  <2>5. DOMAIN gains = DOMAIN outputs
    BY DEF EngineInv, MixOK
  <2>6. \A c \in DOMAIN outputs : outputs'[c] \subseteq Grains \X Grains
    <3> TAKE c \in DOMAIN outputs
    <3>1. outputs[c] \subseteq Grains \X Grains
      BY DEF EngineInv, MixOK
    <3>2. outputs'[c] = outputs[c] \union (mono' \X gains'[c])
      BY <1>1
    <3>3. mono' \X gains'[c] \subseteq Grains \X Grains
      BY <1>1, <2>1, <2>2, <2>5
    <3> QED
      BY <3>1, <3>2, <3>3
  <2> QED
    BY <1>1, <1>2, <2>1, <2>3, <2>4, <2>6 DEF EngineInv, MixOK
<1> QED
  BY <1>3, <1>4, <1>5, <1>6, <1>7 DEF EngineInv

\* What the end of a block does to the pool.
LEMMA RemoveDeadLeaves ==
    ASSUME EngineInv, RemoveDead
    PROVE  /\ DOMAIN active' = DOMAIN active \ DeadKeys
           /\ \A k \in DOMAIN active' : active'[k] = active[k]
           /\ Active' \subseteq Active
           /\ DOMAIN fof' = Active' /\ \A g \in Active' : fof'[g] = fof[g]
           /\ \A g \in Active' : fof[g].phase # "Dead"
           /\ DOMAIN idMap' =
                 {id \in DOMAIN idMap : \A k \in DeadKeys : sent[active[k]].id # id}
           /\ \A id \in DOMAIN idMap' : idMap'[id] = idMap[id]
<1> DEFINE dead == {active[k] : k \in DeadKeys}
           freed == {sent[active[k]].id : k \in DeadKeys}
<1>1. /\ active' = Without(active, DeadKeys) /\ fof' = Without(fof, dead)
      /\ idMap' = Without(idMap, freed)
  BY DEF RemoveDead
<1>2. /\ DOMAIN active' = DOMAIN active \ DeadKeys
      /\ \A k \in DOMAIN active' : active'[k] = active[k]
  BY <1>1 DEF Without
<1>3. /\ DOMAIN idMap' = DOMAIN idMap \ freed
      /\ \A id \in DOMAIN idMap' : idMap'[id] = idMap[id]
  <2> HIDE DEF freed
  <2> QED
    BY <1>1 DEF Without
<1>4. DOMAIN fof' = Active \ dead /\ \A g \in Active \ dead : fof'[g] = fof[g]
  <2>1. DOMAIN fof = Active
    BY DEF EngineInv, PoolOK
  <2> HIDE DEF dead
  <2> QED
    BY <1>1, <2>1 DEF Without
<1>5. Active' = Active \ dead
  <2>1. \A j, k \in DOMAIN active : active[j] = active[k] => j = k
    BY DEF EngineInv, PoolOK, Distinct
  <2>2. DeadKeys \subseteq DOMAIN active
    BY DEF DeadKeys
  <2> QED
    BY <1>2, <2>1, <2>2 DEF Active
<1>6. \A g \in Active \ dead : fof[g].phase # "Dead"
  BY DEF Active, DeadKeys
<1> QED
  BY <1>2, <1>3, <1>4, <1>5, <1>6

\* The end of a block.
LEMMA RemoveDeadKeeps ==
    ASSUME EngineInv, RemoveDead
    PROVE  EngineInv'
<1>1. /\ DOMAIN active' = DOMAIN active \ DeadKeys
      /\ \A k \in DOMAIN active' : active'[k] = active[k]
      /\ Active' \subseteq Active
      /\ DOMAIN fof' = Active' /\ \A g \in Active' : fof'[g] = fof[g]
      /\ DOMAIN idMap' =
            {id \in DOMAIN idMap : \A k \in DeadKeys : sent[active[k]].id # id}
      /\ \A id \in DOMAIN idMap' : idMap'[id] = idMap[id]
  BY RemoveDeadLeaves
<1>2. Grains' = Grains /\ sent' = sent /\ Alive' \subseteq Alive
  BY <1>1 DEF RemoveDead, Grains, Alive
<1>3. ClockOK'
  BY DEF EngineInv, ClockOK, RemoveDead
<1>4. LedgerOK'
  <2>1. finished' \subseteq Grains
    <3>1. {active[k] : k \in DeadKeys} \subseteq Active
      BY DEF DeadKeys, Active
    <3> QED
      BY <3>1 DEF EngineInv, LedgerOK, PoolOK, RemoveDead
  <2>2. incoming' = <<>> /\ incoming = <<>>
    BY DEF EngineInv, LedgerOK, RemoveDead
  <2>3. scheduled' = scheduled /\ dropped' = dropped /\ doomed' = doomed
    BY DEF RemoveDead
  <2> QED
    BY <1>1, <1>2, <2>1, <2>2, <2>3 DEF EngineInv, LedgerOK
<1>5. QueuesOK'
  BY DEF EngineInv, QueuesOK, RemoveDead
<1>6. PoolOK'
  <2>1. active' \in [DOMAIN active' -> Grains'] /\ DOMAIN active' \subseteq Keys
    <3>1. active' = [k \in DOMAIN active' |-> active'[k]]
      BY DEF RemoveDead, Without
    <3>2. \A k \in DOMAIN active' : active'[k] \in Grains'
      BY <1>1, <1>2 DEF EngineInv, PoolOK
    <3> QED
      BY <1>1, <3>1, <3>2 DEF EngineInv, PoolOK
  <2>2. Active' \subseteq Grains' /\ Distinct(active')
    BY <1>1, <1>2 DEF EngineInv, PoolOK, Distinct
  <2>3. \A g \in Active' : fof'[g] \in GrainStates
    BY <1>1 DEF EngineInv, PoolOK
  <2>4. IdMapSound'
    <3> SUFFICES ASSUME NEW id \in DOMAIN idMap'
                 PROVE  /\ idMap[id] \in DOMAIN active'
                        /\ sent[active'[idMap[id]]].id = id
      BY <1>1, <1>2 DEF IdMapSound
    <3>1. id \in DOMAIN idMap /\ \A k \in DeadKeys : sent[active[k]].id # id
      BY <1>1
    <3>2. idMap[id] \in DOMAIN active /\ sent[active[idMap[id]]].id = id
      BY <3>1 DEF EngineInv, PoolOK, IdMapSound
    <3> QED
      BY <1>1, <3>1, <3>2
  <2>5. DOMAIN idMap' \subseteq Ids
    BY <1>1 DEF EngineInv, PoolOK
  <2> QED
    BY <1>1, <2>1, <2>2, <2>3, <2>4, <2>5 DEF PoolOK
<1>7. MixOK'
  <2>1. activeKeys' = <<>> /\ <<>> \in Seq(Keys) /\ Range(<<>>) = {}
    BY DEF RemoveDead, Range
  <2>2. mono' = {} /\ gains' = Silence /\ outputs' = Silence
    BY DEF RemoveDead
  <2> QED
    BY <2>1, <2>2 DEF MixOK, Silence
<1> QED
  BY <1>3, <1>4, <1>5, <1>6, <1>7 DEF EngineInv

\* A stuttering step.
LEMMA EngineStutters ==
    ASSUME EngineInv, UNCHANGED vars
    PROVE  EngineInv'
<1>1. /\ Active' = Active /\ Alive' = Alive /\ Grains' = Grains
      /\ active' = active /\ incoming' = incoming /\ activeKeys' = activeKeys
  BY DEF vars, pool, mixed, Active, Alive, Grains
<1>2. ClockOK'
  BY DEF EngineInv, ClockOK, vars, clocks
<1>3. LedgerOK'
  BY <1>1 DEF EngineInv, LedgerOK, Distinct, vars, fates
<1>4. QueuesOK'
  BY DEF EngineInv, QueuesOK, vars
<1>5. PoolOK'
  BY <1>1 DEF EngineInv, PoolOK, IdMapSound, Distinct, vars, pool
<1>6. MixOK'
  BY <1>1 DEF EngineInv, MixOK, vars, mixed
<1> QED
  BY <1>2, <1>3, <1>4, <1>5, <1>6 DEF EngineInv

\* Every step keeps the invariant.
LEMMA EngineKeeps == EngineInv /\ [Next]_vars => EngineInv'
<1> SUFFICES ASSUME EngineInv, [Next]_vars PROVE EngineInv'
  OBVIOUS
<1>1. ASSUME NEW id \in Ids \union {NoId}, NEW s \in Starts, NEW decay \in Decays,
             PushFof(id, s, decay)
      PROVE  EngineInv'
  BY <1>1, PushFofKeeps
<1>2. ASSUME NEW id \in Ids, PushKill(id)
      PROVE  EngineInv'
  BY <1>2, PushKillKeeps
<1>3. ASSUME NEW d \in Drifts, NEW n \in BlockSizes,
             NEW fire \in SUBSET MayLeave(clock + d + n),
             NEW drop \in SUBSET (scheduled \ fire),
             DrainWheels(d, n, fire, drop)
      PROVE  EngineInv'
  BY <1>3, DrainWheelsKeeps
<1>4. CASE DrainKills
  BY <1>4, DrainKillsKeeps
<1>5. CASE SpawnOne
  BY <1>5, SpawnOneKeeps
<1>6. CASE SpawnDone
  BY <1>6, SpawnDoneKeeps
<1>7. CASE KillOne
  BY <1>7, KillOneKeeps
<1>8. CASE BeginFill
  BY <1>8, BeginFillKeeps
<1>9. CASE FillOne
  BY <1>9, FillOneKeeps
<1>10. CASE RemoveDead
  BY <1>10, RemoveDeadKeeps
<1>11. CASE AtBound
  BY <1>11, EngineStutters DEF AtBound
<1>12. CASE UNCHANGED vars
  BY <1>12, EngineStutters
<1> QED
  BY <1>1, <1>2, <1>3, <1>4, <1>5, <1>6, <1>7, <1>8, <1>9, <1>10, <1>11, <1>12, Zenon
     DEF Next, ProcessBlock

\* The books are kept from the first block on.
THEOREM EngineInvHolds == Spec => []EngineInv
<1>1. Init => EngineInv
  BY EngineStarts
<1>2. EngineInv /\ [Next]_vars => EngineInv'
  BY EngineKeeps
<1> QED
  BY <1>1, <1>2, PTL DEF Spec

\* Every variable keeps its type (TypeOK).
THEOREM EngineTypes == Spec => []TypeOK
  BY EngineInvHolds, EngineInvImplies, PTL

\* Whatever the client does with its ids and however fast keys are reused, an
\* entry of the id map leads to an occupied key of the slab whose grain bears
\* that id: the kill loop never indexes a vacant key (IdMapSound).
THEOREM IdMapLeadsToItsGrain == Spec => []IdMapSound
  BY EngineInvHolds, EngineInvImplies, PTL

-----------------------------------------------------------------------------
(* The window of the block. *)

\* Handed over by the wheels, on a clock that is never set back, a grain begins
\* before the end of the block.
WindowInv == Forward => \A g \in Alive : sent[g].start < clock

\* It is kept by steps that hand nothing over and leave the clock alone.
LEMMA WindowKept ==
    ASSUME WindowInv, Alive' \subseteq Alive, world' = world, sent' = sent, clock' = clock
    PROVE  WindowInv'
  BY DEF WindowInv, Forward, Drifts

\* Every step keeps it: a drain moves the end of the block forward.
LEMMA WindowKeeps == EngineInv /\ WindowInv /\ [Next]_vars => WindowInv'
<1> SUFFICES ASSUME EngineInv, WindowInv, [Next]_vars PROVE WindowInv'
  OBVIOUS
<1>1. ASSUME NEW id \in Ids \union {NoId}, NEW s \in Starts, NEW decay \in Decays,
             PushFof(id, s, decay)
      PROVE  WindowInv'
  <2>1. Alive' = Alive /\ world' = world /\ clock' = clock
    BY <1>1 DEF PushFof, pool, clocks, Alive, Active
  <2>2. \A g \in Alive : sent'[g] = sent[g]
    <3> DEFINE request == [id |-> id, start |-> s, decay |-> decay]
    <3>1. request \in Requests
      BY DEF Requests
    <3>2. sent \in Seq(Requests) /\ sent' = Append(sent, request)
      BY <1>1 DEF EngineInv, LedgerOK, PushFof
    <3>3. Alive \subseteq 1 .. Len(sent)
      BY DEF EngineInv, LedgerOK, PoolOK, Alive, Range, Grains
    <3> HIDE DEF request
    <3>4. \A g \in 1 .. Len(sent) : sent'[g] = sent[g]
      BY <3>1, <3>2, AppendProperties
    <3> QED
      BY <3>3, <3>4
  <2> QED
    BY <2>1, <2>2 DEF WindowInv, Forward, Drifts
<1>2. ASSUME NEW id \in Ids, PushKill(id)
      PROVE  WindowInv'
  <2>1. Alive' = Alive /\ world' = world /\ clock' = clock /\ sent' = sent
    BY <1>2 DEF PushKill, pool, clocks, Alive, Active
  <2> QED
    BY <2>1, WindowKept
<1>3. ASSUME NEW d \in Drifts, NEW n \in BlockSizes,
             NEW fire \in SUBSET MayLeave(clock + d + n),
             NEW drop \in SUBSET (scheduled \ fire),
             DrainWheels(d, n, fire, drop)
      PROVE  WindowInv'
  <2> SUFFICES ASSUME Forward, NEW g \in Alive'
               PROVE  sent[g].start < clock'
    BY <1>3 DEF WindowInv, Forward, Drifts, DrainWheels
  <2>1. clock' = clock + d + n /\ d \in Int /\ d >= 0 /\ n \in Nat /\ n > 0
        /\ clock \in Nat
    <3>1. world \in Worlds
      BY DEF EngineInv, ClockOK
    <3> QED
      BY <1>3, <3>1, EngineAssumption DEF EngineInv, ClockOK, Drifts, Forward, DrainWheels
  <2>2. Alive' = Active \union fire
    <3>1. fire \subseteq Grains
      BY DEF MayLeave, EngineInv, LedgerOK
    <3>2. Range(incoming') = fire
      BY <1>3, <3>1, FireListed DEF EngineInv, DrainWheels
    <3>3. Active' = Active
      BY <1>3 DEF DrainWheels, pool, Active
    <3> QED
      BY <3>2, <3>3 DEF Alive
  <2>3. CASE g \in fire
    BY <2>1, <2>3 DEF MayLeave
  <2>4. CASE g \in Active
    <3>1. sent[g].start < clock
      BY <2>4 DEF WindowInv, Alive
    <3>2. sent[g] \in Requests
      BY <2>4 DEF EngineInv, LedgerOK, PoolOK, Grains
    <3>3. sent[g].start \in Nat
      BY <3>2, EngineAssumption DEF Requests
    <3> QED
      BY <2>1, <3>1, <3>3
  <2> QED
    BY <2>2, <2>3, <2>4
<1>4. CASE DrainKills
  <2>1. Alive' = Alive /\ world' = world /\ clock' = clock /\ sent' = sent
    BY <1>4 DEF DrainKills, pool, clocks, Alive, Active
  <2> QED
    BY <2>1, WindowKept
<1>5. CASE SpawnOne
  <2>1. world' = world /\ clock' = clock /\ sent' = sent
    BY <1>5 DEF SpawnOne, clocks
  <2>2. Alive' = Alive
    <3>1. /\ Range(incoming) = {Head(incoming)} \union Range(incoming')
          /\ Active' = Active \union {Head(incoming)}
      BY <1>5, SpawnOneMoves
    <3> QED
      BY <3>1 DEF Alive
  <2> QED
    BY <2>1, <2>2, WindowKept
<1>6. CASE SpawnDone
  <2>1. Alive' = Alive /\ world' = world /\ clock' = clock /\ sent' = sent
    BY <1>6 DEF SpawnDone, pool, clocks, Alive, Active
  <2> QED
    BY <2>1, WindowKept
<1>7. CASE KillOne
  <2>1. Alive' = Alive /\ world' = world /\ clock' = clock /\ sent' = sent
    BY <1>7 DEF KillOne, clocks, Alive, Active
  <2> QED
    BY <2>1, WindowKept
<1>8. CASE BeginFill
  <2>1. Alive' = Alive /\ world' = world /\ clock' = clock /\ sent' = sent
    BY <1>8 DEF BeginFill, pool, clocks, Alive, Active
  <2> QED
    BY <2>1, WindowKept
<1>9. CASE FillOne
  <2>1. Alive' = Alive /\ world' = world /\ clock' = clock /\ sent' = sent
    BY <1>9 DEF FillOne, clocks, Alive, Active
  <2> QED
    BY <2>1, WindowKept
<1>10. CASE RemoveDead
  <2>1. Active' \subseteq Active
    BY <1>10, RemoveDeadLeaves
  <2>2. Alive' \subseteq Alive /\ world' = world /\ clock' = clock /\ sent' = sent
    BY <1>10, <2>1 DEF RemoveDead, Alive
  <2> QED
    BY <2>2, WindowKept
<1>11. CASE UNCHANGED vars
  <2>1. Alive' = Alive /\ world' = world /\ clock' = clock /\ sent' = sent
    BY <1>11 DEF vars, pool, clocks, Alive, Active
  <2> QED
    BY <2>1, WindowKept
<1>12. CASE AtBound
  BY <1>11, <1>12 DEF AtBound
<1> QED
  BY <1>1, <1>2, <1>3, <1>4, <1>5, <1>6, <1>7, <1>8, <1>9, <1>10, <1>11, <1>12, Zenon
     DEF Next, ProcessBlock

\* On a clock that is never set back, a grain that is rendered does not begin
\* beyond the block: the assertion in fill_block holds, whatever the sizes of
\* the blocks and of the jumps of the clock (StartsWithinBlock).
THEOREM StartsWithinItsBlock == Spec => []StartsWithinBlock
<1>1. Init => WindowInv
  BY DEF Init, WindowInv, Alive, Active, Range
<1>2. EngineInv /\ WindowInv /\ [Next]_vars => WindowInv'
  BY WindowKeeps
<1>3. EngineInv /\ WindowInv => StartsWithinBlock
  <2> SUFFICES ASSUME EngineInv, WindowInv, Forward, pc = "kill", NEW g \in Active
               PROVE  StartOffset(sent[g].start, blockStart) < clock - blockStart
    BY DEF StartsWithinBlock
  <2>1. sent[g].start < clock
    BY DEF WindowInv, Alive
  <2>2. sent[g].start \in Nat
    <3>1. sent[g] \in Requests
      BY DEF EngineInv, LedgerOK, PoolOK, Grains
    <3> QED
      BY <3>1, EngineAssumption DEF Requests
  <2>3. blockStart \in Nat /\ clock \in Nat /\ blockStart < clock
    BY DEF EngineInv, ClockOK
  <2> QED
    BY <2>1, <2>2, <2>3 DEF StartOffset, Most
<1> QED
  BY <1>1, <1>2, <1>3, EngineInvHolds, PTL DEF Spec

-----------------------------------------------------------------------------
(* Kills land. *)

\* No two grains that are scheduled or alive share an id other than 0.
OwnIds ==
    \A g, h \in scheduled \union Alive :
        sent[g].id = sent[h].id /\ sent[g].id # NoId => g = h

\* A grain in the pool is found under its id.
FoundById ==
    \A g \in Active :
        sent[g].id # NoId =>
            sent[g].id \in DOMAIN idMap /\ active[idMap[sent[g].id]] = g

\* A kill names an id, and only grains that have left the wheels are doomed.
DoomedKnown == \A g \in doomed : sent[g].id \in Ids /\ g \notin scheduled

\* A doomed grain is fading already, or the kill that names it is still to come,
\* in the queue or among the requests of this block.
KillOnItsWay ==
    \A g \in doomed \intersect Alive :
        \/ sent[g].id \in Range(killQueue)
        \/ sent[g].id \in Range(killRequests)
        \/ g \in Active /\ fof[g].phase \in {"FadeOut", "Dead"}

KillInv == UniqueIds => OwnIds /\ FoundById /\ DoomedKnown /\ KillOnItsWay

\* It is kept by steps that do not touch what it is about.
LEMMA KillInvUntouched ==
    ASSUME KillInv,
           UNCHANGED <<world, scheduled, incoming, killQueue, killRequests, pool, sent, doomed>>
    PROVE  KillInv'
<1>1. Alive' = Alive /\ Active' = Active
  BY DEF pool, Alive, Active
<1> QED
  BY <1>1 DEF KillInv, UniqueIds, OwnIds, FoundById, DoomedKnown, KillOnItsWay, pool

\* A careful client submits a grain: its id is nobody else's.
LEMMA PushFofKeepsKills ==
    ASSUME EngineInv, KillInv, NEW id \in Ids \union {NoId}, NEW s \in Starts,
           NEW decay \in Decays, PushFof(id, s, decay)
    PROVE  KillInv'
<1> DEFINE request == [id |-> id, start |-> s, decay |-> decay]
           new == Len(sent) + 1
<1>1. /\ scheduled' = scheduled \union {new} /\ Alive' = Alive /\ Active' = Active
      /\ UNCHANGED <<world, killQueue, killRequests, active, fof, idMap, doomed>>
  BY DEF PushFof, pool, clocks, fates, Alive, Active
<1>2. /\ scheduled \subseteq Grains /\ Alive \subseteq Grains /\ doomed \subseteq Grains
      /\ Active \subseteq Alive
  BY DEF EngineInv, LedgerOK, PoolOK, Alive, Range
<1>3. /\ \A g \in Grains : sent'[g] = sent[g]
      /\ sent'[new] = request /\ new \notin Grains
  <2>1. request \in Requests
    BY DEF Requests
  <2>2. sent \in Seq(Requests) /\ sent' = Append(sent, request) /\ Len(sent) \in Nat
    BY DEF EngineInv, LedgerOK, PushFof
  <2> HIDE DEF request
  <2>3. \A g \in 1 .. Len(sent) : sent'[g] = sent[g]
    BY <2>1, <2>2, AppendProperties
  <2>4. sent'[new] = request
    BY <2>1, <2>2, AppendProperties
  <2> QED
    BY <2>2, <2>3, <2>4 DEF Grains
<1>4. sent'[new].id = id
  BY <1>3
<1>5. UniqueIds => (id # NoId => \A g \in scheduled \union Alive : sent[g].id # id)
  BY DEF PushFof, InUse
<1> HIDE DEF new, request
<1> SUFFICES ASSUME UniqueIds PROVE (OwnIds /\ FoundById /\ DoomedKnown /\ KillOnItsWay)'
  BY <1>1 DEF KillInv, UniqueIds
<1>6. OwnIds /\ FoundById /\ DoomedKnown /\ KillOnItsWay
  BY DEF KillInv
<1>7. OwnIds'
  BY <1>1, <1>2, <1>3, <1>4, <1>5, <1>6 DEF OwnIds
<1>8. FoundById'
  BY <1>1, <1>2, <1>3, <1>6 DEF FoundById
<1>9. DoomedKnown'
  BY <1>1, <1>2, <1>3, <1>6 DEF DoomedKnown
<1>10. KillOnItsWay'
  BY <1>1, <1>2, <1>3, <1>6 DEF KillOnItsWay
<1> QED
  BY <1>7, <1>8, <1>9, <1>10

\* A kill request is queued: whom it names is doomed.
LEMMA PushKillKeepsKills ==
    ASSUME EngineInv, KillInv, NEW id \in Ids, PushKill(id)
    PROVE  KillInv'
<1>1. /\ Alive' = Alive /\ Active' = Active
      /\ UNCHANGED <<world, scheduled, killRequests, active, fof, idMap, sent>>
      /\ doomed' = doomed \union {g \in Alive : sent[g].id = id}
  BY DEF PushKill, pool, clocks, Alive, Active
<1>2. Range(killQueue') = Range(killQueue) \union {id}
  BY AppendOf DEF EngineInv, QueuesOK, PushKill
<1>3. scheduled \intersect Alive = {}
  BY DEF EngineInv, LedgerOK
<1> SUFFICES ASSUME UniqueIds PROVE (OwnIds /\ FoundById /\ DoomedKnown /\ KillOnItsWay)'
  BY <1>1 DEF KillInv, UniqueIds
<1>4. OwnIds /\ FoundById /\ DoomedKnown /\ KillOnItsWay
  BY DEF KillInv
<1>5. OwnIds' /\ FoundById'
  BY <1>1, <1>4 DEF OwnIds, FoundById
<1>6. DoomedKnown'
  BY <1>1, <1>3, <1>4 DEF DoomedKnown
<1>7. KillOnItsWay'
  BY <1>1, <1>2, <1>4 DEF KillOnItsWay
<1> QED
  BY <1>5, <1>6, <1>7

\* No doomed grain is handed over: it was before.
LEMMA DrainWheelsKeepsKills ==
    ASSUME EngineInv, KillInv, NEW d \in Drifts, NEW n \in BlockSizes,
           NEW fire \in SUBSET MayLeave(clock + d + n),
           NEW drop \in SUBSET (scheduled \ fire),
           DrainWheels(d, n, fire, drop)
    PROVE  KillInv'
<1>1. /\ Active' = Active
      /\ UNCHANGED <<world, killQueue, killRequests, active, fof, idMap, sent, doomed>>
      /\ scheduled' \subseteq scheduled
  BY DEF DrainWheels, pool, Active
<1>2. fire \subseteq scheduled
  BY DEF MayLeave
<1>3. Alive' = Active \union fire
  <2>1. fire \subseteq Grains
    BY <1>2 DEF EngineInv, LedgerOK
  <2>2. Range(incoming') = fire
    BY <2>1, FireListed DEF EngineInv, DrainWheels
  <2> QED
    BY <1>1, <2>2 DEF Alive
<1>4. Active \subseteq Alive
  BY DEF Alive
<1> SUFFICES ASSUME UniqueIds PROVE (OwnIds /\ FoundById /\ DoomedKnown /\ KillOnItsWay)'
  BY <1>1 DEF KillInv, UniqueIds
<1>5. OwnIds /\ FoundById /\ DoomedKnown /\ KillOnItsWay
  BY DEF KillInv
<1>6. OwnIds'
  BY <1>1, <1>2, <1>3, <1>4, <1>5 DEF OwnIds
<1>7. FoundById' /\ DoomedKnown'
  BY <1>1, <1>5 DEF FoundById, DoomedKnown
<1>8. KillOnItsWay'
  BY <1>1, <1>2, <1>3, <1>4, <1>5 DEF DoomedKnown, KillOnItsWay
<1> QED
  BY <1>6, <1>7, <1>8

\* The requests of the block are those of the queue.
LEMMA DrainKillsKeepsKills ==
    ASSUME EngineInv, KillInv, DrainKills
    PROVE  KillInv'
<1>1. /\ Alive' = Alive /\ Active' = Active
      /\ UNCHANGED <<world, scheduled, active, fof, idMap, sent, doomed>>
      /\ killRequests' = killQueue /\ killRequests = <<>>
  BY DEF DrainKills, pool, clocks, fates, Alive, Active, EngineInv, QueuesOK
<1>2. Range(killRequests') = Range(killQueue) /\ Range(killRequests) = {}
  BY <1>1 DEF Range
<1> SUFFICES ASSUME UniqueIds PROVE (OwnIds /\ FoundById /\ DoomedKnown /\ KillOnItsWay)'
  BY <1>1 DEF KillInv, UniqueIds
<1>3. OwnIds /\ FoundById /\ DoomedKnown /\ KillOnItsWay
  BY DEF KillInv
<1>4. OwnIds' /\ FoundById' /\ DoomedKnown'
  BY <1>1, <1>3 DEF OwnIds, FoundById, DoomedKnown
<1>5. KillOnItsWay'
  BY <1>1, <1>2, <1>3 DEF KillOnItsWay
<1> QED
  BY <1>4, <1>5

\* The grain that is spawned is found under its id, and takes nobody else's.
LEMMA SpawnOneKeepsKills ==
    ASSUME EngineInv, KillInv, SpawnOne
    PROVE  KillInv'
<1> DEFINE g == Head(incoming)
           k == NextKey
           id == sent[g].id
<1>1. /\ g \in Grains /\ g \notin Active
      /\ k \in Keys /\ k \notin DOMAIN active
      /\ Range(incoming) = {g} \union Range(incoming')
      /\ DOMAIN active' = DOMAIN active \union {k} /\ active'[k] = g
      /\ \A j \in DOMAIN active : active'[j] = active[j]
      /\ Active' = Active \union {g}
      /\ DOMAIN fof' = DOMAIN fof \union {g}
      /\ \A h \in DOMAIN fof : h # g => fof'[h] = fof[h]
      /\ id = NoId => idMap' = idMap
      /\ id # NoId =>
            /\ DOMAIN idMap' = DOMAIN idMap \union {id} /\ idMap'[id] = k
            /\ \A i \in DOMAIN idMap : i # id => idMap'[i] = idMap[i]
  BY SpawnOneMoves
<1> HIDE DEF g, k
<1>2. UNCHANGED <<world, scheduled, killQueue, killRequests, sent, doomed>>
  BY DEF SpawnOne, clocks, fates
<1>3. Alive' = Alive /\ g \in Alive /\ Active \subseteq Alive
  BY <1>1 DEF Alive
<1>4. DOMAIN fof = Active /\ IdMapSound
  BY DEF EngineInv, PoolOK
<1> SUFFICES ASSUME UniqueIds PROVE (OwnIds /\ FoundById /\ DoomedKnown /\ KillOnItsWay)'
  BY <1>2 DEF KillInv, UniqueIds
<1>5. OwnIds /\ FoundById /\ DoomedKnown /\ KillOnItsWay
  BY DEF KillInv
<1>6. OwnIds' /\ DoomedKnown'
  BY <1>2, <1>3, <1>5 DEF OwnIds, DoomedKnown
<1>7. FoundById'
  <2> SUFFICES ASSUME NEW h \in Active', sent[h].id # NoId
               PROVE  sent[h].id \in DOMAIN idMap' /\ active'[idMap'[sent[h].id]] = h
    BY <1>2 DEF FoundById
  <2>1. CASE h = g
    BY <1>1, <2>1
  <2>2. CASE h # g
    <3>1. h \in Active
      BY <1>1, <2>2
    <3>2. sent[h].id # id
      BY <1>3, <1>5, <2>2, <3>1 DEF OwnIds
    <3>3. sent[h].id \in DOMAIN idMap /\ active[idMap[sent[h].id]] = h
      BY <1>5, <3>1 DEF FoundById
    <3>4. idMap[sent[h].id] \in DOMAIN active
      BY <1>4, <3>3 DEF IdMapSound
    <3> QED
      BY <1>1, <3>2, <3>3, <3>4
  <2> QED
    BY <2>1, <2>2
<1>8. KillOnItsWay'
  BY <1>1, <1>2, <1>3, <1>4, <1>5 DEF KillOnItsWay
<1> QED
  BY <1>6, <1>7, <1>8

\* The grain a request names is found and fades from now on.
LEMMA KillOneKeepsKills ==
    ASSUME EngineInv, KillInv, KillOne
    PROVE  KillInv'
<1> DEFINE id == Head(killRequests)
<1>1. /\ Alive' = Alive /\ Active' = Active
      /\ UNCHANGED <<world, scheduled, incoming, killQueue, active, idMap, sent, doomed>>
  BY DEF KillOne, clocks, fates, Alive, Active
<1>2. Range(killRequests) = {id} \union Range(killRequests')
  BY TailOf DEF EngineInv, QueuesOK, KillOne
<1>3. Alive = Active
  BY DEF EngineInv, LedgerOK, KillOne, Alive, Range
<1>4. DOMAIN fof = Active /\ \A g \in Active : fof[g] \in GrainStates
  BY DEF EngineInv, PoolOK
<1>5. /\ id \in DOMAIN idMap =>
            fof' = [fof EXCEPT ![active[idMap[id]]] = TriggerFadeOut(@, Fade)]
      /\ id \notin DOMAIN idMap => fof' = fof
  BY DEF KillOne
<1> HIDE DEF id
<1>6. \A g \in Active :
         TriggerFadeOut(fof[g], Fade).phase \in {"FadeOut", "Dead"}
  BY <1>4, TriggerFadeOutType, EngineAssumption
<1>7. \A g \in Active :
         fof[g].phase \in {"FadeOut", "Dead"} => fof'[g].phase \in {"FadeOut", "Dead"}
  BY <1>4, <1>5, <1>6
<1>8. \A g \in Active : id \in DOMAIN idMap /\ active[idMap[id]] = g
                           => fof'[g].phase \in {"FadeOut", "Dead"}
  BY <1>4, <1>5, <1>6
<1> SUFFICES ASSUME UniqueIds PROVE (OwnIds /\ FoundById /\ DoomedKnown /\ KillOnItsWay)'
  BY <1>1 DEF KillInv, UniqueIds
<1>9. OwnIds /\ FoundById /\ DoomedKnown /\ KillOnItsWay
  BY DEF KillInv
<1>10. OwnIds' /\ FoundById' /\ DoomedKnown'
  BY <1>1, <1>9 DEF OwnIds, FoundById, DoomedKnown
<1>11. KillOnItsWay'
  <2> SUFFICES ASSUME NEW g \in doomed \intersect Active,
                      sent[g].id \notin Range(killQueue),
                      sent[g].id \notin Range(killRequests')
               PROVE  fof'[g].phase \in {"FadeOut", "Dead"}
    BY <1>1, <1>3 DEF KillOnItsWay
  <2>1. CASE sent[g].id = id
    <3>1. sent[g].id # NoId
      BY <1>9, EngineAssumption DEF DoomedKnown
    <3> QED
      BY <1>8, <1>9, <2>1, <3>1 DEF FoundById
  <2>2. CASE sent[g].id # id
    BY <1>2, <1>3, <1>7, <1>9, <2>2 DEF KillOnItsWay
  <2> QED
    BY <2>1, <2>2
<1> QED
  BY <1>10, <1>11

\* Rendering never takes a grain out of its fade.
LEMMA FillOneKeepsKills ==
    ASSUME EngineInv, KillInv, FillOne
    PROVE  KillInv'
<1>1. /\ Alive' = Alive /\ Active' = Active
      /\ UNCHANGED <<world, scheduled, incoming, killQueue, killRequests, active, idMap,
                     sent, doomed>>
  BY DEF FillOne, clocks, fates, Alive, Active
<1>2. \A g \in Active :
         fof[g].phase \in {"FadeOut", "Dead"} => fof'[g].phase \in {"FadeOut", "Dead"}
  <2> DEFINE g == active[Head(activeKeys)]
             filled == FillBlock(fof[g], StartOffset(sent[g].start, blockStart),
                                 Zeroed(clock - blockStart))
  <2>1. /\ fof[g].phase \in {"FadeOut", "Dead"} =>
              filled.grain.phase \in {"FadeOut", "Dead"}
        /\ fof'[g] = filled.grain
        /\ \A h \in DOMAIN fof : h # g => fof'[h] = fof[h]
    BY FillOneRenders
  <2>2. DOMAIN fof = Active
    BY DEF EngineInv, PoolOK
  <2> HIDE DEF g, filled
  <2> QED
    BY <2>1, <2>2
<1> SUFFICES ASSUME UniqueIds PROVE (OwnIds /\ FoundById /\ DoomedKnown /\ KillOnItsWay)'
  BY <1>1 DEF KillInv, UniqueIds
<1>3. OwnIds /\ FoundById /\ DoomedKnown /\ KillOnItsWay
  BY DEF KillInv
<1>4. OwnIds' /\ FoundById' /\ DoomedKnown'
  BY <1>1, <1>3 DEF OwnIds, FoundById, DoomedKnown
<1>5. KillOnItsWay'
  BY <1>1, <1>2, <1>3 DEF KillOnItsWay
<1> QED
  BY <1>4, <1>5

\* Only the ids of the dead leave the map: the living are still found.
LEMMA RemoveDeadKeepsKills ==
    ASSUME EngineInv, KillInv, RemoveDead
    PROVE  KillInv'
<1>1. /\ DOMAIN active' = DOMAIN active \ DeadKeys
      /\ \A k \in DOMAIN active' : active'[k] = active[k]
      /\ Active' \subseteq Active
      /\ \A g \in Active' : fof'[g] = fof[g]
      /\ \A g \in Active' : fof[g].phase # "Dead"
      /\ DOMAIN idMap' =
            {id \in DOMAIN idMap : \A k \in DeadKeys : sent[active[k]].id # id}
      /\ \A id \in DOMAIN idMap' : idMap'[id] = idMap[id]
  BY RemoveDeadLeaves
<1>2. UNCHANGED <<world, scheduled, incoming, killQueue, killRequests, sent, doomed>>
  BY DEF RemoveDead
<1>3. Alive' \subseteq Alive /\ Active \subseteq Alive /\ Alive' = Active'
  BY <1>1, <1>2 DEF EngineInv, LedgerOK, RemoveDead, Alive, Range
<1> SUFFICES ASSUME UniqueIds PROVE (OwnIds /\ FoundById /\ DoomedKnown /\ KillOnItsWay)'
  BY <1>2 DEF KillInv, UniqueIds
<1>4. OwnIds /\ FoundById /\ DoomedKnown /\ KillOnItsWay
  BY DEF KillInv
<1>5. OwnIds' /\ DoomedKnown'
  BY <1>2, <1>3, <1>4 DEF OwnIds, DoomedKnown
<1>6. FoundById'
  <2> SUFFICES ASSUME NEW g \in Active', sent[g].id # NoId
               PROVE  sent[g].id \in DOMAIN idMap' /\ active'[idMap'[sent[g].id]] = g
    BY <1>2 DEF FoundById
  <2>1. g \in Active /\ fof[g].phase # "Dead"
    BY <1>1
  <2>2. sent[g].id \in DOMAIN idMap /\ active[idMap[sent[g].id]] = g
    BY <1>4, <2>1 DEF FoundById
  <2>3. idMap[sent[g].id] \in DOMAIN active \ DeadKeys
    BY <2>1, <2>2 DEF EngineInv, PoolOK, IdMapSound, DeadKeys
  <2>4. \A k \in DeadKeys : sent[active[k]].id # sent[g].id
    <3> SUFFICES ASSUME NEW k \in DeadKeys, sent[active[k]].id = sent[g].id
                 PROVE  FALSE
      OBVIOUS
    <3>1. active[k] \in Active /\ fof[active[k]].phase = "Dead"
      BY DEF DeadKeys, Active
    <3>2. active[k] = g
      BY <1>3, <1>4, <2>1, <3>1 DEF OwnIds
    <3> QED
      BY <2>1, <3>1, <3>2
  <2> QED
    BY <1>1, <2>2, <2>3, <2>4
<1>7. KillOnItsWay'
  BY <1>1, <1>2, <1>3, <1>4 DEF KillOnItsWay
<1> QED
  BY <1>5, <1>6, <1>7

\* Every step keeps it.
LEMMA KillsKeep == EngineInv /\ KillInv /\ [Next]_vars => KillInv'
<1> SUFFICES ASSUME EngineInv, KillInv, [Next]_vars PROVE KillInv'
  OBVIOUS
<1>1. ASSUME NEW id \in Ids \union {NoId}, NEW s \in Starts, NEW decay \in Decays,
             PushFof(id, s, decay)
      PROVE  KillInv'
  BY <1>1, PushFofKeepsKills
<1>2. ASSUME NEW id \in Ids, PushKill(id)
      PROVE  KillInv'
  BY <1>2, PushKillKeepsKills
<1>3. ASSUME NEW d \in Drifts, NEW n \in BlockSizes,
             NEW fire \in SUBSET MayLeave(clock + d + n),
             NEW drop \in SUBSET (scheduled \ fire),
             DrainWheels(d, n, fire, drop)
      PROVE  KillInv'
  BY <1>3, DrainWheelsKeepsKills
<1>4. CASE DrainKills
  BY <1>4, DrainKillsKeepsKills
<1>5. CASE SpawnOne
  BY <1>5, SpawnOneKeepsKills
<1>6. CASE SpawnDone
  BY <1>6, KillInvUntouched DEF SpawnDone, clocks, fates
<1>7. CASE KillOne
  BY <1>7, KillOneKeepsKills
<1>8. CASE BeginFill
  <2>1. UNCHANGED <<world, scheduled, incoming, killQueue, killRequests, pool, sent, doomed>>
    BY <1>8, Zenon DEF BeginFill, clocks, fates
  <2> QED
    BY <2>1, KillInvUntouched
<1>9. CASE FillOne
  BY <1>9, FillOneKeepsKills
<1>10. CASE RemoveDead
  BY <1>10, RemoveDeadKeepsKills
<1>11. CASE UNCHANGED vars
  BY <1>11, KillInvUntouched DEF vars, clocks, fates
<1>12. CASE AtBound
  BY <1>11, <1>12 DEF AtBound
<1> QED
  BY <1>1, <1>2, <1>3, <1>4, <1>5, <1>6, <1>7, <1>8, <1>9, <1>10, <1>11, <1>12, Zenon
     DEF Next, ProcessBlock

\* A kill of a grain that has left the wheels lands in the block that drains it,
\* also when it overtakes the grain's spawn, when keys are reused and when other
\* grains with ids have come and gone in between (KillsLand).
THEOREM KillsAreNotLost == Spec => []KillsLand
<1>1. Init => KillInv
  <2>1. Init => scheduled = {} /\ Alive = {} /\ Active = {} /\ doomed = {}
    BY DEF Init, Alive, Active, Range
  <2> QED
    BY <2>1 DEF KillInv, OwnIds, FoundById, DoomedKnown, KillOnItsWay
<1>2. EngineInv /\ KillInv /\ [Next]_vars => KillInv'
  BY KillsKeep
<1>3. EngineInv /\ KillInv => KillsLand
  <2> SUFFICES ASSUME EngineInv, KillInv, UniqueIds, pc = "idle", killQueue = <<>>,
                      NEW g \in doomed \intersect Active
               PROVE  fof[g].phase \in {"FadeOut", "Dead"}
    BY DEF KillsLand
  <2>1. Range(killQueue) = {} /\ Range(killRequests) = {}
    BY DEF EngineInv, QueuesOK, Range
  <2> QED
    BY <2>1 DEF KillInv, KillOnItsWay, Alive
<1> QED
  BY <1>1, <1>2, <1>3, EngineInvHolds, PTL DEF Spec

-----------------------------------------------------------------------------
(* The mix. *)

\* Every sample in channel c has its own grain's gain, of a grain of the pool
\* that is panned there.
OwnSamples(c) ==
    \A product \in outputs[c] :
        /\ product[1] = product[2] /\ product[1] \in Active
        /\ c \in PanChannels(PanMode, product[1] \in FarGrains)

\* If grain g is to be heard in channel c in this block, it is.
Heard(g, c) ==
    /\ c \in PanChannels(PanMode, g \in FarGrains)
    /\ sent[g].start \in blockStart .. clock - 1
    /\ fof[g].phase # "Dead"
    => <<g, g>> \in outputs[c]

\* The outputs are silent until the rendering loop begins; during the loop only
\* grains still to be rendered can be missing.
MixInv ==
    \A c \in ChannelsOf(PanMode) :
        /\ pc # "fill" => outputs[c] = {}
        /\ OwnSamples(c)
        /\ pc = "fill" =>
              \A k \in DOMAIN active : k \in Range(activeKeys) \/ Heard(active[k], c)

\* It is kept outside the rendering loop.
LEMMA MixQuiet ==
    ASSUME MixInv, pc # "fill", pc' # "fill", outputs' = outputs
    PROVE  MixInv'
  BY DEF MixInv, OwnSamples

\* The rendering loop begins with every key of the slab still to come.
LEMMA BeginFillKeepsMix ==
    ASSUME EngineInv, MixInv, BeginFill
    PROVE  MixInv'
<1>1. Range(activeKeys') = DOMAIN active
  BY KeysListed DEF EngineInv, BeginFill
<1>2. pc = "kill" /\ active' = active /\ outputs' = outputs
  BY Zenon DEF BeginFill, pool
<1>3. pc # "fill"
  BY <1>2
<1> SUFFICES ASSUME NEW c \in ChannelsOf(PanMode)
             PROVE  outputs'[c] = {} /\ \A k \in DOMAIN active' : k \in Range(activeKeys')
  BY DEF MixInv, OwnSamples
<1> QED
  BY <1>1, <1>2, <1>3 DEF MixInv

\* A turn of the loop adds to each channel of the grain the grain's own products
\* alone, and adds them if the grain begins in this block and survives it.
LEMMA FillOneKeepsMix ==
    ASSUME EngineInv, MixInv, FillOne
    PROVE  MixInv'
<1> DEFINE k == Head(activeKeys)
           g == active[k]
           at == StartOffset(sent[g].start, blockStart)
           n == clock - blockStart
           filled == FillBlock(fof[g], at, Zeroed(n))
<1>1. /\ k \in DOMAIN active /\ g \in Active
      /\ sent[g].start \in Nat
      /\ Range(activeKeys) = {k} \union Range(activeKeys')
      /\ DOMAIN filled.buf = 1 .. n
      /\ filled.grain.phase # "Dead" =>
            \A i \in 1 .. n : i > at => filled.buf[i] # <<>>
      /\ DOMAIN fof' = DOMAIN fof /\ fof'[g] = filled.grain
      /\ \A h \in DOMAIN fof : h # g => fof'[h] = fof[h]
      /\ \A c \in DOMAIN gains :
            gains'[c] = IF c \in PanChannels(PanMode, g \in FarGrains)
                        THEN {g} ELSE {}
      /\ mono' \subseteq {g}
      /\ (\E i \in DOMAIN filled.buf : filled.buf[i] # <<>>) => g \in mono'
      /\ outputs' = [c \in DOMAIN outputs |-> outputs[c] \union (mono' \X gains'[c])]
  BY FillOneRenders
<1>2. /\ active' = active /\ sent' = sent /\ blockStart' = blockStart /\ clock' = clock
      /\ Active' = Active /\ pc = "fill" /\ pc' = "fill"
  BY DEF FillOne, clocks, Active
<1>3. blockStart \in Nat /\ clock \in Nat
  BY DEF EngineInv, ClockOK
<1>4. sent[g].start \in blockStart .. clock - 1 => at \in Nat /\ at + 1 \in 1 .. n
  <2> DEFINE start == sent[g].start
  <2>1. start \in Nat
    BY <1>1
  <2>2. at = IF start - blockStart > 0 THEN start - blockStart ELSE 0
    BY DEF StartOffset, Most
  <2> HIDE DEF start, at
  <2>3. start \in blockStart .. clock - 1 => at \in Nat /\ at + 1 \in 1 .. n
    BY <1>3, <2>1, <2>2
  <2> QED
    BY <2>3 DEF start
<1>5. DOMAIN outputs = ChannelsOf(PanMode) /\ DOMAIN gains = ChannelsOf(PanMode)
      /\ DOMAIN fof = Active
  BY DEF EngineInv, MixOK, PoolOK
<1> HIDE DEF k, g, at, n, filled
<1>6. sent[g].start \in blockStart .. clock - 1 /\ filled.grain.phase # "Dead" =>
         g \in mono'
  <2> SUFFICES ASSUME sent[g].start \in blockStart .. clock - 1,
                      filled.grain.phase # "Dead"
               PROVE  \E i \in DOMAIN filled.buf : filled.buf[i] # <<>>
    BY <1>1
  <2>1. at + 1 \in DOMAIN filled.buf /\ at + 1 > at
    BY <1>1, <1>4
  <2> QED
    BY <1>1, <2>1
<1> SUFFICES ASSUME NEW c \in ChannelsOf(PanMode)
             PROVE  /\ OwnSamples(c)'
                    /\ \A j \in DOMAIN active :
                          j \in Range(activeKeys') \/ Heard(active[j], c)'
  BY <1>2 DEF MixInv
<1>7. /\ OwnSamples(c)
      /\ \A j \in DOMAIN active : j \in Range(activeKeys) \/ Heard(active[j], c)
  BY <1>2 DEF MixInv
<1>8. outputs[c] \subseteq outputs'[c]
  BY <1>1, <1>5
<1>9. OwnSamples(c)'
  <2> SUFFICES ASSUME NEW product \in outputs'[c]
               PROVE  /\ product[1] = product[2] /\ product[1] \in Active
                      /\ c \in PanChannels(PanMode, product[1] \in FarGrains)
    BY <1>2 DEF OwnSamples
  <2>1. CASE product \in outputs[c]
    BY <1>7, <2>1 DEF OwnSamples
  <2>2. CASE product \in mono' \X gains'[c]
    <3>1. product[1] = g /\ product[2] \in gains'[c]
      BY <1>1, <2>2
    <3>2. gains'[c] = IF c \in PanChannels(PanMode, g \in FarGrains) THEN {g} ELSE {}
      BY <1>1, <1>5
    <3>3. c \in PanChannels(PanMode, g \in FarGrains) /\ product[2] = g
      BY <3>1, <3>2
    <3> QED
      BY <1>1, <3>1, <3>3
  <2> QED
    BY <1>1, <1>5, <2>1, <2>2
<1>10. ASSUME NEW j \in DOMAIN active, j \notin Range(activeKeys')
       PROVE  Heard(active[j], c)'
  <2>1. CASE active[j] = g
    <3> SUFFICES ASSUME c \in PanChannels(PanMode, g \in FarGrains),
                        sent[g].start \in blockStart .. clock - 1,
                        filled.grain.phase # "Dead"
                 PROVE  <<g, g>> \in outputs'[c]
      BY <1>1, <1>2, <2>1 DEF Heard
    <3>1. gains'[c] = {g}
      BY <1>1, <1>5
    <3>2. outputs'[c] = outputs[c] \union (mono' \X {g})
      BY <1>1, <1>5, <3>1
    <3> QED
      BY <1>6, <3>2
  <2>2. CASE active[j] # g
    <3>1. j # k
      BY <2>2 DEF g
    <3>2. Heard(active[j], c)
      BY <1>1, <1>7, <1>10, <3>1
    <3>3. active[j] \in DOMAIN fof
      BY <1>5 DEF Active
    <3>4. fof'[active[j]] = fof[active[j]]
      BY <1>1, <2>2, <3>3
    <3> QED
      BY <1>2, <1>8, <3>2, <3>4 DEF Heard
  <2> QED
    BY <2>1, <2>2
<1> QED
  BY <1>9, <1>10

\* Every step keeps it.
LEMMA MixKeeps == EngineInv /\ MixInv /\ [Next]_vars => MixInv'
<1> SUFFICES ASSUME EngineInv, MixInv, [Next]_vars PROVE MixInv'
  OBVIOUS
<1>1. ASSUME NEW id \in Ids \union {NoId}, NEW s \in Starts, NEW decay \in Decays,
             PushFof(id, s, decay)
      PROVE  MixInv'
  BY <1>1, MixQuiet DEF PushFof, BridgeMayPush, mixed
<1>2. ASSUME NEW id \in Ids, PushKill(id)
      PROVE  MixInv'
  BY <1>2, MixQuiet DEF PushKill, BridgeMayPush, mixed
<1>3. ASSUME NEW d \in Drifts, NEW n \in BlockSizes,
             NEW fire \in SUBSET MayLeave(clock + d + n),
             NEW drop \in SUBSET (scheduled \ fire),
             DrainWheels(d, n, fire, drop)
      PROVE  MixInv'
  BY <1>3, MixQuiet DEF DrainWheels, mixed
<1>4. CASE DrainKills
  BY <1>4, MixQuiet DEF DrainKills, mixed
<1>5. CASE SpawnOne
  BY <1>5, MixQuiet DEF SpawnOne, mixed
<1>6. CASE SpawnDone
  BY <1>6, MixQuiet DEF SpawnDone, mixed
<1>7. CASE KillOne
  BY <1>7, MixQuiet DEF KillOne, mixed
<1>8. CASE BeginFill
  BY <1>8, BeginFillKeepsMix
<1>9. CASE FillOne
  BY <1>9, FillOneKeepsMix
<1>10. CASE RemoveDead
  <2>1. outputs' = Silence /\ pc' = "idle"
    BY <1>10 DEF RemoveDead
  <2> QED
    BY <2>1 DEF MixInv, OwnSamples, Silence
<1>11. CASE UNCHANGED vars
  <2>1. /\ Active' = Active
        /\ UNCHANGED <<pc, blockStart, clock, active, fof, activeKeys, outputs, sent>>
    BY <1>11 DEF vars, clocks, pool, mixed, Active
  <2> QED
    BY <2>1 DEF MixInv, OwnSamples, Heard
<1>12. CASE AtBound
  BY <1>11, <1>12 DEF AtBound
<1> QED
  BY <1>1, <1>2, <1>3, <1>4, <1>5, <1>6, <1>7, <1>8, <1>9, <1>10, <1>11, <1>12, Zenon
     DEF Next, ProcessBlock

\* Although two scratch buffers serve every grain in turn, no sample meets
\* another grain's gain or reaches a channel its grain is not panned to, and a
\* grain that begins in a block and survives it is heard on each of its channels
\* (HeardOnItsChannels).
THEOREM MixIsSound == Spec => []HeardOnItsChannels
<1>1. Init => MixInv
  BY DEF Init, MixInv, OwnSamples, Silence
<1>2. EngineInv /\ MixInv /\ [Next]_vars => MixInv'
  BY MixKeeps
<1>3. EngineInv /\ MixInv => HeardOnItsChannels
  <2> SUFFICES ASSUME EngineInv, MixInv, pc = "fill", activeKeys = <<>>,
                      NEW c \in ChannelsOf(PanMode)
               PROVE  OwnSamples(c) /\ \A g \in Active : Heard(g, c)
    BY Zenon DEF HeardOnItsChannels, OwnSamples, Heard
  <2>1. Range(activeKeys) = {}
    BY DEF Range
  <2>2. OwnSamples(c) /\ \A k \in DOMAIN active : Heard(active[k], c)
    BY <2>1 DEF MixInv
  <2> QED
    BY <2>2 DEF Active
<1> QED
  BY <1>1, <1>2, <1>3, EngineInvHolds, PTL DEF Spec

=============================================================================
