---------------------------- MODULE ServerProofs ----------------------------
(***************************************************************************)
(* Proofs about Server, for every capacity, clock, block size and number   *)
(* of requests.  What the scheduler does inside the server is a WheelStep, *)
(* so all that TimeWheelProofs shows of such steps holds here as well.     *)
(* (That module comes with MCTimeWheel's variable `steady', which Server   *)
(* does not use and nothing here mentions.)                                *)
(***************************************************************************)
EXTENDS Server, TimeWheelProofs, SequenceTheorems

-----------------------------------------------------------------------------
(* Chains of queues. *)

\* Appending an element is concatenating a sequence of one.
LEMMA OneMoreIsConcat ==
    ASSUME NEW s \in Seq(Nat), NEW x \in Nat
    PROVE  Append(s, x) = s \o <<x>> /\ Append(s, x) \in Seq(Nat)
<1>1. <<x>> \in Seq(Nat) /\ Len(<<x>>) = 1 /\ <<x>>[1] = x
    OBVIOUS
<1>2. /\ s \o <<x>> \in Seq(Nat) /\ Len(s \o <<x>>) = Len(s) + 1 /\ Len(s) \in Nat
      /\ \A i \in 1 .. Len(s) + 1 :
            (s \o <<x>>)[i] = IF i <= Len(s) THEN s[i] ELSE <<x>>[i - Len(s)]
    BY <1>1, ConcatProperties, LenProperties
<1>3. /\ Append(s, x) \in Seq(Nat) /\ Len(Append(s, x)) = Len(s) + 1
      /\ \A i \in 1 .. Len(s) + 1 : Append(s, x)[i] = IF i <= Len(s) THEN s[i] ELSE x
    OBVIOUS
<1>4. \A i \in 1 .. Len(s) + 1 : Append(s, x)[i] = (s \o <<x>>)[i]
    BY <1>1, <1>2, <1>3
<1>5. QED
    BY <1>2, <1>3, <1>4, SeqEqual

\* A sequence is its head followed by its tail.
LEMMA HeadThenTail ==
    ASSUME NEW s \in Seq(Nat), s # <<>>
    PROVE  /\ <<Head(s)>> \o Tail(s) = s
           /\ Head(s) \in Nat /\ <<Head(s)>> \in Seq(Nat) /\ Tail(s) \in Seq(Nat)
<1>1. /\ Head(s) \in Nat /\ Head(s) = s[1] /\ Tail(s) \in Seq(Nat)
      /\ Len(s) \in Nat /\ Len(s) >= 1 /\ Len(Tail(s)) = Len(s) - 1
      /\ \A i \in 1 .. Len(s) - 1 : Tail(s)[i] = s[i + 1]
    BY HeadTailProperties, EmptySeq, LenProperties
<1>2. <<Head(s)>> \in Seq(Nat) /\ Len(<<Head(s)>>) = 1 /\ <<Head(s)>>[1] = s[1]
    BY <1>1
<1>3. /\ <<Head(s)>> \o Tail(s) \in Seq(Nat)
      /\ Len(<<Head(s)>> \o Tail(s)) = Len(s)
      /\ \A i \in 1 .. Len(s) :
            (<<Head(s)>> \o Tail(s))[i]
               = IF i <= 1 THEN <<Head(s)>>[i] ELSE Tail(s)[i - 1]
  <2>1. 1 + (Len(s) - 1) = Len(s)
      BY <1>1
  <2>2. QED
      BY <1>1, <1>2, <2>1, ConcatProperties
<1>4. \A i \in 1 .. Len(s) : (<<Head(s)>> \o Tail(s))[i] = s[i]
  <2>1. SUFFICES ASSUME NEW i \in 1 .. Len(s)
                 PROVE  (<<Head(s)>> \o Tail(s))[i] = s[i]
      OBVIOUS
  <2>2. CASE i = 1
      BY <1>1, <1>2, <1>3, <2>2
  <2>3. CASE i # 1
    <3>1. i - 1 \in 1 .. Len(s) - 1 /\ ~(i <= 1)
        BY <1>1, <2>3
    <3>2. Tail(s)[i - 1] = s[(i - 1) + 1] /\ (i - 1) + 1 = i
        BY <1>1, <3>1
    <3>3. QED
        BY <1>3, <3>1, <3>2
  <2>4. QED
      BY <2>2, <2>3
<1>5. QED
    BY <1>1, <1>2, <1>3, <1>4, SeqEqual

\* The first element of a queue goes into an empty hand: the chain is the same.
LEMMA TakenIntoHand ==
    ASSUME NEW a \in Seq(Nat), NEW c \in Seq(Nat), c # <<>>
    PROVE  (a \o <<Head(c)>>) \o Tail(c) = (a \o <<>>) \o c
<1>1. <<Head(c)>> \in Seq(Nat) /\ Tail(c) \in Seq(Nat) /\ <<Head(c)>> \o Tail(c) = c
    BY HeadThenTail
<1>2. (a \o <<Head(c)>>) \o Tail(c) = a \o (<<Head(c)>> \o Tail(c))
    BY <1>1, ConcatAssociative, SMTT(30)
<1>3. a \o <<>> = a
    BY ConcatEmptySeq
<1>4. QED
    BY <1>1, <1>2, <1>3

\* What is in the hand goes to the end of the next queue: the chain is the same.
LEMMA PassedOn ==
    ASSUME NEW a \in Seq(Nat), NEW x \in Nat, NEW c \in Seq(Nat)
    PROVE  (Append(a, x) \o <<>>) \o c = (a \o <<x>>) \o c
<1>1. Append(a, x) = a \o <<x>> /\ Append(a, x) \in Seq(Nat)
    BY OneMoreIsConcat
<1>2. Append(a, x) \o <<>> = Append(a, x)
    BY <1>1, ConcatEmptySeq
<1>3. QED
    BY <1>1, <1>2

\* A chain grows where its last queue does.
LEMMA GrowsAtItsEnd ==
    ASSUME NEW a \in Seq(Nat), NEW c \in Seq(Nat), NEW x \in Nat
    PROVE  a \o Append(c, x) = Append(a \o c, x)
<1>1. /\ Append(c, x) = c \o <<x>> /\ <<x>> \in Seq(Nat) /\ a \o c \in Seq(Nat)
    BY OneMoreIsConcat, ConcatProperties
<1>2. (a \o c) \o <<x>> = a \o (c \o <<x>>)
    BY <1>1, ConcatAssociative
<1>3. Append(a \o c, x) = (a \o c) \o <<x>>
    BY <1>1, OneMoreIsConcat
<1>4. QED
    BY <1>1, <1>2, <1>3

\* A new last element of its own, larger number.
LEMMA OneMore ==
    ASSUME NEW s \in Seq(Nat), NEW n \in Nat, NEW m \in SUBSET (1 .. n),
           InOrderExcept(s, 1 .. n, m)
    PROVE  InOrderExcept(Append(s, n + 1), 1 .. n + 1, m)
<1> DEFINE t == Append(s, n + 1)
<1>1. /\ Len(s) \in Nat /\ DOMAIN s = 1 .. Len(s) /\ DOMAIN t = 1 .. Len(s) + 1
      /\ \A i \in DOMAIN s : t[i] = s[i] /\ s[i] \in Nat
      /\ t[Len(s) + 1] = n + 1
    OBVIOUS
<1>2. /\ \A i, j \in DOMAIN s : i < j => s[i] < s[j]
      /\ {s[i] : i \in DOMAIN s} = (1 .. n) \ m
    BY DEF InOrderExcept, Range
<1>3. \A i \in DOMAIN s : s[i] \in 1 .. n /\ s[i] \notin m
    BY <1>2
<1>4. ASSUME NEW i \in DOMAIN t, NEW j \in DOMAIN t, i < j PROVE t[i] < t[j]
  <2>1. i \in DOMAIN s
      BY <1>1, <1>4
  <2>2. CASE j \in DOMAIN s
      BY <1>1, <1>2, <1>4, <2>1, <2>2
  <2>3. CASE j = Len(s) + 1
      BY <1>1, <1>3, <2>1, <2>3
  <2>4. QED
      BY <1>1, <2>2, <2>3
<1>5. {t[i] : i \in DOMAIN t} = (1 .. n + 1) \ m
  <2>1. ASSUME NEW i \in DOMAIN t PROVE t[i] \in (1 .. n + 1) \ m
    <3>1. CASE i \in DOMAIN s
        BY <1>1, <1>3, <3>1
    <3>2. CASE i = Len(s) + 1
        BY <1>1, <3>2
    <3>3. QED
        BY <1>1, <3>1, <3>2
  <2>2. ASSUME NEW v \in (1 .. n + 1) \ m PROVE \E i \in DOMAIN t : t[i] = v
    <3>1. CASE v = n + 1
        BY <1>1, <3>1
    <3>2. CASE v # n + 1
      <4>1. v \in (1 .. n) \ m
          BY <3>2
      <4>2. PICK i \in DOMAIN s : s[i] = v
          BY <1>2, <4>1
      <4>3. i \in DOMAIN t /\ t[i] = v
          BY <1>1, <4>2
      <4>4. QED
          BY <4>3
    <3>3. QED
        BY <3>1, <3>2
  <2>3. QED
      BY <2>1, <2>2
<1> HIDE DEF t
<1>6. InOrderExcept(t, 1 .. n + 1, m)
    BY <1>4, <1>5 DEF InOrderExcept, Range
<1>7. QED
    BY <1>6 DEF t

\* One element is dropped from a chain, and only that one is missing then.
LEMMA OneGone ==
    ASSUME NEW a \in Seq(Nat), NEW x \in Nat, NEW c \in Seq(Nat),
           NEW all, NEW m, InOrderExcept((a \o <<x>>) \o c, all, m)
    PROVE  InOrderExcept((a \o <<>>) \o c, all, m \union {x}) /\ x \in all
<1> DEFINE b == (a \o <<x>>) \o c
           d == a \o c
           p == Len(a) + 1
<1>1. <<x>> \in Seq(Nat) /\ Len(<<x>>) = 1 /\ <<x>>[1] = x
    OBVIOUS
<1>2. /\ Len(a) \in Nat /\ Len(c) \in Nat
      /\ a \o <<x>> \in Seq(Nat) /\ Len(a \o <<x>>) = Len(a) + 1
      /\ \A i \in 1 .. Len(a) + 1 :
            (a \o <<x>>)[i] = IF i <= Len(a) THEN a[i] ELSE <<x>>[i - Len(a)]
    BY <1>1, ConcatProperties, LenProperties
<1>3. /\ b \in Seq(Nat) /\ Len(b) = Len(a) + 1 + Len(c)
      /\ \A i \in 1 .. Len(a) + 1 + Len(c) :
            b[i] = IF i <= Len(a) + 1 THEN (a \o <<x>>)[i] ELSE c[i - (Len(a) + 1)]
    BY <1>2, ConcatProperties
<1>4. /\ d \in Seq(Nat) /\ Len(d) = Len(a) + Len(c)
      /\ \A i \in 1 .. Len(a) + Len(c) :
            d[i] = IF i <= Len(a) THEN a[i] ELSE c[i - Len(a)]
    BY ConcatProperties
<1>5. /\ DOMAIN b = 1 .. Len(b) /\ DOMAIN d = 1 .. Len(d) /\ Len(b) = Len(d) + 1
      /\ \A i \in DOMAIN b : b[i] \in Nat
      /\ p \in DOMAIN b /\ Len(b) \in Nat /\ Len(d) \in Nat /\ p \in Nat
    BY <1>2, <1>3, <1>4, SMTT(30)
<1>6. b[p] = x
  <2>1. p \in 1 .. Len(a) + 1 + Len(c) /\ p <= Len(a) + 1 /\ ~(p <= Len(a))
        /\ p - Len(a) = 1 /\ p \in 1 .. Len(a) + 1
      BY <1>2
  <2>2. b[p] = (a \o <<x>>)[p] /\ (a \o <<x>>)[p] = <<x>>[p - Len(a)]
      BY <1>2, <1>3, <2>1
  <2>3. QED
      BY <1>1, <2>1, <2>2
<1>7. \A i \in DOMAIN d : d[i] = b[IF i < p THEN i ELSE i + 1]
  <2>1. SUFFICES ASSUME NEW i \in DOMAIN d
                 PROVE  d[i] = b[IF i < p THEN i ELSE i + 1]
      OBVIOUS
  <2>2. CASE i < p
    <3>1. i \in 1 .. Len(a) /\ i \in 1 .. Len(a) + 1 + Len(c) /\ i \in 1 .. Len(a) + Len(c)
          /\ i \in 1 .. Len(a) + 1
        BY <1>2, <1>4, <1>5, <2>2
    <3>2. d[i] = a[i] /\ b[i] = (a \o <<x>>)[i] /\ (a \o <<x>>)[i] = a[i]
        BY <1>2, <1>3, <1>4, <3>1
    <3>3. QED
        BY <2>2, <3>2
  <2>3. CASE ~(i < p)
    <3>1. /\ ~(i <= Len(a)) /\ i \in 1 .. Len(a) + Len(c)
          /\ i + 1 \in 1 .. Len(a) + 1 + Len(c) /\ ~(i + 1 <= Len(a) + 1)
          /\ (i + 1) - (Len(a) + 1) = i - Len(a)
        BY <1>2, <1>4, <1>5, <2>3, SMTT(30)
    <3>2. d[i] = c[i - Len(a)] /\ b[i + 1] = c[(i + 1) - (Len(a) + 1)]
        BY <1>3, <1>4, <3>1
    <3>3. QED
        BY <2>3, <3>1, <3>2
  <2>4. QED
      BY <2>2, <2>3
<1>8. InOrderExcept(b, all, m)
    OBVIOUS
<1>9. (a \o <<>>) \o c = d
    BY ConcatEmptySeq
<1> HIDE DEF b, d, p
<1>10. /\ \A i, j \in DOMAIN b : i < j => b[i] < b[j]
       /\ {b[i] : i \in DOMAIN b} = all \ m
    BY <1>8 DEF InOrderExcept, Range
<1>11. ASSUME NEW i \in DOMAIN d, NEW j \in DOMAIN d, i < j PROVE d[i] < d[j]
  <2> DEFINE At(k) == IF k < p THEN k ELSE k + 1
  <2>1. At(i) \in DOMAIN b /\ At(j) \in DOMAIN b /\ At(i) < At(j)
      BY <1>5, <1>11
  <2>2. d[i] = b[At(i)] /\ d[j] = b[At(j)]
      BY <1>7
  <2> HIDE DEF At
  <2>3. QED
      BY <1>10, <2>1, <2>2
<1>12. ASSUME NEW i \in DOMAIN d PROVE d[i] \in all \ (m \union {x})
  <2> DEFINE k == IF i < p THEN i ELSE i + 1
  <2>1. k \in DOMAIN b /\ (k < p \/ p < k)
      BY <1>5
  <2>2. d[i] = b[k]
      BY <1>7
  <2> HIDE DEF k
  <2>3. b[k] # b[p]
    <3>1. b[k] < b[p] \/ b[p] < b[k]
        BY <1>5, <1>10, <2>1
    <3>2. QED
        BY <1>5, <2>1, <3>1
  <2>4. QED
      BY <1>6, <1>10, <2>1, <2>2, <2>3
<1>13. ASSUME NEW v \in all \ (m \union {x}) PROVE \E i \in DOMAIN d : d[i] = v
  <2>1. PICK k \in DOMAIN b : b[k] = v
      BY <1>10
  <2>2. k # p
      BY <1>6, <2>1
  <2> DEFINE i == IF k < p THEN k ELSE k - 1
  <2>3. i \in DOMAIN d /\ k = IF i < p THEN i ELSE i + 1
      BY <1>5, <2>1, <2>2
  <2> HIDE DEF i
  <2>4. d[i] = v
      BY <1>7, <2>1, <2>3
  <2>5. QED
      BY <2>3, <2>4
<1>14. {d[i] : i \in DOMAIN d} = all \ (m \union {x})
    BY <1>12, <1>13
<1>15. InOrderExcept(d, all, m \union {x})
    BY <1>11, <1>14 DEF InOrderExcept, Range
<1>16. x \in all
    BY <1>5, <1>6, <1>10
<1>17. QED
    BY <1>9, <1>15, <1>16

-----------------------------------------------------------------------------
(* The scheduler inside the server. *)

\* What the bridging thread, the callback and the clients leave in the queues,
\* the clock and the histories.
ServerTypes ==
    /\ fofRing \in Seq(Nat) /\ killRing \in Seq(Nat) /\ killQueue \in Seq(Nat)
    /\ hand \in Seq(Nat) /\ Len(hand) <= 1 /\ turn \in {"fof", "kill"}
    /\ submitted \in Seq(Nat) /\ forwarded \in Seq(Nat)
    /\ kills \in Seq(Nat) /\ obeyed \in Seq(Nat)
    /\ mode \in ClockModes /\ frame \in Nat /\ currentSample \in Nat

\* The actions of one thread, apart.
LEMMA ServerSteps ==
    ASSUME [ServerNext]_allVars
    PROVE  \/ \E s \in StartSamples : AddFof(s)
           \/ \E r \in DOMAIN submitted : Kill(r)
           \/ \E m \in Switches : SetClockMode(m)
           \/ BridgePop \/ BridgePush \/ BridgePopKill \/ BridgePushKill
           \/ BridgePassOver
           \/ \E t \in BlockStarts, n \in BlockSizes, j \in Jitters : Callback(t, n, j)
           \/ DrainStep \/ Publish
           \/ UNCHANGED allVars
BY DEF ServerNext, Bridge, Audio

\* A hand that holds something holds one thing.
LEMMA InHand ==
    ASSUME ServerTypes, hand # <<>>
    PROVE  hand[1] \in Nat /\ hand = <<hand[1]>>
<1>1. hand \in Seq(Nat) /\ Len(hand) <= 1 /\ Len(hand) \in Nat \ {0}
    BY EmptySeq DEF ServerTypes
<1>2. Len(hand) = 1 /\ hand[1] \in Nat
  <2>1. \A n \in Nat \ {0} : n <= 1 => n = 1 /\ 1 \in 1 .. n
      OBVIOUS
  <2>2. Len(hand) = 1 /\ 1 \in 1 .. Len(hand)
      BY <1>1, <2>1, Zenon
  <2>3. QED
      BY <1>1, <2>2, ElementOfSeq
<1>3. <<hand[1]>> \in Seq(Nat) /\ Len(<<hand[1]>>) = 1 /\ <<hand[1]>>[1] = hand[1]
    BY <1>2
<1>4. \A i \in 1 .. Len(hand) : hand[i] = <<hand[1]>>[i]
    BY <1>2, <1>3
<1>5. QED
    BY <1>1, <1>2, <1>3, <1>4, SeqEqual

\* A block begins at some sample.
LEMMA BlockStartsAtSample ==
    ASSUME TypeOK, ServerTypes
    PROVE  BlockStarts \subseteq Nat
BY ServerAssumption DEF TypeOK, ServerTypes, BlockStarts

\* The frame counter stays a natural number across its wrap.
LEMMA NextFrameType ==
    ASSUME ServerTypes, NEW n \in BlockSizes, NEW j \in Jitters
    PROVE  NextFrame(n, j) \in Nat
<1>1. frame \in Nat /\ n \in Nat /\ j \in Int /\ n + j > 0
    BY ServerAssumption, ClockAssumption DEF ServerTypes
<1>2. frame + n + j \in Nat
    BY <1>1
<1>3. FrameWrap \in Nat \ {0}
    BY ServerAssumption
<1>4. (frame + n + j) % FrameWrap \in 0 .. FrameWrap - 1
    BY <1>2, <1>3, ModDef
<1>5. QED
    BY <1>1, <1>3, <1>4 DEF NextFrame

\* Everything begins empty.
LEMMA InitServerTypes == ServerInit => ServerTypes
<1>1. SUFFICES ASSUME ServerInit PROVE ServerTypes
    OBVIOUS
<1>2. /\ fofRing \in Seq(Nat) /\ killRing \in Seq(Nat) /\ killQueue \in Seq(Nat)
      /\ hand \in Seq(Nat) /\ submitted \in Seq(Nat) /\ forwarded \in Seq(Nat)
      /\ kills \in Seq(Nat) /\ obeyed \in Seq(Nat) /\ Len(hand) <= 1
    BY <1>1, EmptySeq DEF ServerInit
<1>3. /\ turn \in {"fof", "kill"} /\ mode \in ClockModes
      /\ frame \in Nat /\ currentSample \in Nat
    BY <1>1, ServerAssumption DEF ServerInit
<1>4. QED
    BY <1>2, <1>3 DEF ServerTypes

\* A step of the server is a step of the scheduler in it, or none of its.
LEMMA ServerStepOfWheel ==
    ASSUME LedgerInv, ServerTypes, [ServerNext]_allVars,
           BridgePush => submitted[hand[1]] \in Nat
    PROVE  [WheelStep]_vars
<1>1. CASE BridgePush
  <2>1. CASE Forward
      BY <1>1, <2>1 DEF Forward, WheelStep
  <2>2. CASE UNCHANGED vars
      BY <2>2
  <2>3. QED
      BY <1>1, <2>1, <2>2 DEF BridgePush
<1>2. CASE \E t \in BlockStarts, n \in BlockSizes, j \in Jitters : Callback(t, n, j)
  <2>1. PICK t \in BlockStarts, n \in BlockSizes, j \in Jitters : Callback(t, n, j)
      BY <1>2
  <2>2. t - blockEnd \in Int
      BY BlockStartsAtSample DEF LedgerInv, WheelInv, TypeOK
  <2>3. QED
      BY <2>1, <2>2 DEF Callback, WheelStep
<1>3. CASE DrainStep
    BY <1>3 DEF DrainStep, WheelStep
<1>4. CASE \/ \E s \in StartSamples : AddFof(s)
           \/ \E r \in DOMAIN submitted : Kill(r)
           \/ \E m \in Switches : SetClockMode(m)
           \/ BridgePop \/ BridgePopKill \/ BridgePushKill \/ BridgePassOver \/ Publish
           \/ UNCHANGED allVars
    BY <1>4 DEF AddFof, Kill, SetClockMode, BridgePop, BridgePopKill, BridgePushKill,
                BridgePassOver, Publish, allVars
<1>5. QED
    BY <1>1, <1>2, <1>3, <1>4, ServerSteps

\* Every step of the server keeps the types.
LEMMA NextServerTypes ==
    ASSUME TypeOK, ServerTypes, [ServerNext]_allVars
    PROVE  ServerTypes'
<1>1. CASE \E s \in StartSamples : AddFof(s)
  <2>1. PICK s \in StartSamples : AddFof(s)
      BY <1>1
  <2>2. s \in Nat /\ Len(submitted) + 1 \in Nat
      BY ServerAssumption DEF ServerTypes
  <2>3. /\ submitted' = Append(submitted, s)
        /\ fofRing' = Append(fofRing, Len(submitted) + 1)
      BY <2>1 DEF AddFof
  <2>4. submitted' \in Seq(Nat) /\ fofRing' \in Seq(Nat)
      BY <2>2, <2>3, OneMoreIsConcat DEF ServerTypes
  <2>5. UNCHANGED <<forwarded, killVars, endVars, turn, hand, clockVars>>
      BY <2>1 DEF AddFof
  <2>6. QED
      BY <2>4, <2>5 DEF ServerTypes, killVars, endVars, clockVars
<1>2. CASE \E r \in DOMAIN submitted : Kill(r)
  <2>1. PICK r \in DOMAIN submitted : Kill(r)
      BY <1>2
  <2>2. r \in Nat /\ Len(kills) + 1 \in Nat
      BY DEF ServerTypes
  <2>3. /\ kills' = Append(kills, r)
        /\ killRing' = Append(killRing, Len(kills) + 1)
      BY <2>1 DEF Kill
  <2>4. kills' \in Seq(Nat) /\ killRing' \in Seq(Nat)
      BY <2>2, <2>3, OneMoreIsConcat DEF ServerTypes
  <2>5. UNCHANGED <<fofVars, endVars, turn, hand, clockVars>>
      BY <2>1 DEF Kill
  <2>6. QED
      BY <2>4, <2>5 DEF ServerTypes, fofVars, endVars, clockVars
<1>3. CASE \E m \in Switches : SetClockMode(m)
    BY <1>3, ServerAssumption
    DEF ServerTypes, SetClockMode, fofVars, killVars, endVars
<1>4. CASE BridgePop
  <2>1. /\ fofRing # <<>> /\ hand' = <<Head(fofRing)>> /\ fofRing' = Tail(fofRing)
        /\ UNCHANGED <<submitted, forwarded, killVars, endVars, turn, clockVars>>
      BY <1>4 DEF BridgePop
  <2>2. hand' \in Seq(Nat) /\ fofRing' \in Seq(Nat) /\ Len(hand') <= 1
      BY <2>1, HeadThenTail DEF ServerTypes
  <2>3. QED
      BY <2>1, <2>2 DEF ServerTypes, killVars, endVars, clockVars
<1>5. CASE BridgePush
  <2>1. /\ hand # <<>> /\ hand' = <<>> /\ turn' = "kill"
        /\ \/ forwarded' = Append(forwarded, hand[1])
           \/ forwarded' = forwarded
        /\ UNCHANGED <<fofRing, submitted, killVars, endVars, clockVars>>
      BY <1>5 DEF BridgePush, Forward
  <2>2. forwarded' \in Seq(Nat)
    <3>1. hand[1] \in Nat
        BY <2>1, InHand
    <3>2. forwarded \in Seq(Nat)
        BY DEF ServerTypes
    <3>3. QED
        BY <2>1, <3>1, <3>2, OneMoreIsConcat
  <2>3. hand' \in Seq(Nat) /\ Len(hand') <= 1
      BY <2>1, EmptySeq
  <2>4. QED
      BY <2>1, <2>2, <2>3 DEF ServerTypes, killVars, endVars, clockVars
<1>6. CASE BridgePopKill
  <2>1. /\ killRing # <<>> /\ hand' = <<Head(killRing)>> /\ killRing' = Tail(killRing)
        /\ UNCHANGED <<fofVars, kills, endVars, turn, clockVars>>
      BY <1>6 DEF BridgePopKill
  <2>2. hand' \in Seq(Nat) /\ killRing' \in Seq(Nat) /\ Len(hand') <= 1
      BY <2>1, HeadThenTail DEF ServerTypes
  <2>3. QED
      BY <2>1, <2>2 DEF ServerTypes, fofVars, endVars, clockVars
<1>7. CASE BridgePushKill
  <2>1. /\ hand # <<>> /\ hand' = <<>> /\ turn' = "fof"
        /\ \/ killQueue' = Append(killQueue, hand[1])
           \/ killQueue' = killQueue
        /\ UNCHANGED <<fofVars, killRing, kills, obeyed, clockVars>>
      BY <1>7 DEF BridgePushKill
  <2>2. killQueue' \in Seq(Nat)
    <3>1. hand[1] \in Nat
        BY <2>1, InHand
    <3>2. killQueue \in Seq(Nat)
        BY DEF ServerTypes
    <3>3. QED
        BY <2>1, <3>1, <3>2, OneMoreIsConcat
  <2>3. hand' \in Seq(Nat) /\ Len(hand') <= 1
      BY <2>1, EmptySeq
  <2>4. QED
      BY <2>1, <2>2, <2>3 DEF ServerTypes, fofVars, clockVars
<1>8. CASE BridgePassOver
  <2>1. /\ turn' \in {"fof", "kill"}
        /\ UNCHANGED <<fofVars, killVars, endVars, hand, clockVars>>
      BY <1>8 DEF BridgePassOver
  <2>2. QED
      BY <2>1 DEF ServerTypes, fofVars, killVars, endVars, clockVars
<1>9. CASE \E t \in BlockStarts, n \in BlockSizes, j \in Jitters : Callback(t, n, j)
  <2>1. PICK t \in BlockStarts, n \in BlockSizes, j \in Jitters : Callback(t, n, j)
      BY <1>9
  <2>2. frame' \in Nat
      BY <2>1, NextFrameType DEF Callback
  <2>3. UNCHANGED <<fofVars, killVars, endVars, turn, hand, mode, currentSample>>
      BY <2>1 DEF Callback
  <2>4. QED
      BY <2>2, <2>3 DEF ServerTypes, fofVars, killVars, endVars
<1>10. CASE Publish
  <2>1. /\ killQueue' = <<>> /\ obeyed' = obeyed \o killQueue
        /\ currentSample' = blockEnd
        /\ UNCHANGED <<fofVars, killVars, turn, hand, mode, frame>>
      BY <1>10 DEF Publish, PublishedClock
  <2>2. /\ killQueue' \in Seq(Nat) /\ obeyed' \in Seq(Nat) /\ currentSample' \in Nat
      BY <2>1, EmptySeq, ConcatProperties DEF ServerTypes, TypeOK
  <2>3. QED
      BY <2>1, <2>2 DEF ServerTypes, fofVars, killVars
<1>11. CASE UNCHANGED serverVars
    BY <1>11 DEF ServerTypes, serverVars, fofVars, killVars, endVars, clockVars
<1>12. QED
    BY <1>1, <1>2, <1>3, <1>4, <1>5, <1>6, <1>7, <1>8, <1>9, <1>10, <1>11, ServerSteps
    DEF DrainStep, allVars

-----------------------------------------------------------------------------
(* The two chains of queues. *)

\* ChainInOrder's part about FOFs, and that only those submitted were dropped.
FofChain == InOrderExcept(forwarded \o Held("fof") \o fofRing, 1 .. Len(submitted), lost)
FofPart  == FofChain /\ lost \subseteq 1 .. Len(submitted)

\* The same of kills.
KillChain == InOrderExcept(obeyed \o killQueue \o Held("kill") \o killRing,
                           1 .. Len(kills), lostKills)
KillPart  == KillChain /\ lostKills \subseteq 1 .. Len(kills)

\* What the hand holds for a ring is a sequence, and whose turn it is not, has
\* nothing in it.
LEMMA HeldType ==
    ASSUME ServerTypes, NEW ring
    PROVE  Held(ring) \in Seq(Nat)
BY EmptySeq DEF ServerTypes, Held

\* Of two queues in a row, both are part of the chain.
LEMMA ConcatRange ==
    ASSUME NEW s \in Seq(Nat), NEW t \in Seq(Nat)
    PROVE  s \o t \in Seq(Nat) /\ Range(s) \subseteq Range(s \o t)
           /\ Range(t) \subseteq Range(s \o t)
<1> DEFINE b == s \o t
<1>1. /\ b \in Seq(Nat) /\ Len(b) = Len(s) + Len(t) /\ Len(s) \in Nat /\ Len(t) \in Nat
      /\ DOMAIN s = 1 .. Len(s) /\ DOMAIN t = 1 .. Len(t)
      /\ DOMAIN b = 1 .. Len(s) + Len(t)
      /\ \A i \in 1 .. Len(s) + Len(t) :
            b[i] = IF i <= Len(s) THEN s[i] ELSE t[i - Len(s)]
    BY ConcatProperties, LenProperties
<1> HIDE DEF b
<1>2. ASSUME NEW i \in DOMAIN s PROVE i \in DOMAIN b /\ b[i] = s[i]
  <2>1. i \in 1 .. Len(s) + Len(t) /\ i <= Len(s)
      BY <1>1
  <2>2. QED
      BY <1>1, <2>1
<1>3. ASSUME NEW i \in DOMAIN t PROVE i + Len(s) \in DOMAIN b /\ b[i + Len(s)] = t[i]
  <2>1. i + Len(s) \in 1 .. Len(s) + Len(t) /\ ~(i + Len(s) <= Len(s))
        /\ (i + Len(s)) - Len(s) = i
      BY <1>1
  <2>2. QED
      BY <1>1, <2>1
<1>4. Range(s) \subseteq Range(b)
    BY <1>2 DEF Range
<1>5. Range(t) \subseteq Range(b)
    BY <1>3 DEF Range
<1>6. QED
    BY <1>1, <1>4, <1>5 DEF b

\* All that is in a part of the FOFs' chain was submitted.
LEMMA FofsWereSubmitted ==
    ASSUME ServerTypes, FofPart
    PROVE  /\ Range(forwarded) \subseteq DOMAIN submitted
           /\ Range(Held("fof")) \subseteq DOMAIN submitted
           /\ Range(fofRing) \subseteq DOMAIN submitted
<1>1. /\ forwarded \in Seq(Nat) /\ fofRing \in Seq(Nat) /\ Held("fof") \in Seq(Nat)
      /\ DOMAIN submitted = 1 .. Len(submitted)
    BY HeldType DEF ServerTypes
<1>2. Range((forwarded \o Held("fof")) \o fofRing) \subseteq 1 .. Len(submitted)
    BY DEF FofPart, FofChain, InOrderExcept
<1>3. /\ forwarded \o Held("fof") \in Seq(Nat)
      /\ Range(forwarded) \subseteq Range(forwarded \o Held("fof"))
      /\ Range(Held("fof")) \subseteq Range(forwarded \o Held("fof"))
    BY <1>1, ConcatRange
<1>4. /\ Range(forwarded \o Held("fof"))
           \subseteq Range((forwarded \o Held("fof")) \o fofRing)
      /\ Range(fofRing) \subseteq Range((forwarded \o Held("fof")) \o fofRing)
    BY <1>1, <1>3, ConcatRange
<1>5. QED
    BY <1>1, <1>2, <1>3, <1>4

\* The kills in the queue were submitted.
LEMMA QueuedKillsWereSubmitted ==
    ASSUME ServerTypes, KillPart
    PROVE  Range(killQueue) \subseteq DOMAIN kills
<1>1. /\ obeyed \in Seq(Nat) /\ killQueue \in Seq(Nat) /\ killRing \in Seq(Nat)
      /\ Held("kill") \in Seq(Nat) /\ DOMAIN kills = 1 .. Len(kills)
    BY HeldType DEF ServerTypes
<1> DEFINE c2 == obeyed \o killQueue
           c3 == c2 \o Held("kill")
<1>2. Range(c3 \o killRing) \subseteq 1 .. Len(kills)
    BY DEF KillPart, KillChain, InOrderExcept
<1>3. c2 \in Seq(Nat) /\ Range(killQueue) \subseteq Range(c2)
    BY <1>1, ConcatRange
<1> HIDE DEF c2
<1>4. c3 \in Seq(Nat) /\ Range(c2) \subseteq Range(c3)
    BY <1>1, <1>3, ConcatRange
<1> HIDE DEF c3
<1>5. Range(c3) \subseteq Range(c3 \o killRing)
    BY <1>1, <1>4, ConcatRange
<1>6. QED
    BY <1>1, <1>2, <1>3, <1>4, <1>5

\* A FOF that leaves the hand does so to the ring of the scheduler or is dropped.
LEMMA PushFofChain ==
    ASSUME ServerTypes, FofPart, BridgePush
    PROVE  FofPart'
<1> DEFINE x == hand[1]
<1>1. /\ hand # <<>> /\ turn = "fof" /\ turn' = "kill"
      /\ submitted' = submitted
      /\ fofRing' = fofRing
      /\ \/ forwarded' = Append(forwarded, x) /\ lost' = lost
         \/ forwarded' = forwarded /\ lost' = lost \union {x}
    BY DEF BridgePush, Forward
<1>2. x \in Nat /\ hand = <<x>>
    BY <1>1, InHand
<1>3. /\ forwarded \in Seq(Nat) /\ fofRing \in Seq(Nat)
    BY DEF ServerTypes
<1>4. Held("fof") = <<x>>
    BY <1>1, <1>2 DEF Held
<1>5. Held("fof")' = <<>>
    BY <1>1 DEF Held
<1> HIDE DEF x
<1>6. InOrderExcept((forwarded \o <<x>>) \o fofRing, 1 .. Len(submitted), lost)
      /\ lost \subseteq 1 .. Len(submitted)
    BY <1>4 DEF FofPart, FofChain
<1>7. SUFFICES InOrderExcept((forwarded' \o <<>>) \o fofRing, 1 .. Len(submitted), lost')
               /\ lost' \subseteq 1 .. Len(submitted)
    BY <1>1, <1>5 DEF FofPart, FofChain
<1>8. CASE forwarded' = Append(forwarded, x) /\ lost' = lost
  <2>1. (Append(forwarded, x) \o <<>>) \o fofRing = (forwarded \o <<x>>) \o fofRing
      BY <1>2, <1>3, PassedOn
  <2>2. QED
      BY <1>6, <1>8, <2>1
<1>9. CASE forwarded' = forwarded /\ lost' = lost \union {x}
  <2>1. /\ InOrderExcept((forwarded \o <<>>) \o fofRing, 1 .. Len(submitted),
                         lost \union {x})
        /\ x \in 1 .. Len(submitted)
      BY <1>2, <1>3, <1>6, OneGone
  <2>2. QED
      BY <1>6, <1>9, <2>1
<1>10. QED
    BY <1>1, <1>8, <1>9

\* Every step of the server keeps the FOFs in order.
LEMMA NextFofPart ==
    ASSUME ServerTypes, FofPart, [ServerNext]_allVars
    PROVE  FofPart'
<1> DEFINE H == Held("fof")
           Quiet == UNCHANGED <<submitted, fofRing, forwarded, lost>> /\ H' = H
<1>1. /\ forwarded \in Seq(Nat) /\ fofRing \in Seq(Nat) /\ H \in Seq(Nat)
      /\ submitted \in Seq(Nat) /\ Len(submitted) \in Nat
    BY HeldType DEF ServerTypes
<1>2. ASSUME Quiet PROVE FofPart'
    BY <1>2 DEF FofPart, FofChain
<1>3. CASE \E s \in StartSamples : AddFof(s)
  <2>1. PICK s \in StartSamples : AddFof(s)
      BY <1>3
  <2>2. /\ submitted' = Append(submitted, s)
        /\ fofRing' = Append(fofRing, Len(submitted) + 1)
        /\ forwarded' = forwarded /\ lost' = lost /\ H' = H
      BY <2>1 DEF AddFof, Held
  <2>3. Len(submitted') = Len(submitted) + 1
      BY <1>1, <2>2
  <2> HIDE DEF H
  <2>4. forwarded \o H \in Seq(Nat) /\ (forwarded \o H) \o fofRing \in Seq(Nat)
      BY <1>1, ConcatProperties
  <2>5. (forwarded \o H) \o Append(fofRing, Len(submitted) + 1)
           = Append((forwarded \o H) \o fofRing, Len(submitted) + 1)
      BY <1>1, <2>4, GrowsAtItsEnd, SMTT(30)
  <2>6. InOrderExcept((forwarded \o H) \o fofRing, 1 .. Len(submitted), lost)
        /\ lost \in SUBSET (1 .. Len(submitted))
      BY DEF FofPart, FofChain, H
  <2>7. InOrderExcept(Append((forwarded \o H) \o fofRing, Len(submitted) + 1),
                      1 .. Len(submitted) + 1, lost)
      BY <1>1, <2>4, <2>6, OneMore
  <2>8. InOrderExcept((forwarded' \o H') \o fofRing', 1 .. Len(submitted'), lost')
      BY <2>2, <2>3, <2>5, <2>7
  <2>9. lost' \subseteq 1 .. Len(submitted')
      BY <1>1, <2>2, <2>3, <2>6
  <2>10. QED
      BY <2>8, <2>9 DEF FofPart, FofChain, H
<1>4. CASE BridgePop
  <2>1. /\ fofRing # <<>> /\ fofRing' = Tail(fofRing) /\ H = <<>>
        /\ H' = <<Head(fofRing)>>
        /\ submitted' = submitted /\ forwarded' = forwarded /\ lost' = lost
      BY <1>4 DEF BridgePop, Held
  <2> HIDE DEF H
  <2>2. (forwarded \o <<Head(fofRing)>>) \o Tail(fofRing) = (forwarded \o <<>>) \o fofRing
      BY <1>1, <2>1, TakenIntoHand
  <2>3. (forwarded' \o H') \o fofRing' = (forwarded \o H) \o fofRing
      BY <2>1, <2>2
  <2>4. QED
      BY <2>1, <2>3 DEF FofPart, FofChain, H
<1>5. CASE BridgePush
    BY <1>5, PushFofChain
<1>6. CASE BridgePopKill \/ BridgePushKill \/ BridgePassOver
  <2>1. Quiet
      BY <1>6 DEF BridgePopKill, BridgePushKill, BridgePassOver, Held, fofVars
  <2>2. QED
      BY <1>2, <2>1
<1>7. CASE \/ \E r \in DOMAIN submitted : Kill(r)
           \/ \E m \in Switches : SetClockMode(m)
           \/ \E t \in BlockStarts, n \in BlockSizes, j \in Jitters : Callback(t, n, j)
           \/ DrainStep \/ Publish \/ UNCHANGED allVars
  <2>1. UNCHANGED <<fofVars, turn, hand>>
      BY <1>7 DEF Kill, SetClockMode, Callback, DrainStep, Publish, allVars, serverVars
  <2>2. Quiet
      BY <2>1 DEF fofVars, Held
  <2>3. QED
      BY <1>2, <2>2
<1>8. QED
    BY <1>3, <1>4, <1>5, <1>6, <1>7, ServerSteps

\* A kill that leaves the hand does so to the kill queue or is dropped.
LEMMA PushKillChain ==
    ASSUME ServerTypes, KillPart, BridgePushKill
    PROVE  KillPart'
<1> DEFINE x == hand[1]
           a == obeyed \o killQueue
<1>1. /\ hand # <<>> /\ turn = "kill" /\ turn' = "fof"
      /\ kills' = kills /\ obeyed' = obeyed /\ killRing' = killRing
      /\ \/ killQueue' = Append(killQueue, x) /\ lostKills' = lostKills
         \/ killQueue' = killQueue /\ lostKills' = lostKills \union {x}
    BY DEF BridgePushKill
<1>2. x \in Nat /\ hand = <<x>>
    BY <1>1, InHand
<1>3. /\ obeyed \in Seq(Nat) /\ killQueue \in Seq(Nat) /\ killRing \in Seq(Nat)
      /\ a \in Seq(Nat)
    BY ConcatProperties DEF ServerTypes
<1>4. Held("kill") = <<x>> /\ Held("kill")' = <<>>
    BY <1>1, <1>2 DEF Held
<1> HIDE DEF x
<1>5. InOrderExcept((a \o <<x>>) \o killRing, 1 .. Len(kills), lostKills)
      /\ lostKills \subseteq 1 .. Len(kills)
    BY <1>4 DEF KillPart, KillChain
<1>6. SUFFICES InOrderExcept(((obeyed \o killQueue') \o <<>>) \o killRing,
                             1 .. Len(kills), lostKills')
               /\ lostKills' \subseteq 1 .. Len(kills)
    BY <1>1, <1>4 DEF KillPart, KillChain
<1>7. CASE killQueue' = Append(killQueue, x) /\ lostKills' = lostKills
  <2>1. obeyed \o Append(killQueue, x) = Append(a, x)
      BY <1>2, <1>3, GrowsAtItsEnd
  <2> HIDE DEF a
  <2>2. (Append(a, x) \o <<>>) \o killRing = (a \o <<x>>) \o killRing
      BY <1>2, <1>3, PassedOn
  <2>3. QED
      BY <1>5, <1>7, <2>1, <2>2
<1>8. CASE killQueue' = killQueue /\ lostKills' = lostKills \union {x}
  <2> HIDE DEF a
  <2>1. /\ InOrderExcept((a \o <<>>) \o killRing, 1 .. Len(kills), lostKills \union {x})
        /\ x \in 1 .. Len(kills)
      BY <1>2, <1>3, <1>5, OneGone
  <2>2. QED
      BY <1>5, <1>8, <2>1 DEF a
<1>9. QED
    BY <1>1, <1>7, <1>8

\* Every step of the server keeps the kills in order.
LEMMA NextKillPart ==
    ASSUME ServerTypes, KillPart, [ServerNext]_allVars
    PROVE  KillPart'
<1> DEFINE H == Held("kill")
           a == obeyed \o killQueue
           Quiet == UNCHANGED <<kills, killRing, killQueue, obeyed, lostKills>> /\ H' = H
<1>1. /\ obeyed \in Seq(Nat) /\ killQueue \in Seq(Nat) /\ killRing \in Seq(Nat)
      /\ H \in Seq(Nat) /\ kills \in Seq(Nat) /\ Len(kills) \in Nat /\ a \in Seq(Nat)
    BY HeldType, ConcatProperties DEF ServerTypes
<1>2. ASSUME Quiet PROVE KillPart'
    BY <1>2 DEF KillPart, KillChain
<1>3. CASE \E r \in DOMAIN submitted : Kill(r)
  <2>1. PICK r \in DOMAIN submitted : Kill(r)
      BY <1>3
  <2>2. /\ kills' = Append(kills, r)
        /\ killRing' = Append(killRing, Len(kills) + 1)
        /\ obeyed' = obeyed /\ killQueue' = killQueue /\ lostKills' = lostKills /\ H' = H
      BY <2>1 DEF Kill, Held, endVars
  <2>3. Len(kills') = Len(kills) + 1
      BY <1>1, <2>2
  <2>4. (obeyed' \o killQueue') \o H' = a \o H
      BY <2>2
  <2> HIDE DEF H, a
  <2>5. a \o H \in Seq(Nat) /\ (a \o H) \o killRing \in Seq(Nat)
      BY <1>1, ConcatProperties
  <2>6. (a \o H) \o Append(killRing, Len(kills) + 1)
           = Append((a \o H) \o killRing, Len(kills) + 1)
    <3>1. Len(kills) + 1 \in Nat
        BY <1>1
    <3>2. QED
        BY <1>1, <2>5, <3>1, GrowsAtItsEnd, Zenon
  <2>7. InOrderExcept((a \o H) \o killRing, 1 .. Len(kills), lostKills)
        /\ lostKills \in SUBSET (1 .. Len(kills))
      BY DEF KillPart, KillChain, H, a
  <2>8. InOrderExcept(Append((a \o H) \o killRing, Len(kills) + 1),
                      1 .. Len(kills) + 1, lostKills)
      BY <1>1, <2>5, <2>7, OneMore
  <2>9. InOrderExcept(((obeyed' \o killQueue') \o H') \o killRing', 1 .. Len(kills'),
                      lostKills')
      BY <2>2, <2>3, <2>4, <2>6, <2>8
  <2>10. lostKills' \subseteq 1 .. Len(kills')
      BY <1>1, <2>2, <2>3, <2>7
  <2>11. QED
      BY <2>9, <2>10 DEF KillPart, KillChain, H
<1>4. CASE BridgePopKill
  <2>1. /\ killRing # <<>> /\ killRing' = Tail(killRing) /\ H = <<>>
        /\ H' = <<Head(killRing)>>
        /\ kills' = kills /\ obeyed' = obeyed /\ killQueue' = killQueue
        /\ lostKills' = lostKills
      BY <1>4 DEF BridgePopKill, Held, endVars
  <2>2. (a \o <<Head(killRing)>>) \o Tail(killRing) = (a \o <<>>) \o killRing
    <3> HIDE DEF a, H
    <3>1. QED
        BY <1>1, <2>1, TakenIntoHand
  <2> HIDE DEF H
  <2>3. ((obeyed' \o killQueue') \o H') \o killRing' = (a \o H) \o killRing
      BY <2>1, <2>2
  <2>4. QED
      BY <2>1, <2>3 DEF KillPart, KillChain, H
<1>5. CASE BridgePushKill
    BY <1>5, PushKillChain
<1>6. CASE BridgePop \/ BridgePush \/ BridgePassOver
  <2>1. Quiet
      BY <1>6 DEF BridgePop, BridgePush, BridgePassOver, Held, killVars, endVars
  <2>2. QED
      BY <1>2, <2>1
<1>7. CASE Publish
  <2>1. /\ killQueue' = <<>> /\ obeyed' = a
        /\ UNCHANGED <<kills, killRing, lostKills>> /\ H' = H
      BY <1>7 DEF Publish, killVars, Held
  <2>2. a \o <<>> = a
    <3> HIDE DEF a
    <3>1. QED
        BY <1>1, ConcatEmptySeq
  <2>3. obeyed' \o killQueue' = obeyed \o killQueue
      BY <2>1, <2>2
  <2>4. QED
      BY <2>1, <2>3 DEF KillPart, KillChain
<1>8. CASE \/ \E s \in StartSamples : AddFof(s)
           \/ \E m \in Switches : SetClockMode(m)
           \/ \E t \in BlockStarts, n \in BlockSizes, j \in Jitters : Callback(t, n, j)
           \/ DrainStep \/ UNCHANGED allVars
  <2>1. UNCHANGED <<killVars, endVars, turn, hand>>
      BY <1>8 DEF AddFof, SetClockMode, Callback, DrainStep, allVars, serverVars
  <2>2. Quiet
      BY <2>1 DEF killVars, endVars, Held
  <2>3. QED
      BY <1>2, <2>2
<1>9. QED
    BY <1>3, <1>4, <1>5, <1>6, <1>7, <1>8, ServerSteps

\* The scheduler's n-th grain is the n-th FOF the bridging thread forwarded.
Handed ==
    /\ Len(forwarded) = Len(starts)
    /\ \A g \in Grains : starts[g] = submitted[forwarded[g]]

\* The inductive invariant of the server.
ServerInv ==
    /\ LedgerInv
    /\ ServerTypes
    /\ FofPart
    /\ KillPart
    /\ Handed

\* A grain is one of the FOFs that were submitted.
LEMMA GrainIsFof ==
    ASSUME ServerTypes, FofPart, Handed, NEW g \in Grains
    PROVE  forwarded[g] \in DOMAIN submitted
<1>1. forwarded \in Seq(Nat) /\ g \in DOMAIN forwarded
    BY DEF ServerTypes, Handed, Grains
<1>2. forwarded[g] \in Range(forwarded)
    BY <1>1 DEF Range
<1>3. QED
    BY <1>2, FofsWereSubmitted

\* What the bridging thread pushes has a start_sample.
LEMMA HandHasStart ==
    ASSUME ServerTypes, FofPart, BridgePush
    PROVE  hand[1] \in DOMAIN submitted /\ submitted[hand[1]] \in Nat
<1>1. hand # <<>> /\ turn = "fof"
    BY DEF BridgePush
<1>2. Held("fof") = <<hand[1]>> /\ hand[1] \in Nat
    BY <1>1, InHand DEF Held
<1>3. hand[1] \in Range(<<hand[1]>>)
    BY <1>2 DEF Range
<1>4. hand[1] \in DOMAIN submitted
    BY <1>2, <1>3, FofsWereSubmitted
<1>5. QED
    BY <1>4, SMTT(30) DEF ServerTypes

\* Every step of the server keeps the scheduler's grains those forwarded.
LEMMA NextHanded ==
    ASSUME LedgerInv, ServerTypes, FofPart, Handed, [ServerNext]_allVars
    PROVE  Handed'
<1>1. /\ starts \in Seq(Nat) /\ forwarded \in Seq(Nat) /\ submitted \in Seq(Nat)
      /\ Len(forwarded) = Len(starts) /\ Len(starts) \in Nat
      /\ \A g \in 1 .. Len(starts) :
            starts[g] = submitted[forwarded[g]] /\ forwarded[g] \in DOMAIN submitted
  <2>1. /\ starts \in Seq(Nat) /\ forwarded \in Seq(Nat) /\ submitted \in Seq(Nat)
      BY DEF LedgerInv, WheelInv, TypeOK, ServerTypes
  <2>2. Len(forwarded) = Len(starts) /\ Len(starts) \in Nat
      BY <2>1 DEF Handed
  <2>3. ASSUME NEW g \in 1 .. Len(starts)
        PROVE  starts[g] = submitted[forwarded[g]] /\ forwarded[g] \in DOMAIN submitted
    <3>1. g \in Grains
        BY DEF Grains
    <3>2. QED
        BY <3>1, GrainIsFof, ZenonT(40) DEF Handed
  <2>4. QED
      BY <2>1, <2>2, <2>3
<1>2. SUFFICES /\ Len(forwarded') = Len(starts')
               /\ \A g \in 1 .. Len(starts') : starts'[g] = submitted'[forwarded'[g]]
    BY DEF Handed, Grains
<1>3. CASE \E s \in StartSamples : AddFof(s)
  <2>1. PICK s \in StartSamples : AddFof(s)
      BY <1>3
  <2>2. starts' = starts /\ forwarded' = forwarded /\ submitted' = Append(submitted, s)
      BY <2>1 DEF AddFof, vars
  <2>3. \A k \in DOMAIN submitted : submitted'[k] = submitted[k]
      BY <1>1, <2>2
  <2>4. QED
      BY <1>1, <2>2, <2>3
<1>4. CASE BridgePush
  <2>1. submitted' = submitted
      BY <1>4 DEF BridgePush
  <2>2. CASE Forward
    <3>1. /\ starts' = Append(starts, submitted[hand[1]])
          /\ forwarded' = Append(forwarded, hand[1])
        BY <2>2 DEF Forward, Push
    <3>2. hand[1] \in Nat /\ submitted[hand[1]] \in Nat
        BY <1>1, <1>4, HandHasStart
    <3>3. /\ Len(starts') = Len(starts) + 1 /\ Len(forwarded') = Len(starts) + 1
          /\ \A g \in 1 .. Len(starts) : starts'[g] = starts[g] /\ forwarded'[g] = forwarded[g]
          /\ starts'[Len(starts) + 1] = submitted[hand[1]]
          /\ forwarded'[Len(starts) + 1] = hand[1]
        BY <1>1, <3>1, <3>2, SMTT(30)
    <3>4. \A g \in 1 .. Len(starts) + 1 : g \in 1 .. Len(starts) \/ g = Len(starts) + 1
        BY <1>1
    <3>5. QED
        BY <1>1, <2>1, <3>3, <3>4
  <2>3. CASE UNCHANGED <<vars, fofRing, forwarded, ahead>>
      BY <1>1, <2>1, <2>3 DEF vars
  <2>4. QED
      BY <1>4, <2>2, <2>3 DEF BridgePush
<1>5. CASE \/ \E r \in DOMAIN submitted : Kill(r)
           \/ \E m \in Switches : SetClockMode(m)
           \/ BridgePop \/ BridgePopKill \/ BridgePushKill \/ BridgePassOver
           \/ \E t \in BlockStarts, n \in BlockSizes, j \in Jitters : Callback(t, n, j)
           \/ DrainStep \/ Publish \/ UNCHANGED allVars
  <2>1. starts' = starts
      BY <1>5 DEF Kill, SetClockMode, BridgePop, BridgePopKill, BridgePushKill,
                  BridgePassOver, Callback, DrainStep, Publish, BeginDrain, Admit,
                  StopAdmitting, FireSlot, FinishDrain, allVars, vars
  <2>2. forwarded' = forwarded /\ submitted' = submitted
      BY <1>5 DEF Kill, SetClockMode, BridgePop, BridgePopKill, BridgePushKill,
                  BridgePassOver, Callback, DrainStep, Publish, allVars, serverVars,
                  fofVars
  <2>3. QED
      BY <1>1, <2>1, <2>2
<1>6. QED
    BY <1>3, <1>4, <1>5, ServerSteps

\* The invariant holds before anything was submitted.
LEMMA InitServerInv == ServerInit => ServerInv
<1>1. SUFFICES ASSUME ServerInit PROVE ServerInv
    OBVIOUS
<1>2. LedgerInv /\ ServerTypes
    BY <1>1, InitLedgerInv, InitServerTypes DEF ServerInit
<1>3. <<>> \in Seq(Nat) /\ <<>> \o <<>> = <<>> /\ Len(<<>>) = 0 /\ 1 .. 0 = {}
      /\ DOMAIN <<>> = {}
    BY EmptySeq, ConcatEmptySeq
<1>4. InOrderExcept(<<>>, {}, {})
    BY <1>3 DEF InOrderExcept, Range
<1>5. FofPart
    BY <1>1, <1>3, <1>4 DEF ServerInit, FofPart, FofChain, Held
<1>6. KillPart
    BY <1>1, <1>3, <1>4 DEF ServerInit, KillPart, KillChain, Held
<1>7. Handed
    BY <1>1, <1>3 DEF ServerInit, Init, Handed, Grains
<1>8. QED
    BY <1>2, <1>5, <1>6, <1>7 DEF ServerInv

\* Every step of the server keeps it, and is one of the scheduler or none.
LEMMA NextServerInv ==
    ASSUME ServerInv, [ServerNext]_allVars
    PROVE  ServerInv' /\ [WheelStep]_vars
<1>1. LedgerInv /\ ServerTypes /\ FofPart /\ KillPart /\ Handed /\ TypeOK
    BY DEF ServerInv, LedgerInv, WheelInv
<1>2. BridgePush => submitted[hand[1]] \in Nat
    BY <1>1, HandHasStart
<1>3. [WheelStep]_vars
    BY <1>1, <1>2, ServerStepOfWheel
<1>4. LedgerInv'
    BY <1>1, <1>3, NextLedgerInv
<1>5. ServerTypes' /\ FofPart' /\ KillPart' /\ Handed'
    BY <1>1, NextServerTypes, NextFofPart, NextKillPart, NextHanded
<1>6. QED
    BY <1>3, <1>4, <1>5 DEF ServerInv

\* In every reachable state of the server the scheduler in it keeps its own
\* invariant, and every request answered Ok is where the chain of queues has it.
THEOREM ServerInvHolds == ServerSpec => []ServerInv
<1>1. ServerInv /\ [ServerNext]_allVars => ServerInv'
    BY NextServerInv
<1>2. QED
    BY <1>1, InitServerInv, PTL DEF ServerSpec

\* The process callback and the bridging thread touch the scheduler only as
\* TimeWheel's actions allow, so in the running server, whatever the clock source
\* does and whenever a client switches it, the scheduler keeps its promises: it
\* implements the calendar, accounts for every grain and fires none early.
THEOREM ServerKeepsScheduler == ServerSpec => SchedulerPromises
<1>1. ServerInit => Init
    BY DEF ServerInit
<1>2. ServerInv /\ [ServerNext]_allVars => [WheelStep]_vars
    BY NextServerInv
<1>3. ServerSpec => WheelSpec
    BY <1>1, <1>2, ServerInvHolds, PTL DEF ServerSpec, WheelSpec
<1>4. QED
    BY <1>3, SchedulerAnywhere

\* Two rings, a queue and three threads repeat, reorder and mix up nothing
\* (spawn_bridging_thread, main.rs): what a client was told Ok for reaches the
\* scheduler and the kill queue in its order and with its own start_sample, and
\* only what the bridging thread dropped is missing.
THEOREM ChainStaysInOrder == ServerSpec => []ChainInOrder
<1>1. ServerInv => ChainInOrder
  <2>1. SUFFICES ASSUME ServerInv PROVE ChainInOrder
      OBVIOUS
  <2>2. DOMAIN submitted = 1 .. Len(submitted) /\ DOMAIN kills = 1 .. Len(kills)
      BY <2>1 DEF ServerInv, ServerTypes
  <2>3. QED
      BY <2>1, <2>2
      DEF ServerInv, FofPart, FofChain, KillPart, KillChain, Handed, ChainInOrder
<1>2. QED
    BY <1>1, ServerInvHolds, PTL

-----------------------------------------------------------------------------
(* Kills and the published clock. *)

\* The clock a client reads is not ahead of the read head; so a FOF whose slot
\* it has passed is behind the read head, where nothing fires any more.
TardyBehind ==
    /\ HeadAtClock
    /\ SlotOf(currentSample) <= slotIndex
    /\ \A k \in DOMAIN kills : kills[k] \in DOMAIN submitted
    /\ \A k \in tardy :
          k \in DOMAIN kills /\ SlotOf(submitted[kills[k]]) < slotIndex
    /\ ignored \subseteq DOMAIN kills

\* A sample before the end of whose slot the clock is, is of an earlier slot.
LEMMA PastItsSlot ==
    ASSUME NEW s \in Nat, NEW c \in Nat, SlotEnd(s) <= c
    PROVE  SlotOf(s) \in Nat /\ SlotOf(c) \in Nat /\ SlotOf(s) < SlotOf(c)
<1> DEFINE a == SlotOf(s)
           b == SlotOf(c)
<1>1. /\ a \in Nat /\ b \in Nat /\ SlotDuration \in Nat \ {0}
      /\ (a + 1) * SlotDuration <= c /\ c < (b + 1) * SlotDuration
    BY DivBounds, WheelAssumption DEF SlotOf, SlotEnd
<1> HIDE DEF a, b
<1>2. ~(b <= a)
  <2>1. SUFFICES ASSUME b <= a PROVE FALSE
      OBVIOUS
  <2>2. b + 1 \in Nat /\ a + 1 \in Nat /\ b + 1 <= a + 1
      BY <1>1, <2>1
  <2>3. /\ (b + 1) * SlotDuration \in Nat /\ (a + 1) * SlotDuration \in Nat
        /\ (b + 1) * SlotDuration <= (a + 1) * SlotDuration
      BY <1>1, <2>2, TimesMonotone
  <2>4. QED
      BY <1>1, <2>3
<1>3. QED
    BY <1>1, <1>2 DEF a, b

\* Every step of the server keeps the tardy kills' FOFs behind the read head.
LEMMA NextTardyBehind ==
    ASSUME ServerInv, TardyBehind, [ServerNext]_allVars
    PROVE  TardyBehind'
<1>1. /\ TypeOK /\ ServerTypes /\ KillPart /\ [WheelStep]_vars
    BY NextServerInv DEF ServerInv, LedgerInv, WheelInv
<1>2. slotIndex \in Nat /\ slotIndex' \in Nat /\ slotIndex <= slotIndex'
    BY <1>1, HeadNeverGoesBack
<1>3. HeadAtClock'
    BY <1>1, NextHeadAtClock DEF TardyBehind
<1>4. /\ submitted \in Seq(Nat) /\ kills \in Seq(Nat) /\ currentSample \in Nat
      /\ blockEnd \in Nat
      /\ \A k \in DOMAIN kills : kills[k] \in DOMAIN submitted
      /\ \A k \in tardy : k \in DOMAIN kills
      /\ \A k \in tardy : SlotOf(submitted[kills[k]]) < slotIndex
      /\ ignored \subseteq DOMAIN kills
      /\ SlotOf(currentSample) <= slotIndex
    BY <1>1 DEF ServerTypes, TypeOK, TardyBehind
<1>5. \A s \in Nat : SlotOf(s) \in Nat
    BY DivBounds, WheelAssumption DEF SlotOf
<1>6. \A k \in DOMAIN kills :
         submitted[kills[k]] \in Nat /\ SlotOf(submitted[kills[k]]) \in Nat
    BY <1>4, <1>5
<1>7. \A k \in tardy : SlotOf(submitted[kills[k]]) < slotIndex'
  <2>1. SUFFICES ASSUME NEW k \in tardy PROVE SlotOf(submitted[kills[k]]) < slotIndex'
      OBVIOUS
  <2>2. SlotOf(submitted[kills[k]]) \in Nat /\ SlotOf(submitted[kills[k]]) < slotIndex
      BY <1>4, <1>6
  <2>3. QED
      BY <1>2, <2>2
<1>8. ASSUME currentSample' = currentSample PROVE SlotOf(currentSample') <= slotIndex'
    BY <1>2, <1>4, <1>5, <1>8
<1>9. CASE \E s \in StartSamples : AddFof(s)
  <2>1. PICK s \in StartSamples : AddFof(s)
      BY <1>9
  <2>2. /\ submitted' = Append(submitted, s)
        /\ UNCHANGED <<kills, tardy, ignored, currentSample>>
      BY <2>1 DEF AddFof, killVars, endVars, clockVars
  <2>3. /\ \A r \in DOMAIN submitted : r \in DOMAIN submitted' /\ submitted'[r] = submitted[r]
      BY <1>4, <2>2
  <2>4. \A k \in DOMAIN kills' : kills'[k] \in DOMAIN submitted'
      BY <1>4, <2>2, <2>3
  <2>5. \A k \in tardy' :
           k \in DOMAIN kills' /\ SlotOf(submitted'[kills'[k]]) < slotIndex'
      BY <1>4, <1>7, <2>2, <2>3
  <2>6. QED
      BY <1>3, <1>4, <1>8, <2>2, <2>4, <2>5 DEF TardyBehind, SlotOf
<1>10. CASE \E r \in DOMAIN submitted : Kill(r)
  <2>1. PICK r \in DOMAIN submitted : Kill(r)
      BY <1>10
  <2>2. /\ kills' = Append(kills, r)
        /\ tardy' = IF SlotEnd(submitted[r]) <= currentSample
                    THEN tardy \union {Len(kills) + 1} ELSE tardy
        /\ UNCHANGED <<submitted, ignored, currentSample>>
      BY <2>1 DEF Kill, fofVars, endVars, clockVars
  <2>3. r \in Nat /\ submitted[r] \in Nat
      BY <1>4
  <2>4. /\ \A k \in DOMAIN kills : k \in DOMAIN kills' /\ kills'[k] = kills[k]
        /\ Len(kills) + 1 \in DOMAIN kills' /\ kills'[Len(kills) + 1] = r
        /\ \A k \in DOMAIN kills' : k \in DOMAIN kills \/ k = Len(kills) + 1
      BY <1>4, <2>2, <2>3
  <2>5. \A k \in DOMAIN kills' : kills'[k] \in DOMAIN submitted'
      BY <1>4, <2>2, <2>4
  <2>6. ASSUME NEW k \in tardy'
        PROVE  k \in DOMAIN kills' /\ SlotOf(submitted[kills'[k]]) < slotIndex'
    <3>1. CASE k \in tardy
        BY <1>4, <1>7, <2>4, <3>1
    <3>2. CASE k = Len(kills) + 1 /\ SlotEnd(submitted[r]) <= currentSample
      <4>1. SlotOf(submitted[r]) \in Nat /\ SlotOf(currentSample) \in Nat
            /\ SlotOf(submitted[r]) < SlotOf(currentSample)
          BY <1>4, <2>3, <3>2, PastItsSlot
      <4>2. SlotOf(submitted[r]) < slotIndex'
          BY <1>2, <1>4, <4>1
      <4>3. QED
          BY <2>4, <3>2, <4>2
    <3>3. QED
        BY <2>2, <3>1, <3>2
  <2>7. QED
      BY <1>3, <1>4, <1>8, <2>2, <2>4, <2>5, <2>6 DEF TardyBehind, SlotOf
<1>11. CASE Publish
  <2>1. /\ pc = "idle" /\ currentSample' = blockEnd
        /\ ignored' = ignored \union {k \in Range(killQueue) : kills[k] \notin HandedOver}
        /\ UNCHANGED <<submitted, kills, tardy, slotIndex, blockEnd, pc>>
      BY <1>11 DEF Publish, PublishedClock, fofVars, killVars, vars
  <2>2. ignored' \subseteq DOMAIN kills
      BY <1>1, <1>4, <2>1, QueuedKillsWereSubmitted
  <2>3. SlotOf(currentSample') <= slotIndex'
      BY <2>1 DEF TardyBehind, HeadAtClock, TargetIndex
  <2>4. QED
      BY <1>3, <1>4, <1>7, <2>1, <2>2, <2>3 DEF TardyBehind, SlotOf
<1>12. CASE \/ \E m \in Switches : SetClockMode(m)
            \/ BridgePop \/ BridgePush \/ BridgePopKill \/ BridgePushKill
            \/ BridgePassOver
            \/ \E t \in BlockStarts, n \in BlockSizes, j \in Jitters : Callback(t, n, j)
            \/ DrainStep \/ UNCHANGED allVars
  <2>1. UNCHANGED <<submitted, kills, tardy, ignored, currentSample>>
      BY <1>12 DEF SetClockMode, BridgePop, BridgePush, BridgePopKill, BridgePushKill,
                   BridgePassOver, Callback, DrainStep, allVars, serverVars, fofVars,
                   killVars, endVars, clockVars
  <2>2. QED
      BY <1>3, <1>4, <1>7, <1>8, <2>1 DEF TardyBehind, SlotOf
<1>13. QED
    BY <1>9, <1>10, <1>11, <1>12, ServerSteps

\* What a drain hands over is a FOF of a slot at the read head or ahead of it.
LEMMA NewlyHandedOver ==
    ASSUME ServerInv, DrainStep, NEW g \in fired', g \notin fired
    PROVE  g \in Grains /\ SlotOf(submitted[forwarded[g]]) >= slotIndex
<1>1. WheelInv /\ TypeOK /\ Handed
    BY DEF ServerInv, LedgerInv, WheelInv
<1>2. FireSlot
    BY DEF DrainStep, Admit, StopAdmitting, FinishDrain
<1>3. PICK k \in DOMAIN slots[FiringIndex(fireAt)] : g = slots[FiringIndex(fireAt)][k]
    BY <1>2 DEF FireSlot, Range
<1>4. /\ FiringIndex(fireAt) \in SlotIndices
      /\ SlotOf(starts[g]) = slotIndex + fireAt
    BY <1>1, <1>2, <1>3, FiringEntry
<1>5. g \in Grains
    BY <1>1, <1>3, <1>4, PlacedGrain
<1>6. slotIndex \in Nat /\ fireAt \in Nat
    BY <1>1 DEF TypeOK
<1>7. starts[g] = submitted[forwarded[g]]
    BY <1>1, <1>5 DEF Handed
<1>8. slotIndex + fireAt >= slotIndex
    BY <1>6
<1>9. QED
    BY <1>4, <1>5, <1>7, <1>8

\* Every step of the server keeps a tardy kill's FOF from sounding after the
\* kill was ignored.
LEMMA NextKillCounts ==
    ASSUME ServerInv, TardyBehind, KillAfterOnsetCounts, [ServerNext]_allVars
    PROVE  KillAfterOnsetCounts'
<1>1. /\ TypeOK /\ ServerTypes /\ Handed
      /\ fired \subseteq Grains /\ slotIndex \in Nat
    BY DEF ServerInv, LedgerInv, WheelInv, TypeOK
<1>2. /\ \A k \in tardy : k \in DOMAIN kills /\ SlotOf(submitted[kills[k]]) < slotIndex
      /\ \A k \in tardy : kills[k] \in DOMAIN submitted
      /\ ignored \subseteq DOMAIN kills
    BY DEF TardyBehind
<1>3. \A k \in tardy \intersect ignored : \A g \in fired : kills[k] # forwarded[g]
    BY DEF KillAfterOnsetCounts, HandedOver
<1>4. SUFFICES ASSUME NEW k \in tardy', k \in ignored', NEW g \in fired',
                      kills'[k] = forwarded'[g]
               PROVE  FALSE
    BY DEF KillAfterOnsetCounts, HandedOver
<1>5. CASE \E r \in DOMAIN submitted : Kill(r)
  <2>1. PICK r \in DOMAIN submitted : Kill(r)
      BY <1>5
  <2>2. /\ kills' = Append(kills, r) /\ tardy' \subseteq tardy \union {Len(kills) + 1}
        /\ UNCHANGED <<fired, forwarded, ignored>>
      BY <2>1 DEF Kill, vars, fofVars, endVars
  <2>3. kills \in Seq(Nat) /\ r \in Nat
      BY <1>1 DEF ServerTypes
  <2>4. k \in DOMAIN kills /\ k # Len(kills) + 1
      BY <1>2, <1>4, <2>2, <2>3
  <2>5. k \in tardy /\ kills'[k] = kills[k]
      BY <1>4, <2>2, <2>3, <2>4
  <2>6. QED
      BY <1>3, <1>4, <2>2, <2>5
<1>6. CASE BridgePush
  <2>1. /\ UNCHANGED <<kills, tardy, ignored, fired>>
        /\ forwarded' = forwarded \/ forwarded' = Append(forwarded, hand[1])
      BY <1>6 DEF BridgePush, Forward, Push, vars, killVars, endVars
  <2>2. g \in fired /\ g \in 1 .. Len(forwarded) /\ forwarded \in Seq(Nat)
      BY <1>1, <1>4, <2>1 DEF Handed, Grains, ServerTypes
  <2>3. forwarded'[g] = forwarded[g]
      BY <2>1, <2>2
  <2>4. QED
      BY <1>3, <1>4, <2>1, <2>2, <2>3
<1>7. CASE DrainStep
  <2>1. UNCHANGED <<kills, tardy, ignored, forwarded, submitted>>
      BY <1>7 DEF DrainStep, serverVars, fofVars, killVars, endVars
  <2>2. k \in tardy \intersect ignored /\ kills[k] = forwarded[g]
      BY <1>4, <2>1
  <2>3. g \notin fired
      BY <1>3, <2>2
  <2>4. g \in Grains /\ SlotOf(submitted[forwarded[g]]) >= slotIndex
      BY <1>4, <1>7, <2>3, NewlyHandedOver
  <2>5. SlotOf(submitted[kills[k]]) < slotIndex /\ submitted[kills[k]] \in Nat
    <3>1. submitted \in Seq(Nat) /\ kills[k] \in DOMAIN submitted
        BY <1>1, <1>2, <2>2 DEF ServerTypes
    <3>2. QED
        BY <1>2, <2>2, <3>1
  <2>6. SlotOf(submitted[kills[k]]) \in Nat
      BY <2>5, DivBounds, WheelAssumption DEF SlotOf
  <2>7. SlotOf(submitted[kills[k]]) >= slotIndex
      BY <2>2, <2>4
  <2>8. QED
      BY <1>1, <2>5, <2>6, <2>7
<1>8. CASE Publish
  <2>1. /\ ignored' = ignored \union {j \in Range(killQueue) : kills[j] \notin HandedOver}
        /\ UNCHANGED <<kills, tardy, fired, forwarded>>
      BY <1>8 DEF Publish, vars, fofVars, killVars
  <2>2. kills[k] \in HandedOver
      BY <1>4, <2>1 DEF HandedOver
  <2>3. k \in ignored
      BY <1>4, <2>1, <2>2
  <2>4. QED
      BY <1>3, <1>4, <2>1, <2>3
<1>9. CASE \/ \E s \in StartSamples : AddFof(s)
           \/ \E m \in Switches : SetClockMode(m)
           \/ BridgePop \/ BridgePopKill \/ BridgePushKill \/ BridgePassOver
           \/ \E t \in BlockStarts, n \in BlockSizes, j \in Jitters : Callback(t, n, j)
           \/ UNCHANGED allVars
  <2>1. UNCHANGED <<kills, tardy, ignored, forwarded>>
      BY <1>9 DEF AddFof, SetClockMode, BridgePop, BridgePopKill, BridgePushKill,
                  BridgePassOver, Callback, allVars, serverVars, fofVars, killVars,
                  endVars
  <2>2. fired' = fired
      BY <1>9 DEF AddFof, SetClockMode, BridgePop, BridgePopKill, BridgePushKill,
                  BridgePassOver, Callback, BeginDrain, allVars, vars
  <2>3. QED
      BY <1>3, <1>4, <2>1, <2>2
<1>10. QED
    BY <1>5, <1>6, <1>7, <1>8, <1>9, ServerSteps

\* No kill was sent at the start.
LEMMA InitKillCounts == ServerInit => TardyBehind /\ KillAfterOnsetCounts
<1>1. SUFFICES ASSUME ServerInit PROVE TardyBehind /\ KillAfterOnsetCounts
    OBVIOUS
<1>2. /\ slotIndex = 0 /\ blockEnd = 0 /\ currentSample = 0
      /\ kills = <<>> /\ tardy = {} /\ ignored = {}
    BY <1>1 DEF ServerInit, Init
<1>3. SlotOf(0) = 0
    BY SlotZero
<1>4. TardyBehind
    BY <1>2, <1>3 DEF TardyBehind, HeadAtClock, TargetIndex
<1>5. KillAfterOnsetCounts
    BY <1>2 DEF KillAfterOnsetCounts
<1>6. QED
    BY <1>4, <1>5

\* A client that waits with a kill until the clock it reads has passed the slot
\* of the FOF can rely on it (rfofs_current_sample, rfofs_kill): the engine does
\* not ignore the kill and let the grain sound afterwards.
THEOREM TardyKillsCount == ServerSpec => []KillAfterOnsetCounts
<1> DEFINE Inv == ServerInv /\ TardyBehind /\ KillAfterOnsetCounts
<1>1. ServerInit => Inv
    BY InitServerInv, InitKillCounts
<1>2. Inv /\ [ServerNext]_allVars => Inv'
    BY NextServerInv, NextTardyBehind, NextKillCounts
<1>3. Inv => KillAfterOnsetCounts
    OBVIOUS
<1>4. QED
    BY <1>1, <1>2, <1>3, PTL DEF ServerSpec

-----------------------------------------------------------------------------
(* Headroom on a smooth clock. *)

\* As long as the clock is smooth it stays within the wheel's reach, and what
\* reaches the scheduler ahead of the clock is not behind the wheel.
SmoothAhead ==
    /\ ahead \subseteq Grains
    /\ smooth => InReach /\ RingAhead /\ ahead \intersect overdue = {}

\* A FOF that comes to the scheduler before the end of the block under way, or
\* of the last one, was reached, is not yet behind the wheel.
LEMMA AheadIsNotOverdue ==
    ASSUME TypeOK, InReach, NEW s \in Nat, s >= blockEnd
    PROVE  ~(s < (IF pc = "idle" THEN slotIndex ELSE NextIndex) * SlotDuration)
<1> DEFINE e == IF pc = "idle" THEN slotIndex ELSE NextIndex
<1>1. /\ blockEnd \in Nat /\ slotIndex \in Nat /\ TargetIndex \in Nat
    BY WheelTypes DEF TypeOK
<1>2. e = TargetIndex
  <2>1. CASE pc = "idle"
      BY <2>1 DEF InReach
  <2>2. CASE pc # "idle"
      BY <1>1, <2>2 DEF InReach, NextIndex
  <2>3. QED
      BY <2>1, <2>2
<1>3. TargetIndex * SlotDuration <= blockEnd /\ TargetIndex * SlotDuration \in Nat
    BY <1>1, DivBounds, WheelAssumption DEF TargetIndex, SlotOf
<1> HIDE DEF e
<1>4. ~(s < e * SlotDuration)
    BY <1>1, <1>2, <1>3
<1>5. QED
    BY <1>4 DEF e

\* Every step of the server keeps it, if a block with its jitter is never longer
\* than one rotation of the wheel.
LEMMA NextSmoothAhead ==
    ASSUME \A n \in BlockSizes, j \in Jitters : n + j <= Horizon,
           ServerInv, SmoothAhead, [ServerNext]_allVars
    PROVE  SmoothAhead'
<1> DEFINE s == submitted[hand[1]]
           new == Len(starts) + 1
<1>1. /\ LedgerInv /\ TypeOK /\ ServerTypes /\ FofPart /\ [WheelStep]_vars
    BY NextServerInv DEF ServerInv, LedgerInv, WheelInv
<1>2. /\ starts \in Seq(Nat) /\ Grains = 1 .. Len(starts)
      /\ ahead \subseteq Grains /\ overdue \subseteq Grains
      /\ new \notin ahead /\ new \notin overdue
    BY <1>1 DEF TypeOK, Grains, SmoothAhead
<1>3. \/ /\ BridgePush
         /\ starts' = Append(starts, s)
         /\ overdue' = IF s < (IF pc = "idle" THEN slotIndex ELSE NextIndex) * SlotDuration
                       THEN overdue \union {new} ELSE overdue
         /\ ahead' = IF s >= blockEnd THEN ahead \union {new} ELSE ahead
      \/ UNCHANGED <<starts, overdue, ahead>>
  <2>1. CASE BridgePush /\ Forward
      BY <2>1 DEF Forward, Push
  <2>2. CASE ~(BridgePush /\ Forward)
      BY <2>2 DEF ServerNext, AddFof, Kill, SetClockMode, Bridge, BridgePop, BridgePush,
                  BridgePopKill, BridgePushKill, BridgePassOver, Audio, Callback,
                  BeginDrain, DrainStep, Admit, StopAdmitting, FireSlot, FinishDrain,
                  Publish, allVars, serverVars, fofVars, vars
  <2>3. QED
      BY <2>1, <2>2
<1>4. ahead' \subseteq Grains'
  <2>1. CASE /\ BridgePush /\ starts' = Append(starts, s)
             /\ ahead' \subseteq ahead \union {new}
    <3>1. s \in Nat
        BY <1>1, <2>1, HandHasStart
    <3>2. Len(starts') = new /\ new \in Nat /\ Len(starts) \in Nat
        BY <1>2, <2>1, <3>1
    <3>3. Grains \subseteq Grains' /\ new \in Grains'
        BY <1>2, <3>2 DEF Grains
    <3>4. QED
        BY <1>2, <2>1, <3>3
  <2>2. CASE UNCHANGED <<starts, overdue, ahead>>
      BY <1>2, <2>2 DEF Grains
  <2>3. QED
      BY <1>3, <2>1, <2>2
<1>5. SUFFICES ASSUME smooth'
               PROVE  InReach' /\ RingAhead' /\ ahead' \intersect overdue' = {}
    BY <1>4 DEF SmoothAhead
<1>6. smooth
    BY <1>5 DEF ServerNext, AddFof, Kill, SetClockMode, Bridge, BridgePop, BridgePush,
                BridgePopKill, BridgePushKill, BridgePassOver, Audio, Callback,
                DrainStep, Publish, allVars, serverVars, clockVars
<1>7. InReach /\ RingAhead /\ ahead \intersect overdue = {}
    BY <1>6 DEF SmoothAhead
<1>8. ASSUME pc = "idle", pc' = "admit"
      PROVE  blockEnd' - blockEnd \in 0 .. Horizon
  <2>1. \E t \in BlockStarts, n \in BlockSizes, j \in Jitters : Callback(t, n, j)
      BY <1>8 DEF ServerNext, AddFof, Kill, SetClockMode, Bridge, BridgePop, BridgePush,
                  Forward, Push, BridgePopKill, BridgePushKill, BridgePassOver, Audio,
                  DrainStep, Admit, StopAdmitting, FireSlot, FinishDrain, Publish,
                  allVars, vars
  <2>2. PICK t \in BlockStarts, n \in BlockSizes, j \in Jitters : Callback(t, n, j)
      BY <2>1
  <2>3. /\ blockEnd' = blockEnd + (t - blockEnd) + n
        /\ smooth' = (smooth /\ t - blockEnd \in Jitters)
      BY <2>2 DEF Callback, BeginDrain
  <2>4. t - blockEnd \in Jitters
      BY <1>5, <2>3, Zenon
  <2> DEFINE i == t - blockEnd
  <2>5. i \in Int /\ n + i > 0 /\ n + i <= Horizon /\ n \in Nat
      BY <2>4, ServerAssumption, ClockAssumption
  <2>6. t \in Nat /\ blockEnd \in Nat /\ Horizon \in Nat
      BY <1>1, BlockStartsAtSample, WheelTypes DEF TypeOK
  <2>7. QED
      BY <2>3, <2>5, <2>6
<1>9. InReach'
    BY <1>1, <1>7, <1>8, ReachStep
<1>10. RingAhead'
    BY <1>1, <1>7, RingStep
<1>11. ahead' \intersect overdue' = {}
  <2>1. CASE UNCHANGED <<starts, overdue, ahead>>
      BY <1>7, <2>1
  <2>2. CASE BridgePush /\ s >= blockEnd
    <3>1. s \in Nat
        BY <1>1, <2>2, HandHasStart
    <3>2. ~(s < (IF pc = "idle" THEN slotIndex ELSE NextIndex) * SlotDuration)
        BY <1>1, <1>7, <2>2, <3>1, AheadIsNotOverdue
    <3>3. overdue' = overdue /\ ahead' \subseteq ahead \union {new}
        BY <1>3, <3>2
    <3>4. QED
        BY <1>2, <1>7, <3>3
  <2>3. CASE BridgePush /\ ~(s >= blockEnd)
    <3>1. ahead' = ahead /\ overdue' \subseteq overdue \union {new}
        BY <1>3, <2>3
    <3>2. QED
        BY <1>2, <1>7, <3>1
  <2>4. QED
      BY <1>3, <2>1, <2>2, <2>3
<1>12. QED
    BY <1>9, <1>10, <1>11

\* Nothing is ahead, behind or in the ring at the start.
LEMMA InitSmoothAhead == ServerInit => SmoothAhead
<1>1. SUFFICES ASSUME ServerInit PROVE SmoothAhead
    OBVIOUS
<1>2. /\ slotIndex = 0 /\ blockEnd = 0 /\ pc = "idle" /\ ahead = {} /\ overdue = {}
      /\ ingress = <<>> /\ rejected = [r \in Reasons |-> {}]
    BY <1>1 DEF ServerInit, Init
<1>3. SlotOf(0) = 0
    BY SlotZero
<1>4. InReach
    BY <1>2, <1>3 DEF InReach, TargetIndex
<1>5. RingAhead
  <2>1. Len(ingress) = 0 /\ rejected["too_late"] = {}
      BY <1>2 DEF Reasons
  <2>2. QED
      BY <2>1 DEF RingAhead, DeferredNotDropped
<1>6. QED
    BY <1>2, <1>4, <1>5 DEF SmoothAhead

\* As long as every block begins about where the previous one ended, and a block
\* with its jitter is no longer than one rotation of the wheel (main.rs gives it
\* 256 slots of a block each), through any switch of the clock's mode: a FOF that
\* comes to the scheduler before the clock has reached it is dropped as overdue
\* only when an earlier one of a later start held it up there (shm.rs, on the
\* headroom of current_sample).
THEOREM HeadroomOnSmoothClock ==
    ASSUME \A n \in BlockSizes, j \in Jitters : n + j <= Horizon
    PROVE  ServerSpec => []HeadroomSufficesOnSmoothClock
<1> DEFINE Inv == ServerInv /\ SmoothAhead
<1>1. ServerInit => Inv
    BY InitServerInv, InitSmoothAhead
<1>2. Inv /\ [ServerNext]_allVars => Inv'
    BY NextServerInv, NextSmoothAhead
<1>3. Inv => HeadroomSufficesOnSmoothClock
  <2>1. SUFFICES ASSUME Inv, smooth, NEW g \in rejected["too_late"], g \in ahead
                 PROVE  \E h \in 1 .. g - 1 : starts[h] > starts[g]
      BY DEF HeadroomSufficesOnSmoothClock, HeadroomSuffices
  <2>2. DeferredNotDropped /\ g \notin overdue
      BY <2>1 DEF SmoothAhead, RingAhead
  <2>3. QED
      BY <2>1, <2>2 DEF DeferredNotDropped
<1>4. QED
    BY <1>1, <1>2, <1>3, PTL DEF ServerSpec

=============================================================================
