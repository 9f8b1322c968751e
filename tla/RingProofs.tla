----------------------------- MODULE RingProofs -----------------------------
(***************************************************************************)
(* Proofs about the two single-producer single-consumer rings.             *)
(*                                                                         *)
(* SpscRing, the ring in shared memory: used by one producer, as shm.rs    *)
(* demands, it loses, repeats and reorders nothing, its plain accesses     *)
(* never meet, and it implements BoundedFifo, for every capacity and every *)
(* counter width.                                                          *)
(*                                                                         *)
(* JackProbe, a recording through the ring of the rtrb crate: however the  *)
(* writer's pops fall between the callback's pushes, samples stay on their *)
(* channels, and a recording that was stopped is complete, for every       *)
(* number of channels, every capacity and every block size.                *)
(***************************************************************************)
EXTENDS SpscRing, JackProbe, SequenceTheorems, TLAPS

\* The contract of try_push (shm.rs: "single-producer"): one thread pushes.
SingleProducer == \E p : Producers = {p}

-----------------------------------------------------------------------------
(* Division and remainder: the cells are indexed modulo the capacity.       *)

\* The quotient brackets the dividend.
LEMMA DivBounds ==
    ASSUME NEW a \in Nat, NEW d \in Nat \ {0}
    PROVE  /\ a \div d \in Nat
           /\ (a \div d) * d <= a
           /\ a < (a \div d + 1) * d
BY SMT

\* Quotient and remainder, and the range of the remainder.
LEMMA ModDef ==
    ASSUME NEW a \in Nat, NEW d \in Nat \ {0}
    PROVE  /\ a = (a \div d) * d + (a % d)
           /\ (a % d) \in 0 .. d - 1
BY SMT

\* Two different numbers less than c apart have different remainders: no
\* two positions less than a capacity apart share a cell.
LEMMA ModDistinct ==
    ASSUME NEW a \in Nat, NEW b \in Nat, NEW c \in Nat \ {0},
           a < b, b - a < c
    PROVE  (a % c) # (b % c)
<1> DEFINE qa == a \div c
           qb == b \div c
<1>1. /\ a = qa * c + (a % c)
      /\ b = qb * c + (b % c)
      /\ qa \in Nat /\ qb \in Nat
    BY ModDef, DivBounds
<1>2. SUFFICES ASSUME (a % c) = (b % c) PROVE FALSE
    OBVIOUS
<1>3. b - a = (qb - qa) * c
    BY <1>1, <1>2, SMT
<1>4. CASE qb <= qa
    BY <1>3, <1>4, <1>1, SMT
<1>5. CASE qb > qa
    BY <1>3, <1>5, <1>1, SMT
<1>6. QED
    BY <1>1, <1>4, <1>5

-----------------------------------------------------------------------------
(* The wrapping counters *)

\* Counters are natural numbers.
LEMMA WidthFacts ==
    /\ Cap \in Nat \ {0} /\ Wrap \in Nat /\ Wrap > Cap
    /\ Counter = {x \in Nat : x < Wrap}
    BY RingAssumption, SMT DEF Counter

\* wrapping_sub of two counters, without the remainder.
LEMMA DistanceCases ==
    ASSUME NEW a \in Counter, NEW b \in Counter
    PROVE  /\ Distance(a, b) = IF a <= b THEN b - a ELSE b - a + Wrap
           /\ Distance(a, b) \in Counter
<1>1. CASE a <= b
    BY <1>1, RingAssumption, SMT DEF Counter, Distance
<1>2. CASE b < a
    BY <1>2, RingAssumption, SMT DEF Counter, Distance
<1>3. QED
    BY <1>1, <1>2, RingAssumption DEF Counter

\* The successor of a counter, without the remainder.
LEMMA AfterCases ==
    ASSUME NEW a \in Counter
    PROVE  /\ After(a) = IF a = Wrap - 1 THEN 0 ELSE a + 1
           /\ After(a) \in Counter
    BY RingAssumption, SMT DEF Counter, After

\* Counters are apart by a natural number less than their width, and by 0
\* only if they are equal.
LEMMA DistanceIsNat ==
    ASSUME NEW a \in Counter, NEW b \in Counter
    PROVE  /\ Distance(a, b) \in Nat /\ Distance(a, b) < Wrap
           /\ Distance(a, b) = 0 <=> a = b
<1>1. /\ Distance(a, b) \in Counter
      /\ Distance(a, b) = IF a <= b THEN b - a ELSE b - a + Wrap
    BY DistanceCases, Zenon
<1>2. QED
    BY <1>1, WidthFacts, SMT

\* A counter that advances is one further from those behind it.
LEMMA OneFurther ==
    ASSUME NEW a \in Counter, NEW b \in Counter, Distance(a, b) < Wrap - 1
    PROVE  After(b) \in Counter /\ Distance(a, After(b)) = Distance(a, b) + 1
<1>1. After(b) \in Counter
    BY AfterCases, Zenon
<1>2. /\ Distance(a, b) = IF a <= b THEN b - a ELSE b - a + Wrap
      /\ Distance(a, After(b)) = IF a <= After(b) THEN After(b) - a
                                 ELSE After(b) - a + Wrap
      /\ After(b) = IF b = Wrap - 1 THEN 0 ELSE b + 1
    BY <1>1, DistanceCases, AfterCases, Zenon
<1>3. QED
    BY <1>1, <1>2, WidthFacts, SMT

\* A counter that advances is one closer to those ahead of it.
LEMMA OneCloser ==
    ASSUME NEW a \in Counter, NEW b \in Counter, a # b
    PROVE  After(a) \in Counter /\ Distance(After(a), b) = Distance(a, b) - 1
<1>1. After(a) \in Counter
    BY AfterCases, Zenon
<1>2. /\ Distance(a, b) = IF a <= b THEN b - a ELSE b - a + Wrap
      /\ Distance(After(a), b) = IF After(a) <= b THEN b - After(a)
                                 ELSE b - After(a) + Wrap
      /\ After(a) = IF a = Wrap - 1 THEN 0 ELSE a + 1
    BY <1>1, DistanceCases, AfterCases, Zenon
<1>3. QED
    BY <1>1, <1>2, WidthFacts, SMT

\* b is met before c on the way round from a exactly when the distances add up.
LEMMA DistancesAddUp ==
    ASSUME NEW a \in Counter, NEW b \in Counter, NEW c \in Counter
    PROVE  Distance(a, b) <= Distance(a, c)
              <=> Distance(a, b) + Distance(b, c) = Distance(a, c)
<1>1. /\ Distance(a, b) = IF a <= b THEN b - a ELSE b - a + Wrap
      /\ Distance(b, c) = IF b <= c THEN c - b ELSE c - b + Wrap
      /\ Distance(a, c) = IF a <= c THEN c - a ELSE c - a + Wrap
    BY DistanceCases, Zenon
<1>2. QED
    BY <1>1, WidthFacts, SMT

\* A load returns a counter between the last one seen and the current one.
LEMMA LoadableBetween ==
    ASSUME NEW a \in Counter, NEW b \in Counter, NEW x \in Loadable(a, b)
    PROVE  x \in Counter /\ Distance(a, x) + Distance(x, b) = Distance(a, b)
<1>1. PICK k \in 0 .. Distance(a, b) : x = (a + k) % Wrap
    BY DEF Loadable
<1>2. k \in Nat /\ k <= Distance(a, b) /\ k < Wrap
    BY DistanceIsNat, WidthFacts, SMT
<1>3. x = IF a + k < Wrap THEN a + k ELSE a + k - Wrap
    BY <1>1, <1>2, RingAssumption, SMT DEF Counter
<1>4. x \in Counter
    BY <1>2, <1>3, WidthFacts, SMT
<1>5. Distance(a, x) = k
  <2>1. Distance(a, x) = IF a <= x THEN x - a ELSE x - a + Wrap
      BY <1>4, DistanceCases, Zenon
  <2>2. QED
      BY <1>2, <1>3, <2>1, WidthFacts, SMT
<1>6. QED
    BY <1>2, <1>4, <1>5, DistancesAddUp

\* A quotient and a remainder determine the remainder.
LEMMA ModUnique ==
    ASSUME NEW q \in Nat, NEW d \in Nat \ {0}, NEW r \in 0 .. d - 1
    PROVE  (q * d + r) % d = r
<1> DEFINE a == q * d + r
           e == a \div d
<1>1. a \in Nat
    BY SMT
<1>2. a = e * d + (a % d) /\ (a % d) \in 0 .. d - 1 /\ e \in Nat
    BY <1>1, ModDef, DivBounds
<1>3. (q - e) * d = (a % d) - r
    BY <1>2, SMT
<1>4. CASE q = e
    BY <1>2, <1>4, SMT
<1>5. CASE q > e
    BY <1>2, <1>3, <1>5, SMT
<1>6. CASE q < e
    BY <1>2, <1>3, <1>6, SMT
<1>7. QED
    BY <1>2, <1>4, <1>5, <1>6

\* The width of the counters is a multiple of the capacity, so a counter that
\* wraps goes on to the cell it would have gone on to.
LEMMA WrapKeepsCell ==
    ASSUME NEW x \in Nat
    PROVE  (x + Wrap) % Cap = x % Cap
<1> DEFINE q == x \div Cap
           w == Wrap \div Cap
           r == x % Cap
<1>1. x = q * Cap + r /\ q \in Nat /\ r \in 0 .. Cap - 1
    BY ModDef, DivBounds, RingAssumption
<1>2. Wrap = w * Cap /\ w \in Nat
    BY ModDef, DivBounds, RingAssumption, SMT
<1>3. x + Wrap = (q + w) * Cap + r
    BY <1>1, <1>2, RingAssumption, SMT
<1>4. q + w \in Nat
    BY <1>1, <1>2
<1>5. ((q + w) * Cap + r) % Cap = r
    BY <1>1, <1>4, ModUnique, RingAssumption
<1>6. QED
    BY <1>3, <1>5

-----------------------------------------------------------------------------
(* The items between two counters *)

\* What Buffer holds of the cells c when the counters are h and t.
BufferOf(h, t, c) == [k \in 1 .. Distance(h, t) |-> c[(h + k - 1) % Cap]]

\* It is a sequence of as many items as the counters are apart.
LEMMA BufferIsSeq ==
    ASSUME NEW S, NEW h \in Counter, NEW t \in Counter, NEW c \in [0 .. Cap - 1 -> S]
    PROVE  /\ BufferOf(h, t, c) \in Seq(S)
           /\ Len(BufferOf(h, t, c)) = Distance(h, t)
           /\ DOMAIN BufferOf(h, t, c) = 1 .. Distance(h, t)
<1> DEFINE n == Distance(h, t)
           b == BufferOf(h, t, c)
<1>1. n \in Nat
    BY DistanceCases, WidthFacts, Zenon
<1>2. \A k \in 1 .. n : (h + k - 1) % Cap \in 0 .. Cap - 1
    BY <1>1, ModDef, RingAssumption, SMT DEF Counter
<1>3. b \in [1 .. n -> S]
    BY <1>2 DEF BufferOf
<1>4. QED
    BY <1>1, <1>3, SMT

\* The cell a push fills is the one after the last item.
LEMMA TailCell ==
    ASSUME NEW h \in Counter, NEW t \in Counter
    PROVE  (h + Distance(h, t)) % Cap = CellOf(t)
<1>1. CASE h <= t
    BY <1>1, DistanceCases, RingAssumption, SMT DEF Counter, CellOf
<1>2. CASE t < h
  <2>1. h + Distance(h, t) = t + Wrap
      BY <1>2, DistanceCases, RingAssumption, SMT DEF Counter
  <2>2. t \in Nat
      BY RingAssumption, SMT DEF Counter
  <2>3. QED
      BY <2>1, <2>2, WrapKeepsCell DEF CellOf
<1>3. QED
    BY <1>1, <1>2, RingAssumption, SMT DEF Counter

\* Unless the ring is full, that cell is none of those that hold an item.
LEMMA TailCellFree ==
    ASSUME NEW h \in Counter, NEW t \in Counter, Distance(h, t) < Cap,
           NEW k \in 1 .. Distance(h, t)
    PROVE  (h + k - 1) % Cap # CellOf(t)
<1>1. Distance(h, t) \in Nat /\ h \in Nat
    BY DistanceCases, RingAssumption, SMT DEF Counter
<1>2. /\ h + k - 1 \in Nat /\ h + Distance(h, t) \in Nat
      /\ h + k - 1 < h + Distance(h, t)
      /\ (h + Distance(h, t)) - (h + k - 1) < Cap
    BY <1>1, RingAssumption, SMT
<1>3. (h + k - 1) % Cap # (h + Distance(h, t)) % Cap
    BY <1>2, ModDistinct, RingAssumption
<1>4. QED
    BY <1>3, TailCell

\* Advancing the tail appends what the cell holds.
LEMMA BufferPut ==
    ASSUME NEW S, NEW h \in Counter, NEW t \in Counter, NEW c \in [0 .. Cap - 1 -> S],
           Distance(h, t) < Cap
    PROVE  /\ Distance(h, After(t)) = Distance(h, t) + 1
           /\ BufferOf(h, After(t), c) = Append(BufferOf(h, t, c), c[CellOf(t)])
<1> DEFINE n == Distance(h, t)
           b == BufferOf(h, t, c)
           d == BufferOf(h, After(t), c)
<1>0. n \in Nat /\ n < Wrap - 1
  <2>1. n \in Nat /\ n < Cap
      BY DistanceIsNat, Zenon
  <2>2. QED
      BY <2>1, WidthFacts, SMT
<1>1. n \in Nat /\ After(t) \in Counter /\ Distance(h, After(t)) = n + 1
    BY <1>0, OneFurther, Zenon
<1>2. b \in Seq(S) /\ Len(b) = n
    BY BufferIsSeq, SMTT(30)
<1>3. d \in Seq(S) /\ Len(d) = n + 1
    BY <1>1, BufferIsSeq
<1>4. c[CellOf(t)] \in S
    BY ModDef, RingAssumption, SMT DEF Counter, CellOf
<1>5. \A k \in 1 .. n : d[k] = b[k]
    BY <1>1, SMT DEF BufferOf
<1>6. d[n + 1] = c[CellOf(t)]
  <2>1. d[n + 1] = c[(h + (n + 1) - 1) % Cap]
      BY <1>1, SMT DEF BufferOf
  <2>2. h + (n + 1) - 1 = h + n
      BY <1>1, RingAssumption, SMT DEF Counter
  <2>3. QED
      BY <2>1, <2>2, TailCell
<1>7. /\ Append(b, c[CellOf(t)]) \in Seq(S)
      /\ Len(Append(b, c[CellOf(t)])) = n + 1
      /\ \A k \in 1 .. n : Append(b, c[CellOf(t)])[k] = b[k]
      /\ Append(b, c[CellOf(t)])[n + 1] = c[CellOf(t)]
    BY <1>2, <1>4, AppendProperties
<1> HIDE DEF n, b, d
<1>8. \A k \in 1 .. n + 1 : d[k] = Append(b, c[CellOf(t)])[k]
    BY <1>1, <1>5, <1>6, <1>7, SMT
<1>9. d = Append(b, c[CellOf(t)])
    BY <1>3, <1>7, <1>8, SeqEqual
<1>10. QED
    BY <1>1, <1>9 DEF n, b, d

\* Advancing the head drops the oldest item.
LEMMA BufferTake ==
    ASSUME NEW S, NEW h \in Counter, NEW t \in Counter, NEW c \in [0 .. Cap - 1 -> S],
           h # t
    PROVE  /\ Distance(After(h), t) = Distance(h, t) - 1
           /\ BufferOf(h, t, c) # <<>>
           /\ Head(BufferOf(h, t, c)) = c[CellOf(h)]
           /\ BufferOf(After(h), t, c) = Tail(BufferOf(h, t, c))
<1> DEFINE n == Distance(h, t)
           b == BufferOf(h, t, c)
           d == BufferOf(After(h), t, c)
<1>1. n \in Nat \ {0} /\ After(h) \in Counter /\ Distance(After(h), t) = n - 1
    BY DistanceIsNat, OneCloser, SMT
<1>2. b \in Seq(S) /\ Len(b) = n
    BY BufferIsSeq
<1>3. d \in Seq(S) /\ Len(d) = n - 1
    BY <1>1, BufferIsSeq
<1>4. b[1] = c[CellOf(h)]
    BY <1>1, RingAssumption, SMT DEF BufferOf, CellOf, Counter
<1>5. \A k \in 1 .. n - 1 : d[k] = b[k + 1]
  <2>1. SUFFICES ASSUME NEW k \in 1 .. n - 1 PROVE d[k] = b[k + 1]
      OBVIOUS
  <2>2. d[k] = c[(After(h) + k - 1) % Cap]
      BY <1>1 DEF BufferOf
  <2>3. b[k + 1] = c[(h + (k + 1) - 1) % Cap]
      BY <1>1, SMT DEF BufferOf
  <2>4. (After(h) + k - 1) % Cap = (h + (k + 1) - 1) % Cap
    <3> HIDE DEF b, d, n
    <3>0. /\ After(h) = IF h = Wrap - 1 THEN 0 ELSE h + 1
          /\ h \in Nat /\ k \in Nat \ {0} /\ Wrap \in Nat
        BY <1>1, AfterCases, WidthFacts, SMT
    <3>1. CASE h = Wrap - 1
      <4>1. (After(h) + k - 1) + Wrap = h + (k + 1) - 1 /\ After(h) + k - 1 \in Nat
          BY <3>0, <3>1, SMT
      <4>2. QED
          BY <4>1, WrapKeepsCell
    <3>2. CASE h # Wrap - 1
      <4>1. After(h) + k - 1 = h + (k + 1) - 1
          BY <3>0, <3>2, SMT
      <4>2. QED
          BY <4>1
    <3>3. QED
        BY <3>1, <3>2
  <2>5. QED
      BY <2>2, <2>3, <2>4
<1> HIDE DEF n, b, d
<1>6. b # <<>> /\ Head(b) = b[1]
    BY <1>1, <1>2, SMT
<1>7. /\ Tail(b) \in Seq(S) /\ Len(Tail(b)) = n - 1
      /\ \A k \in 1 .. n - 1 : Tail(b)[k] = b[k + 1]
    BY <1>1, <1>2, <1>6, HeadTailProperties
<1>8. d = Tail(b)
    BY <1>3, <1>5, <1>7, SeqEqual
<1>9. QED
    BY <1>1, <1>4, <1>6, <1>8 DEF n, b, d

-----------------------------------------------------------------------------
(* The histories *)

\* Accepting an item appends it to what waits.
LEMMA AcceptNewest ==
    ASSUME NEW S, NEW s \in Seq(S), NEW b \in Seq(S), NEW x \in S
    PROVE  s \o Append(b, x) = Append(s \o b, x)
<1>1. s \o b \in Seq(S) /\ <<x>> \in Seq(S)
    BY ConcatProperties
<1>2. (s \o b) \o <<x>> = s \o (b \o <<x>>)
    BY <1>1, ConcatAssociative
<1>3. QED
    BY <1>1, <1>2, AppendIsConcat

\* Delivering the oldest item takes it from the front of what waits.
LEMMA DeliverOldest ==
    ASSUME NEW S, NEW s \in Seq(S), NEW b \in Seq(S), b # <<>>
    PROVE  s \o b = Append(s, Head(b)) \o Tail(b)
<1>1. Head(b) \in S /\ Tail(b) \in Seq(S) /\ <<Head(b)>> \in Seq(S)
    BY HeadTailProperties
<1>2. b = <<Head(b)>> \o Tail(b)
  <2>1. /\ Len(Tail(b)) = Len(b) - 1 /\ Len(b) \in Nat
        /\ \A i \in 1 .. Len(Tail(b)) : Tail(b)[i] = b[i + 1]
      BY HeadTailProperties, LenProperties
  <2>2. /\ <<Head(b)>> \o Tail(b) \in Seq(S)
        /\ Len(<<Head(b)>> \o Tail(b)) = Len(<<Head(b)>>) + Len(Tail(b))
        /\ \A i \in 1 .. Len(<<Head(b)>>) + Len(Tail(b)) :
              (<<Head(b)>> \o Tail(b))[i] =
                 IF i <= Len(<<Head(b)>>) THEN <<Head(b)>>[i]
                 ELSE Tail(b)[i - Len(<<Head(b)>>)]
      BY <1>1, ConcatProperties
  <2>3. Len(<<Head(b)>>) = 1 /\ <<Head(b)>>[1] = b[1]
      BY SMT
  <2>4. \A i \in 1 .. Len(b) : b[i] = (<<Head(b)>> \o Tail(b))[i]
      BY <2>1, <2>2, <2>3, SMT
  <2>5. QED
      BY <2>1, <2>2, <2>3, <2>4, SeqEqual
<1>3. (s \o <<Head(b)>>) \o Tail(b) = s \o (<<Head(b)>> \o Tail(b))
    BY <1>1, ConcatAssociative
<1>4. QED
    BY <1>1, <1>2, <1>3, AppendIsConcat

-----------------------------------------------------------------------------
(* The inductive invariant *)

\* Going round from what a producer last saw of head, one meets head, then
\* what the consumer last saw of tail, then tail, within Cap places.
CountersInOrder ==
    /\ Distance(head, ctail) <= Distance(head, tail)
    /\ \A p \in Producers :
          /\ Distance(phead[p], head) + Distance(head, tail) = Distance(phead[p], tail)
          /\ Distance(phead[p], tail) <= Cap

\* What a producer knows in the middle of try_push.
ProducerLocals ==
    \A p \in Producers :
        /\ ppc[p] # "idle" => ptail[p] = tail /\ next[p] <= MaxItems
        /\ ppc[p] \in {"granted", "written"} => Distance(phead[p], tail) < Cap
        /\ ppc[p] = "written" => cells[CellOf(tail)] = Item(p)

\* What the consumer knows in the middle of try_pop.
ConsumerLocals ==
    /\ cpc # "idle" => head # ctail
    /\ cpc = "read" => citem = cells[CellOf(head)]

RingInv == TypeOK /\ CountersInOrder /\ ProducerLocals /\ ConsumerLocals /\ NothingLost

\* What a cell may hold.
Contents == Items \union {NoItem}

\* What the numbers say: nothing that is read lies outside the ring.
LEMMA OrderFacts ==
    ASSUME RingInv
    PROVE  /\ Distance(head, tail) \in Nat
           /\ Buffer = BufferOf(head, tail, cells)
           /\ cpc # "idle" => head # tail
           /\ \A p \in Producers :
                 ppc[p] \in {"granted", "written"} => Distance(head, tail) < Cap
<1>1. /\ head \in Counter /\ tail \in Counter /\ ctail \in Counter
      /\ \A p \in Producers : phead[p] \in Counter
    BY Zenon DEF RingInv, TypeOK
<1>2. Distance(head, tail) \in Nat
    BY <1>1, DistanceIsNat, Zenon
<1>3. Buffer = BufferOf(head, tail, cells)
    BY Zenon DEF Buffer, BufferOf
<1>4. cpc # "idle" => head # tail
  <2>1. /\ Distance(head, ctail) \in Nat
        /\ Distance(head, ctail) = 0 <=> head = ctail
        /\ Distance(head, tail) = 0 <=> head = tail
        /\ Distance(head, ctail) <= Distance(head, tail)
      BY <1>1, DistanceIsNat, Zenon DEF RingInv, CountersInOrder
  <2>2. cpc # "idle" => head # ctail
      BY DEF RingInv, ConsumerLocals
  <2>3. QED
      BY <1>2, <2>1, <2>2, SMT
<1>5. ASSUME NEW p \in Producers, ppc[p] \in {"granted", "written"}
      PROVE  Distance(head, tail) < Cap
  <2>1. /\ Distance(phead[p], head) \in Nat
        /\ Distance(phead[p], tail) \in Nat
        /\ Distance(phead[p], head) + Distance(head, tail) = Distance(phead[p], tail)
        /\ Distance(phead[p], tail) < Cap
      BY <1>1, <1>5, DistanceIsNat, Zenon DEF RingInv, CountersInOrder, ProducerLocals
  <2>2. QED
      BY <1>2, <2>1, WidthFacts, SMT
<1>6. QED
    BY <1>2, <1>3, <1>4, <1>5

\* The plain accesses never meet while RingInv holds.
LEMMA RingInvNoSlotRace ==
    ASSUME SingleProducer, RingInv
    PROVE  NoSlotRace
<1>1. ASSUME NEW p \in Producers, ppc[p] = "granted", cpc = "found"
      PROVE  CellOf(ptail[p]) # CellOf(head)
  <2>1. /\ head \in Counter /\ tail \in Counter /\ ptail[p] = tail
        /\ Distance(head, tail) < Cap /\ head # tail
      BY <1>1, OrderFacts, Zenon DEF RingInv, TypeOK, ProducerLocals
  <2>2. 1 \in 1 .. Distance(head, tail)
      BY <2>1, DistanceIsNat, SMT
  <2>3. (head + 1 - 1) % Cap # CellOf(tail)
      BY <2>1, <2>2, TailCellFree
  <2>4. head + 1 - 1 = head
      BY <2>1, WidthFacts, SMT
  <2>5. QED
      BY <2>1, <2>3, <2>4 DEF CellOf
<1>2. QED
    BY <1>1, Zenon DEF NoSlotRace, SingleProducer

\* RingInv holds when the ring has just been zeroed.
LEMMA RingInvInit ==
    ASSUME Init
    PROVE  RingInv
<1>1. 0 \in Counter /\ Distance(0, 0) = 0
    BY WidthFacts, DistanceIsNat, SMT
<1>2. TypeOK
  <2>1. accepted \in Seq(Items) /\ delivered \in Seq(Items)
      BY EmptySeq DEF Init
  <2>2. next \in [Producers -> 1 .. MaxItems + 1]
      BY RingAssumption, SMT DEF Init
  <2>3. QED
      BY <1>1, <2>1, <2>2 DEF Init, TypeOK
<1>3. NothingLost
  <2>1. Buffer = <<>>
      BY <1>1, SMT DEF Init, Buffer
  <2>2. QED
      BY <2>1, EmptySeq, ConcatEmptySeq DEF Init, NothingLost
<1>4. CountersInOrder
    BY <1>1, WidthFacts, SMT DEF Init, CountersInOrder
<1>5. QED
    BY <1>2, <1>3, <1>4 DEF Init, RingInv, ProducerLocals, ConsumerLocals

\* A step that touches neither the counters, the cells nor the histories keeps
\* what they say.
LEMMA QuietStep ==
    ASSUME NothingLost, UNCHANGED <<head, tail, cells, accepted, delivered>>
    PROVE  NothingLost'
<1>1. Buffer' = Buffer
    BY Zenon DEF Buffer
<1>2. QED
    BY <1>1, Zenon DEF NothingLost

\* What is between the counters is a sequence of cells' contents.
LEMMA BufferFacts ==
    ASSUME RingInv
    PROVE  /\ Buffer \in Seq(Contents)
           /\ delivered \in Seq(Contents)
<1>1. /\ head \in Counter /\ tail \in Counter
      /\ cells \in [0 .. Cap - 1 -> Contents]
    BY Zenon DEF RingInv, TypeOK, Contents
<1>2. Buffer \in Seq(Contents)
  <2>1. BufferOf(head, tail, cells) \in Seq(Contents)
      BY <1>1, BufferIsSeq
  <2>2. QED
      BY <2>1, OrderFacts
<1>3. Items \subseteq Contents
    BY DEF Contents
<1>4. delivered \in Seq(Contents)
    BY <1>3, SeqMonotonic, Zenon DEF RingInv, TypeOK
<1>5. QED
    BY <1>2, <1>4

\* The first half of try_push: its locals are set from the counters.
LEMMA PushLoadsKeepRingInv ==
    ASSUME SingleProducer, RingInv, NEW p \in Producers,
           \/ PushLoadTail(p)
           \/ \E h \in Loadable(phead[p], head) : PushLoadHead(p, h)
    PROVE  RingInv'
<1> USE DEF RingInv
<1>0. Producers = {p}
    BY DEF SingleProducer
<1>1. CASE PushLoadTail(p)
  <2>1. TypeOK'
      BY <1>1 DEF PushLoadTail, TypeOK, consumerVars
  <2>2. CountersInOrder' /\ ConsumerLocals'
      BY <1>1, Zenon DEF PushLoadTail, CountersInOrder, ConsumerLocals, consumerVars
  <2>3. ProducerLocals'
      BY <1>0, <1>1 DEF PushLoadTail, ProducerLocals, TypeOK
  <2>4. NothingLost'
      BY <1>1, QuietStep DEF PushLoadTail, consumerVars
  <2>5. QED
      BY <2>1, <2>2, <2>3, <2>4
<1>2. CASE \E h \in Loadable(phead[p], head) : PushLoadHead(p, h)
  <2>0. PICK h \in Loadable(phead[p], head) : PushLoadHead(p, h)
      BY <1>2
  <2>1. /\ head \in Counter /\ tail \in Counter /\ phead[p] \in Counter
        /\ h \in Counter /\ phead'[p] = h /\ ptail[p] = tail
      BY <2>0, LoadableBetween, Zenon DEF TypeOK, PushLoadHead, ProducerLocals
  <2>2. /\ Distance(h, head) + Distance(head, tail) = Distance(h, tail)
        /\ Distance(h, tail) <= Cap
    <3>1. /\ Distance(phead[p], h) + Distance(h, head) = Distance(phead[p], head)
          /\ Distance(phead[p], head) + Distance(head, tail) = Distance(phead[p], tail)
          /\ Distance(phead[p], tail) <= Cap
        BY <2>0, <2>1, LoadableBetween, Zenon DEF CountersInOrder
    <3>2. /\ Distance(phead[p], h) \in Nat /\ Distance(h, head) \in Nat
          /\ Distance(head, tail) \in Nat /\ Distance(phead[p], head) \in Nat
          /\ Distance(phead[p], tail) \in Nat /\ Distance(h, tail) \in Nat
        BY <2>1, DistanceIsNat, Zenon
    <3>3. Distance(phead[p], h) <= Distance(phead[p], tail)
        BY <3>1, <3>2, SMT
    <3>4. Distance(phead[p], h) + Distance(h, tail) = Distance(phead[p], tail)
        BY <2>1, <3>3, DistancesAddUp, Zenon
    <3>5. QED
        BY <3>1, <3>2, <3>4, WidthFacts, SMT
  <2>3. TypeOK'
      BY <2>0, <2>1 DEF PushLoadHead, TypeOK, consumerVars
  <2>4. CountersInOrder'
      BY <1>0, <2>0, <2>1, <2>2, Zenon DEF PushLoadHead, CountersInOrder, consumerVars
  <2>5. ConsumerLocals'
      BY <2>0, Zenon DEF PushLoadHead, ConsumerLocals, consumerVars
  <2>6. ProducerLocals'
    <3>1. ppc'[p] = IF Distance(h, tail) >= Cap THEN "idle" ELSE "granted"
        BY <2>0, <2>1, Zenon DEF PushLoadHead, Full, TypeOK
    <3>2. ppc'[p] \in {"granted", "written"} => Distance(h, tail) < Cap
        BY <2>1, <3>1, DistanceIsNat, WidthFacts, SMT
    <3>3. ppc'[p] # "written"
        BY <3>1
    <3>4. ptail'[p] = tail' /\ next'[p] <= MaxItems
        BY <2>0, <2>1 DEF PushLoadHead, ProducerLocals
    <3>5. tail' = tail
        BY <2>0 DEF PushLoadHead
    <3>6. QED
        BY <1>0, <2>1, <3>2, <3>3, <3>4, <3>5, Zenon DEF ProducerLocals
  <2>7. NothingLost'
      BY <2>0, QuietStep DEF PushLoadHead, consumerVars
  <2>8. QED
      BY <2>3, <2>4, <2>5, <2>6, <2>7
<1>3. QED
    BY <1>1, <1>2

\* The plain store of try_push goes to a cell nobody looks at.
LEMMA PushWriteKeepsRingInv ==
    ASSUME SingleProducer, RingInv, NEW p \in Producers, PushWrite(p)
    PROVE  RingInv'
<1> USE DEF RingInv
<1>0. Producers = {p}
    BY DEF SingleProducer
<1>1. /\ head \in Counter /\ tail \in Counter /\ ptail[p] = tail
      /\ cells \in [0 .. Cap - 1 -> Contents]
      /\ ppc[p] = "granted" /\ Distance(head, tail) < Cap
      /\ Item(p) \in Items
  <2>1. next[p] \in 1 .. MaxItems + 1 /\ next[p] <= MaxItems
      BY DEF TypeOK, ProducerLocals, PushWrite
  <2>2. next[p] \in 1 .. MaxItems
      BY <2>1, RingAssumption, SMT
  <2>3. Item(p) \in Items
      BY <2>2 DEF Item, Items
  <2>4. QED
      BY <2>3, OrderFacts DEF TypeOK, ProducerLocals, PushWrite, Contents
<1>2. /\ cells' = [cells EXCEPT ![CellOf(tail)] = Item(p)]
      /\ ppc' = [ppc EXCEPT ![p] = "written"]
      /\ UNCHANGED <<head, tail, next, ptail, phead, accepted, consumerVars>>
    BY <1>1 DEF PushWrite
<1>3. CellOf(tail) \in 0 .. Cap - 1
    BY <1>1, ModDef, WidthFacts, Zenon DEF CellOf
<1>4. TypeOK'
    BY <1>1, <1>2, <1>3 DEF TypeOK, consumerVars, Contents
<1>5. CountersInOrder'
    BY <1>2, Zenon DEF CountersInOrder, consumerVars
<1>6. ProducerLocals'
  <2>1. cells'[CellOf(tail)] = Item(p)
      BY <1>1, <1>2, <1>3
  <2>2. Item(p)' = Item(p)
      BY <1>2 DEF Item
  <2>3. QED
      BY <1>0, <1>1, <1>2, <2>1, <2>2 DEF ProducerLocals
<1>7. ConsumerLocals'
  <2>1. CASE cpc = "idle"
      BY <1>2, <2>1 DEF ConsumerLocals, consumerVars
  <2>2. CASE cpc # "idle"
    <3>1. head # tail
        BY <2>2, OrderFacts
    <3>2. 1 \in 1 .. Distance(head, tail)
        BY <1>1, <3>1, DistanceIsNat, SMT
    <3>3. (head + 1 - 1) % Cap # CellOf(tail)
        BY <1>1, <3>2, TailCellFree
    <3>4. head + 1 - 1 = head
        BY <1>1, WidthFacts, SMT
    <3>5. cells'[CellOf(head)] = cells[CellOf(head)]
        BY <1>2, <3>3, <3>4 DEF CellOf, TypeOK
    <3>6. QED
        BY <1>2, <3>5 DEF ConsumerLocals, consumerVars
  <2>3. QED
      BY <2>1, <2>2
<1>8. NothingLost'
  <2>1. ASSUME NEW k \in 1 .. Distance(head, tail)
        PROVE  cells'[(head + k - 1) % Cap] = cells[(head + k - 1) % Cap]
    <3>1. (head + k - 1) % Cap # CellOf(tail)
        BY <1>1, TailCellFree
    <3>2. QED
        BY <1>1, <1>2, <3>1
  <2>2. head' = head /\ tail' = tail /\ accepted' = accepted /\ delivered' = delivered
      BY <1>2 DEF consumerVars
  <2>3. Buffer' = Buffer
      BY <2>1, <2>2, Zenon DEF Buffer
  <2>4. QED
      BY <2>2, <2>3, Zenon DEF NothingLost
<1>9. QED
    BY <1>4, <1>5, <1>6, <1>7, <1>8

\* The store of tail: what was written becomes the newest item.
LEMMA PublishAppends ==
    ASSUME RingInv, NEW p \in Producers, PushPublish(p)
    PROVE  /\ tail' = After(tail) /\ tail' \in Counter
           /\ Distance(head, tail') = Distance(head, tail) + 1
           /\ Distance(phead[p], tail') = Distance(phead[p], tail) + 1
           /\ Distance(phead[p], tail) < Cap /\ Distance(head, tail) < Cap
           /\ Item(p) \in Items
           /\ Buffer' = Append(Buffer, Item(p))
<1> USE DEF RingInv
<1>1. /\ head \in Counter /\ tail \in Counter /\ ptail[p] = tail /\ phead[p] \in Counter
      /\ cells \in [0 .. Cap - 1 -> Contents]
      /\ Distance(head, tail) < Cap /\ Distance(phead[p], tail) < Cap
      /\ cells[CellOf(tail)] = Item(p)
      /\ tail' = After(tail) /\ UNCHANGED <<head, cells>>
    BY OrderFacts DEF TypeOK, ProducerLocals, PushPublish, Contents
<1>2. Item(p) \in Items
  <2>1. next[p] \in 1 .. MaxItems + 1 /\ next[p] <= MaxItems
      BY DEF TypeOK, ProducerLocals, PushPublish
  <2>2. next[p] \in 1 .. MaxItems
      BY <2>1, RingAssumption, SMT
  <2>3. QED
      BY <2>2 DEF Item, Items
<1>3. /\ Distance(head, After(tail)) = Distance(head, tail) + 1
      /\ BufferOf(head, After(tail), cells) = Append(BufferOf(head, tail, cells), Item(p))
  <2>1. BufferOf(head, After(tail), cells)
           = Append(BufferOf(head, tail, cells), cells[CellOf(tail)])
      BY <1>1, BufferPut, ZenonT(40)
  <2>2. Distance(head, After(tail)) = Distance(head, tail) + 1
      BY <1>1, BufferPut
  <2>3. QED
      BY <1>1, <2>1, <2>2
<1>4. Distance(phead[p], tail) < Wrap - 1
  <2>1. Distance(phead[p], tail) \in Nat
      BY <1>1, DistanceIsNat, Zenon
  <2>2. QED
      BY <1>1, <2>1, WidthFacts, SMT
<1>5. After(tail) \in Counter /\ Distance(phead[p], After(tail)) = Distance(phead[p], tail) + 1
    BY <1>1, <1>4, OneFurther, Zenon
<1>6. Buffer' = BufferOf(head, After(tail), cells)
    BY <1>1, Zenon DEF Buffer, BufferOf
<1>7. QED
    BY <1>1, <1>2, <1>3, <1>5, <1>6, OrderFacts

\* The store of tail keeps the invariant.
LEMMA PushPublishKeepsRingInv ==
    ASSUME SingleProducer, RingInv, NEW p \in Producers, PushPublish(p)
    PROVE  RingInv'
<1> USE DEF RingInv
<1>0. Producers = {p}
    BY DEF SingleProducer
<1>1. /\ accepted' = Append(accepted, Item(p))
      /\ next' = [next EXCEPT ![p] = @ + 1]
      /\ ppc' = [ppc EXCEPT ![p] = "idle"]
      /\ UNCHANGED <<head, cells, ptail, phead, consumerVars>>
    BY DEF PushPublish
<1>2. TypeOK'
  <2>1. next' \in [Producers -> 1 .. MaxItems + 1]
    <3>1. next[p] <= MaxItems /\ next \in [Producers -> 1 .. MaxItems + 1]
        BY DEF TypeOK, ProducerLocals, PushPublish
    <3>2. next[p] + 1 \in 1 .. MaxItems + 1
        BY <3>1, RingAssumption, SMT
    <3>3. QED
        BY <1>1, <3>1, <3>2
  <2>2. accepted' \in Seq(Items)
      BY <1>1, PublishAppends, AppendProperties DEF TypeOK
  <2>3. tail' \in Counter
      BY PublishAppends
  <2>4. QED
      BY <1>1, <2>1, <2>2, <2>3 DEF TypeOK, consumerVars
<1>3. CountersInOrder'
  <2>1. /\ head \in Counter /\ tail \in Counter /\ ctail \in Counter /\ phead[p] \in Counter
        /\ Distance(head, tail') = Distance(head, tail) + 1
        /\ Distance(phead[p], tail') = Distance(phead[p], tail) + 1
        /\ Distance(phead[p], tail) < Cap
      BY PublishAppends DEF TypeOK
  <2>2. /\ Distance(head, ctail) \in Nat /\ Distance(head, tail) \in Nat
        /\ Distance(phead[p], head) \in Nat /\ Distance(phead[p], tail) \in Nat
      BY <2>1, DistanceIsNat, Zenon
  <2>3. /\ Distance(head, ctail) <= Distance(head, tail)
        /\ Distance(phead[p], head) + Distance(head, tail) = Distance(phead[p], tail)
      BY DEF CountersInOrder
  <2>4. /\ Distance(head, ctail) <= Distance(head, tail')
        /\ Distance(phead[p], head) + Distance(head, tail') = Distance(phead[p], tail')
        /\ Distance(phead[p], tail') <= Cap
      BY <2>1, <2>2, <2>3, WidthFacts, SMT
  <2>5. head' = head /\ ctail' = ctail /\ phead' = phead
      BY <1>1 DEF consumerVars
  <2>6. QED
      BY <1>0, <2>4, <2>5, Zenon DEF CountersInOrder
<1>4. ProducerLocals'
    BY <1>0, <1>1 DEF ProducerLocals, TypeOK
<1>5. ConsumerLocals'
    BY <1>1, Zenon DEF ConsumerLocals, consumerVars
<1>6. NothingLost'
  <2>1. Buffer \in Seq(Contents) /\ delivered \in Seq(Contents)
      BY BufferFacts
  <2>2. delivered \o Append(Buffer, Item(p)) = Append(delivered \o Buffer, Item(p))
    <3>1. Item(p) \in Contents
        BY PublishAppends DEF Contents
    <3>2. QED
        BY <2>1, <3>1, AcceptNewest
  <2>3. QED
      BY <1>1, <2>2, PublishAppends, Zenon DEF NothingLost, consumerVars
<1>7. QED
    BY <1>2, <1>3, <1>4, <1>5, <1>6

\* A client that dies leaves nothing behind but a cell nobody will read.
LEMMA PushCrashKeepsRingInv ==
    ASSUME SingleProducer, RingInv, NEW p \in Producers, PushCrash(p)
    PROVE  RingInv'
<1> USE DEF RingInv
<1>0. Producers = {p}
    BY DEF SingleProducer
<1>1. /\ next' = [next EXCEPT ![p] = @ + 1]
      /\ ppc' = [ppc EXCEPT ![p] = "idle"]
      /\ UNCHANGED <<head, tail, cells, ptail, phead, accepted, consumerVars>>
    BY DEF PushCrash
<1>2. TypeOK'
  <2>1. next[p] <= MaxItems /\ next \in [Producers -> 1 .. MaxItems + 1]
      BY DEF TypeOK, ProducerLocals, PushCrash
  <2>2. next[p] + 1 \in 1 .. MaxItems + 1
      BY <2>1, RingAssumption, SMT
  <2>3. QED
      BY <1>1, <2>1, <2>2 DEF TypeOK, consumerVars
<1>3. CountersInOrder' /\ ConsumerLocals'
    BY <1>1, Zenon DEF CountersInOrder, ConsumerLocals, consumerVars
<1>4. ProducerLocals'
    BY <1>0, <1>1 DEF ProducerLocals, TypeOK
<1>5. NothingLost'
    BY <1>1, QuietStep DEF consumerVars
<1>6. QED
    BY <1>2, <1>3, <1>4, <1>5

\* The loads of try_pop.
LEMMA PopLoadsKeepRingInv ==
    ASSUME RingInv, (\E t \in Loadable(ctail, tail) : PopLoad(t)) \/ PopRead
    PROVE  RingInv'
<1> USE DEF RingInv
<1>1. CASE \E t \in Loadable(ctail, tail) : PopLoad(t)
  <2>0. PICK t \in Loadable(ctail, tail) : PopLoad(t)
      BY <1>1
  <2>1. /\ head \in Counter /\ tail \in Counter /\ ctail \in Counter /\ t \in Counter
        /\ Distance(ctail, t) + Distance(t, tail) = Distance(ctail, tail)
      BY LoadableBetween DEF TypeOK
  <2>2. Distance(head, t) <= Distance(head, tail)
    <3>1. Distance(head, ctail) + Distance(ctail, tail) = Distance(head, tail)
        BY <2>1, DistancesAddUp, Zenon DEF CountersInOrder
    <3>2. /\ Distance(ctail, tail) = IF ctail <= tail THEN tail - ctail
                                     ELSE tail - ctail + Wrap
          /\ Distance(head, ctail) = IF head <= ctail THEN ctail - head
                                     ELSE ctail - head + Wrap
          /\ Distance(head, tail) = IF head <= tail THEN tail - head
                                    ELSE tail - head + Wrap
          /\ Distance(ctail, t) = IF ctail <= t THEN t - ctail ELSE t - ctail + Wrap
          /\ Distance(t, tail) = IF t <= tail THEN tail - t ELSE tail - t + Wrap
          /\ Distance(head, t) = IF head <= t THEN t - head ELSE t - head + Wrap
        BY <2>1, DistanceCases, Zenon
    <3>3. QED
        BY <2>1, <3>1, <3>2, WidthFacts, SMT
  <2>3. TypeOK'
      BY <2>0, <2>1 DEF PopLoad, TypeOK, producerVars
  <2>4. CountersInOrder'
      BY <2>0, <2>2, Zenon DEF PopLoad, CountersInOrder, producerVars
  <2>5. ProducerLocals'
      BY <2>0 DEF PopLoad, ProducerLocals, Item, producerVars
  <2>6. ConsumerLocals'
      BY <2>0 DEF PopLoad, ConsumerLocals
  <2>7. NothingLost'
      BY <2>0, QuietStep DEF PopLoad, producerVars
  <2>8. QED
      BY <2>3, <2>4, <2>5, <2>6, <2>7
<1>2. CASE PopRead
  <2>1. TypeOK'
    <3>1. CellOf(head) \in 0 .. Cap - 1
        BY ModDef, WidthFacts, Zenon DEF CellOf, TypeOK
    <3>2. QED
        BY <1>2, <3>1 DEF PopRead, TypeOK, producerVars
  <2>2. CountersInOrder' /\ ProducerLocals'
      BY <1>2 DEF PopRead, CountersInOrder, ProducerLocals, Item, producerVars
  <2>3. ConsumerLocals'
      BY <1>2 DEF PopRead, ConsumerLocals
  <2>4. NothingLost'
      BY <1>2, QuietStep DEF PopRead, producerVars
  <2>5. QED
      BY <2>1, <2>2, <2>3, <2>4
<1>3. QED
    BY <1>1, <1>2

\* The store of head: the oldest item becomes the last one delivered.
LEMMA ReleaseTakes ==
    ASSUME RingInv, PopRelease
    PROVE  /\ head # tail /\ head' \in Counter
           /\ Buffer # <<>> /\ Buffer' = Tail(Buffer)
           /\ delivered' = Append(delivered, Head(Buffer))
           /\ delivered' \in Seq(Items)
<1> USE DEF RingInv
<1>1. /\ head \in Counter /\ tail \in Counter /\ head # tail
      /\ cells \in [0 .. Cap - 1 -> Contents]
      /\ citem = cells[CellOf(head)] /\ Buffer = BufferOf(head, tail, cells)
      /\ delivered \in Seq(Items) /\ accepted \in Seq(Items)
      /\ accepted = delivered \o Buffer
    BY OrderFacts DEF TypeOK, ConsumerLocals, Contents, PopRelease, NothingLost
<1>2. /\ head' = After(head) /\ tail' = tail /\ cells' = cells
      /\ delivered' = Append(delivered, citem)
    BY DEF PopRelease
<1>3. /\ Buffer # <<>>
      /\ Head(Buffer) = citem
      /\ BufferOf(After(head), tail, cells) = Tail(Buffer)
    BY <1>1, BufferTake, ZenonT(40)
<1>4. After(head) \in Counter
    BY <1>1, AfterCases
<1>5. Buffer' = BufferOf(After(head), tail, cells)
    BY <1>2, Zenon DEF Buffer, BufferOf
<1>6. citem \in Items
  <2>1. /\ Buffer \in Seq(Contents) /\ delivered \in Seq(Contents)
        /\ Len(Buffer) \in Nat \ {0} /\ Len(delivered) \in Nat
        /\ Head(Buffer) = Buffer[1]
      BY <1>3, BufferFacts, SMT
  <2>2. /\ Len(accepted) = Len(delivered) + Len(Buffer)
        /\ \A i \in 1 .. Len(delivered) + Len(Buffer) :
              accepted[i] = IF i <= Len(delivered) THEN delivered[i]
                            ELSE Buffer[i - Len(delivered)]
      BY <1>1, <2>1, ConcatProperties, ZenonT(40)
  <2>3. /\ Len(delivered) + 1 \in 1 .. Len(accepted)
        /\ accepted[Len(delivered) + 1] = Buffer[1]
      BY <2>1, <2>2, SMT
  <2>4. QED
      BY <1>1, <1>3, <2>1, <2>3, ElementOfSeq
<1>7. Append(delivered, citem) \in Seq(Items)
    BY <1>1, <1>6, AppendProperties
<1>8. QED
    BY <1>1, <1>2, <1>3, <1>4, <1>5, <1>7

\* The store of head keeps the invariant.
LEMMA PopReleaseKeepsRingInv ==
    ASSUME RingInv, PopRelease
    PROVE  RingInv'
<1> USE DEF RingInv
<1>1. /\ cpc = "read" /\ cpc' = "idle" /\ head' = After(head)
      /\ UNCHANGED <<tail, cells, ppc, next, ptail, phead, accepted, ctail, citem>>
    BY DEF PopRelease, producerVars
<1>2. TypeOK'
    BY <1>1, ReleaseTakes DEF TypeOK
<1>3. CountersInOrder'
  <2>1. /\ head \in Counter /\ tail \in Counter /\ ctail \in Counter
        /\ head # tail /\ head # ctail
        /\ Distance(head, ctail) <= Distance(head, tail)
      BY <1>1, ReleaseTakes DEF TypeOK, CountersInOrder, ConsumerLocals
  <2>2. /\ Distance(After(head), tail) = Distance(head, tail) - 1
        /\ Distance(After(head), ctail) = Distance(head, ctail) - 1
        /\ Distance(head, tail) \in Nat \ {0} /\ Distance(head, ctail) \in Nat \ {0}
      BY <2>1, OneCloser, DistanceIsNat, SMT
  <2>3. Distance(After(head), ctail) <= Distance(After(head), tail)
      BY <2>1, <2>2, SMT
  <2>4. ASSUME NEW p \in Producers
        PROVE  /\ Distance(phead[p], After(head)) + Distance(After(head), tail)
                      = Distance(phead[p], tail)
               /\ Distance(phead[p], tail) <= Cap
    <3>1. /\ phead[p] \in Counter
          /\ Distance(phead[p], head) + Distance(head, tail) = Distance(phead[p], tail)
          /\ Distance(phead[p], tail) <= Cap
        BY DEF TypeOK, CountersInOrder
    <3>2. /\ Distance(phead[p], head) \in Nat /\ Distance(phead[p], tail) \in Nat
          /\ Distance(phead[p], tail) < Wrap
        BY <2>1, <3>1, DistanceIsNat, Zenon
    <3>3. Distance(phead[p], head) < Wrap - 1
        BY <2>2, <3>1, <3>2, WidthFacts, SMT
    <3>4. Distance(phead[p], After(head)) = Distance(phead[p], head) + 1
        BY <2>1, <3>1, <3>3, OneFurther, Zenon
    <3>5. QED
        BY <2>2, <3>1, <3>2, <3>4, SMT
  <2>5. QED
      BY <1>1, <2>3, <2>4, Zenon DEF CountersInOrder
<1>4. ProducerLocals'
    BY <1>1 DEF ProducerLocals, Item
<1>5. ConsumerLocals'
    BY <1>1 DEF ConsumerLocals
<1>6. NothingLost'
  <2>1. Buffer \in Seq(Contents) /\ delivered \in Seq(Contents)
      BY BufferFacts
  <2>2. delivered \o Buffer = Append(delivered, Head(Buffer)) \o Tail(Buffer)
      BY <2>1, ReleaseTakes, DeliverOldest
  <2>3. QED
      BY <1>1, <2>2, ReleaseTakes, Zenon DEF NothingLost
<1>7. QED
    BY <1>2, <1>3, <1>4, <1>5, <1>6

\* Every step of the producer and the consumer keeps the invariant.
LEMMA RingInvStep ==
    ASSUME SingleProducer, RingInv, [Next]_vars
    PROVE  RingInv'
<1>1. ASSUME NEW p \in Producers, Push(p)
      PROVE  RingInv'
    BY <1>1, PushLoadsKeepRingInv, PushWriteKeepsRingInv, PushPublishKeepsRingInv
       DEF Push
<1>2. ASSUME NEW p \in Producers, PushCrash(p)
      PROVE  RingInv'
    BY <1>2, PushCrashKeepsRingInv
<1>3. CASE Pop
    BY <1>3, PopLoadsKeepRingInv, PopReleaseKeepsRingInv DEF Pop
<1>4. CASE UNCHANGED vars
  <2>1. TypeOK' /\ ConsumerLocals'
      BY <1>4 DEF RingInv, TypeOK, ConsumerLocals, vars
  <2>2. CountersInOrder' /\ ProducerLocals'
      BY <1>4 DEF RingInv, CountersInOrder, ProducerLocals, Item, vars
  <2>3. NothingLost'
      BY <1>4, QuietStep DEF RingInv, vars
  <2>4. QED
      BY <2>1, <2>2, <2>3 DEF RingInv
<1>5. QED
    BY <1>1, <1>2, <1>3, <1>4 DEF Next

-----------------------------------------------------------------------------
(* What is proved of the ring *)

\* The inductive invariant holds throughout: stale loads of head and tail,
\* crashes in the middle of a push and counters that wrap included.
THEOREM RingInvHolds ==
    ASSUME SingleProducer
    PROVE  Spec => []RingInv
<1>1. Init => RingInv
    BY RingInvInit
<1>2. RingInv /\ [Next]_vars => RingInv'
    BY RingInvStep
<1>3. QED
    BY <1>1, <1>2, PTL DEF Spec

\* Every variable keeps its type; in particular only what a producer pushed is
\* ever delivered, never the zeroes of a fresh ring.
THEOREM RingTypes ==
    ASSUME SingleProducer
    PROVE  Spec => []TypeOK
<1>1. RingInv => TypeOK
    BY DEF RingInv
<1>2. QED
    BY <1>1, RingInvHolds, PTL

\* No cell is written while it is read (the SAFETY comments of try_push and
\* try_pop).
THEOREM RingNoSlotRace ==
    ASSUME SingleProducer
    PROVE  Spec => []NoSlotRace
<1>1. RingInv => NoSlotRace
    BY RingInvNoSlotRace
<1>2. QED
    BY <1>1, RingInvHolds, PTL

\* What was accepted is what was delivered followed by what waits: nothing is
\* lost, repeated or reordered.
THEOREM RingNothingLost ==
    ASSUME SingleProducer
    PROVE  Spec => []NothingLost
<1>1. RingInv => NothingLost
    BY DEF RingInv
<1>2. QED
    BY <1>1, RingInvHolds, PTL

\* A step of the ring puts an item into the abstract buffer (the store of
\* tail), takes one out (the store of head), or leaves it as it is.
LEMMA StepImplementsFifo ==
    ASSUME SingleProducer, RingInv, RingInv', [Next]_vars
    PROVE  [FifoView!Next]_(FifoView!vars)
<1>1. ASSUME UNCHANGED <<head, tail, cells, delivered>>
      PROVE  UNCHANGED FifoView!vars
  <2>1. Buffer' = Buffer
      BY <1>1, Zenon DEF Buffer
  <2>2. QED
      BY <1>1, <2>1 DEF FifoView!vars
<1>2. ASSUME NEW p \in Producers, PushWrite(p)
      PROVE  UNCHANGED FifoView!vars
  <2>1. /\ accepted = delivered \o Buffer
        /\ accepted' = delivered' \o Buffer'
        /\ accepted' = accepted /\ delivered' = delivered
      BY <1>2 DEF RingInv, NothingLost, PushWrite, consumerVars
  <2>2. Buffer \in Seq(Contents) /\ Buffer' \in Seq(Contents) /\ delivered \in Seq(Contents)
    <3>1. /\ head' = head /\ tail' = tail /\ head \in Counter /\ tail \in Counter
          /\ cells' \in [0 .. Cap - 1 -> Contents]
        BY <1>2, Zenon DEF RingInv, TypeOK, Contents, PushWrite
    <3>2. Buffer' = BufferOf(head, tail, cells')
        BY <3>1, Zenon DEF Buffer, BufferOf
    <3>3. QED
        BY <3>1, <3>2, BufferFacts, BufferIsSeq
  <2>3. Buffer' = Buffer
      BY <2>1, <2>2, ConcatSimplifications
  <2>4. QED
      BY <2>1, <2>3 DEF FifoView!vars
<1>3. ASSUME NEW p \in Producers, PushPublish(p)
      PROVE  FifoView!Put
  <2>1. /\ head \in Counter /\ tail \in Counter
        /\ cells \in [0 .. Cap - 1 -> Contents]
        /\ Buffer = BufferOf(head, tail, cells) /\ Distance(head, tail) < Cap
        /\ Buffer' = Append(Buffer, Item(p)) /\ Item(p) \in Contents
        /\ delivered' = delivered
      BY <1>3, OrderFacts, PublishAppends
         DEF RingInv, TypeOK, Contents, PushPublish, consumerVars
  <2>2. Buffer \in Seq(Contents) /\ Len(Buffer) < Cap
    <3>1. /\ BufferOf(head, tail, cells) \in Seq(Contents)
          /\ Len(BufferOf(head, tail, cells)) = Distance(head, tail)
        BY <2>1, BufferIsSeq
    <3>2. QED
        BY <2>1, <3>1, Zenon
  <2>3. Len(Buffer') = Len(Buffer) + 1 /\ Buffer'[Len(Buffer) + 1] = Item(p)
    <3>1. /\ Len(Append(Buffer, Item(p))) = Len(Buffer) + 1
          /\ Append(Buffer, Item(p))[Len(Buffer) + 1] = Item(p)
        BY <2>1, <2>2, AppendProperties
    <3>2. QED
        BY <2>1, <3>1, Zenon
  <2>4. QED
      BY <2>1, <2>2, <2>3 DEF FifoView!Put
<1>4. ASSUME PopRelease
      PROVE  FifoView!Take
    BY <1>4, ReleaseTakes DEF FifoView!Take
<1>5. ASSUME NEW p \in Producers, Push(p) \/ PushCrash(p)
      PROVE  [FifoView!Next]_(FifoView!vars)
  <2>1. CASE \/ PushLoadTail(p) \/ PushCrash(p)
             \/ \E h \in Loadable(phead[p], head) : PushLoadHead(p, h)
    <3>1. UNCHANGED <<head, tail, cells, delivered>>
        BY <2>1 DEF PushLoadTail, PushLoadHead, PushCrash, consumerVars
    <3>2. QED
        BY <1>1, <3>1
  <2>2. QED
      BY <1>2, <1>3, <1>5, <2>1 DEF Push, FifoView!Next
<1>6. CASE Pop
  <2>1. CASE PopRead \/ \E t \in Loadable(ctail, tail) : PopLoad(t)
    <3>1. UNCHANGED <<head, tail, cells, delivered>>
        BY <2>1 DEF PopRead, PopLoad
    <3>2. QED
        BY <1>1, <3>1
  <2>2. QED
      BY <1>4, <1>6, <2>1 DEF Pop, FifoView!Next
<1>7. CASE UNCHANGED vars
    BY <1>1, <1>7 DEF vars
<1>8. QED
    BY <1>5, <1>6, <1>7 DEF Next

\* The ring is a bounded first-in first-out buffer: whatever order the two
\* threads' loads and stores take, a push takes effect at its store of tail
\* and a pop at its store of head.
THEOREM RingImplementsFifo ==
    ASSUME SingleProducer
    PROVE  Spec => ImplementsFifo
<1>1. Init => FifoView!Init
  <2> SUFFICES ASSUME Init PROVE FifoView!Init
      OBVIOUS
  <2>2. 0 \in Counter /\ Distance(0, 0) = 0
      BY WidthFacts, DistanceIsNat, SMT
  <2>3. Buffer = <<>>
      BY <2>2, SMT DEF Init, Buffer
  <2>4. QED
      BY <2>3 DEF Init, FifoView!Init
<1>2. RingInv /\ RingInv' /\ [Next]_vars => [FifoView!Next]_(FifoView!vars)
    BY StepImplementsFifo
<1>3. QED
    BY <1>1, <1>2, RingInvHolds, PTL DEF Spec, ImplementsFifo, FifoView!Spec

-----------------------------------------------------------------------------
(* jack_probe: the stream of samples through its ring *)

\* Sample k of the stream: one of channel ((k - 1) % Channels) + 1.
SampleAt(k) == <<whole[((k - 1) \div Channels) + 1], ((k - 1) % Channels) + 1>>

\* How many samples the callback has pushed: all of each frame, but of the
\* frame it is at only those of the channels before `channel'.
Pushed == IF channel = 0 THEN Channels * Len(whole)
                         ELSE Channels * (Len(whole) - 1) + (channel - 1)

\* Samples as the callback makes them.
ProbeSamples == Nat \X (1 .. Channels)

ProbeTypes ==
    /\ frame \in Nat /\ frame >= 1 /\ blockEnd \in Nat /\ channel \in 0 .. Channels
    /\ whole \in Seq(Nat)
    /\ ring \in Seq(ProbeSamples)
    /\ chunk \in Seq(ProbeSamples) /\ file \in Seq(ProbeSamples)
    /\ total \in Nat
    /\ counted \in [1 .. Channels -> SUBSET ProbeSamples]

\* What the callback knows: inside a frame, that the rest of it has room.  The
\* frames it has pushed come in the order of the clock.
CallbackPart ==
    /\ frame <= blockEnd
    /\ channel # 0 => /\ frame < blockEnd
                      /\ Len(whole) >= 1 /\ whole[Len(whole)] = frame
                      /\ Len(ring) + (Channels - channel) < RingCapacity
    /\ \A j \in 1 .. Len(whole) : 1 <= whole[j] /\ whole[j] <= frame
    /\ channel = 0 => \A j \in 1 .. Len(whole) : whole[j] < frame
    /\ \A j, k \in 1 .. Len(whole) : j < k => whole[j] < whole[k]

\* Samples popped and samples in the ring make up the stream.
StreamPart ==
    /\ Len(Recorded) = total
    /\ total + Len(ring) = Pushed
    /\ \A k \in 1 .. total : Recorded[k] = SampleAt(k)
    /\ \A k \in 1 .. Len(ring) : ring[k] = SampleAt(total + k)

\* Each sample popped is counted on its channel, and nothing else is.
CountedPart ==
    \A c \in 1 .. Channels : \A s \in ProbeSamples :
        s \in counted[c] <=>
            \E k \in 1 .. total : s = Recorded[k] /\ ((k - 1) % Channels) + 1 = c

ProbeInv == ProbeTypes /\ CallbackPart /\ StreamPart /\ CountedPart

\* How a recording is stopped: the callback has come to its end before the
\* main thread goes on, so a ring found empty then stays empty; and no frame
\* JACK delivered is forgotten.
StopPart ==
    /\ main # "recording" => frame = blockEnd
    /\ main = "ended" => wpc = "ended"
    /\ sawEnd => main # "recording" /\ ring = <<>>
    /\ Range(whole) \union dropped = 1 .. IF channel = 0 THEN frame - 1 ELSE frame

\* Sample k of n whole frames belongs to one of these frames and to a channel.
LEMMA PlaceOfSample ==
    ASSUME NEW n \in Nat, NEW k \in 1 .. Channels * n
    PROVE  /\ ((k - 1) \div Channels) + 1 \in 1 .. n
           /\ ((k - 1) % Channels) + 1 \in 1 .. Channels
<1> DEFINE q == (k - 1) \div Channels
           r == (k - 1) % Channels
<1>1. /\ Channels \in Nat \ {0} /\ k - 1 \in Nat /\ k - 1 < Channels * n
    BY ProbeAssumption, SMT
<1>2. /\ q \in Nat /\ q * Channels <= k - 1 /\ r \in 0 .. Channels - 1
    BY <1>1, DivBounds, ModDef
<1> HIDE DEF q, r
<1>3. q < n
  <2>1. SUFFICES ASSUME q >= n PROVE FALSE
      BY <1>2
  <2>2. q * Channels >= n * Channels
      BY <1>1, <1>2, <2>1, SMT
  <2>3. QED
      BY <1>1, <1>2, <2>2, SMT
<1>4. QED
    BY <1>1, <1>2, <1>3 DEF q, r

\* Where in the stream the sample of frame j and channel c is.
LEMMA SampleOfFrame ==
    ASSUME NEW j \in Nat, j >= 1, NEW c \in 1 .. Channels,
           NEW k, k = Channels * (j - 1) + c
    PROVE  /\ k \in Nat /\ k >= 1
           /\ ((k - 1) \div Channels) + 1 = j
           /\ ((k - 1) % Channels) + 1 = c
<1> DEFINE q == (k - 1) \div Channels
           r == (k - 1) % Channels
           m == j - 1
<1>1. /\ Channels \in Nat \ {0} /\ m \in Nat /\ c - 1 \in 0 .. Channels - 1
      /\ k - 1 = m * Channels + (c - 1) /\ k - 1 \in Nat
    BY ProbeAssumption, SMT
<1>2. r = c - 1
    BY <1>1, ModUnique, Zenon
<1>3. k - 1 = q * Channels + r /\ q \in Nat
    BY <1>1, ModDef, DivBounds
<1> HIDE DEF q, r, m
<1>4. q * Channels = m * Channels
    BY <1>1, <1>2, <1>3, SMT
<1>5. q = m
  <2>1. CASE q < m
    <3>1. (q + 1) * Channels <= m * Channels
        BY <1>1, <1>3, <2>1, SMT
    <3>2. QED
        BY <1>1, <1>3, <1>4, <3>1, SMT
  <2>2. CASE q > m
    <3>1. (m + 1) * Channels <= q * Channels
        BY <1>1, <1>3, <2>2, SMT
    <3>2. QED
        BY <1>1, <1>3, <1>4, <3>1, SMT
  <2>3. QED
      BY <1>1, <1>3, <2>1, <2>2
<1>6. k \in Nat /\ k >= 1
    BY ProbeAssumption, SMT
<1>7. QED
    BY <1>1, <1>2, <1>5, <1>6 DEF q, r, m

\* What has been pushed is part of the frames begun.
LEMMA PushedFacts ==
    ASSUME ProbeTypes, CallbackPart
    PROVE  /\ Pushed \in Nat /\ Len(whole) \in Nat
           /\ Pushed <= Channels * Len(whole)
           /\ \A k \in 1 .. Pushed :
                 /\ ((k - 1) \div Channels) + 1 \in 1 .. Len(whole)
                 /\ ((k - 1) % Channels) + 1 \in 1 .. Channels
                 /\ SampleAt(k) \in ProbeSamples
<1> DEFINE n == Len(whole)
<1>1. /\ Channels \in Nat \ {0} /\ n \in Nat /\ channel \in 0 .. Channels
      /\ channel # 0 => n >= 1
    BY ProbeAssumption DEF ProbeTypes, CallbackPart
<1>2. Pushed = IF channel = 0 THEN Channels * n
                              ELSE Channels * (n - 1) + (channel - 1)
    BY DEF Pushed
<1> HIDE DEF n
<1>3. Pushed \in Nat /\ Pushed <= Channels * n
  <2>1. CASE channel = 0
      BY <1>1, <1>2, <2>1, SMT
  <2>2. CASE channel # 0
    <3>1. /\ n - 1 \in Nat /\ Channels * (n - 1) \in Nat
          /\ Channels * n = Channels * (n - 1) + Channels
        BY <1>1, <2>2, SMT
    <3>2. QED
        BY <1>1, <1>2, <2>2, <3>1
  <2>3. QED
      BY <2>1, <2>2
<1>4. ASSUME NEW k \in 1 .. Pushed
      PROVE  /\ ((k - 1) \div Channels) + 1 \in 1 .. n
             /\ ((k - 1) % Channels) + 1 \in 1 .. Channels
  <2>1. k \in 1 .. Channels * n
    <3>1. Channels * n \in Nat
        BY <1>1, SMT
    <3>2. QED
        BY <1>3, <3>1
  <2>2. QED
      BY <1>1, <2>1, PlaceOfSample
<1>5. ASSUME NEW k \in 1 .. Pushed PROVE SampleAt(k) \in ProbeSamples
  <2>1. whole[((k - 1) \div Channels) + 1] \in Nat
      BY <1>4 DEF n, ProbeTypes
  <2>2. QED
      BY <1>4, <2>1, Zenon DEF SampleAt, ProbeSamples
<1>6. QED
    BY <1>1, <1>3, <1>4, <1>5 DEF n

\* What the writer has popped is a sequence of samples, and so is it with one
\* more.
LEMMA RecordedType ==
    ASSUME ProbeTypes
    PROVE  Recorded \in Seq(ProbeSamples) /\ Len(Recorded) \in Nat
<1>1. file \o chunk \in Seq(ProbeSamples)
    BY ConcatProperties DEF ProbeTypes
<1>2. QED
    BY <1>1 DEF Recorded, ProbeTypes

\* A step that moves no sample leaves the stream as it is.
LEMMA StreamStays ==
    ASSUME StreamPart, CountedPart,
           UNCHANGED <<whole, channel, ring, total, counted, Recorded>>
    PROVE  StreamPart' /\ CountedPart'
<1>1. /\ total' = total /\ ring' = ring /\ counted' = counted /\ Recorded' = Recorded
    OBVIOUS
<1>2. StreamPart'
    BY <1>1 DEF StreamPart, Pushed, SampleAt
<1>3. CountedPart'
    BY <1>1 DEF CountedPart
<1>4. QED
    BY <1>2, <1>3

\* A recording begins with nothing pushed.
LEMMA InitProbeInv == ProbeInit => ProbeInv /\ StopPart
<1>1. SUFFICES ASSUME ProbeInit PROVE ProbeInv /\ StopPart
    OBVIOUS
<1>2. /\ ring = <<>> /\ frame = 1 /\ blockEnd = 1 /\ channel = 0
      /\ wpc = "pop" /\ total = 0 /\ counted = [c \in 1 .. Channels |-> {}]
      /\ chunk = <<>> /\ file = <<>> /\ main = "recording" /\ whole = <<>>
      /\ dropped = {} /\ sawEnd = FALSE
    BY <1>1 DEF ProbeInit
<1>3. Channels \in Nat \ {0}
    BY ProbeAssumption
<1>4. ProbeTypes
    BY <1>2, <1>3, EmptySeq DEF ProbeTypes
<1>5. CallbackPart
    BY <1>2 DEF CallbackPart
<1>6. Recorded = <<>> /\ Len(Recorded) = 0
  <2>1. file \o chunk = <<>>
      BY <1>2, <1>4, ConcatEmptySeq DEF ProbeTypes
  <2>2. QED
      BY <1>2, <2>1 DEF Recorded
<1>7. Pushed = 0
  <2>1. Len(whole) = 0
      BY <1>2
  <2>2. QED
      BY <1>2, <1>3, <2>1, SMT DEF Pushed
<1>8. StreamPart
    BY <1>2, <1>6, <1>7 DEF StreamPart
<1>9. CountedPart
    BY <1>2 DEF CountedPart
<1>10. StopPart
  <2>1. Range(whole) = {}
      BY <1>2 DEF Range
  <2>2. QED
      BY <1>2, <2>1 DEF StopPart
<1>11. QED
    BY <1>4, <1>5, <1>8, <1>9, <1>10 DEF ProbeInv

\* The callback starts a frame only if the whole of it has room (or drops it).
LEMMA BeginFrameProbeInv ==
    ASSUME ProbeInv, BeginFrame
    PROVE  ProbeInv'
<1>1. /\ ProbeTypes /\ CallbackPart /\ StreamPart /\ CountedPart
      /\ Channels \in Nat \ {0} /\ RingCapacity \in Nat
    BY ProbeAssumption DEF ProbeInv
<1>2. /\ frame < blockEnd /\ channel = 0
      /\ ring' = ring /\ blockEnd' = blockEnd /\ total' = total
      /\ counted' = counted /\ chunk' = chunk /\ file' = file /\ wpc' = wpc
    BY DEF BeginFrame, recordVars
<1>3. /\ Recorded' = Recorded /\ frame \in Nat /\ frame >= 1 /\ blockEnd \in Nat
      /\ Len(ring) \in Nat /\ whole \in Seq(Nat) /\ Len(whole) \in Nat
    BY <1>1, <1>2 DEF Recorded, ProbeTypes
<1>4. CASE ~HasRoom
  <2>1. channel' = channel /\ whole' = whole /\ frame' = frame + 1
      BY <1>4 DEF BeginFrame
  <2>2. ProbeTypes'
      BY <1>1, <1>2, <1>3, <2>1 DEF ProbeTypes
  <2>3. CallbackPart'
    <3>1. /\ \A j \in 1 .. Len(whole) : whole[j] \in Nat /\ 1 <= whole[j] /\ whole[j] < frame
          /\ \A j, k \in 1 .. Len(whole) : j < k => whole[j] < whole[k]
        BY <1>1, <1>2, <1>3 DEF CallbackPart
    <3>2. \A j \in 1 .. Len(whole) : whole[j] <= frame + 1 /\ whole[j] < frame + 1
        BY <1>3, <3>1
    <3>3. frame + 1 <= blockEnd
        BY <1>2, <1>3
    <3>4. QED
        BY <1>2, <2>1, <3>1, <3>2, <3>3 DEF CallbackPart
  <2>4. QED
      BY <1>1, <1>2, <1>3, <2>1, <2>2, <2>3, StreamStays DEF ProbeInv
<1>5. CASE HasRoom
  <2>1. channel' = 1 /\ whole' = Append(whole, frame) /\ frame' = frame
      BY <1>5 DEF BeginFrame
  <2>2. /\ whole' \in Seq(Nat) /\ Len(whole') = Len(whole) + 1
        /\ \A j \in 1 .. Len(whole) : whole'[j] = whole[j]
        /\ whole'[Len(whole) + 1] = frame
      BY <1>3, <2>1
  <2>3. Len(ring) + Channels <= RingCapacity
      BY <1>1, <1>3, <1>5 DEF HasRoom, Slots
  <2>4. ProbeTypes'
      BY <1>1, <1>2, <1>3, <2>1, <2>2 DEF ProbeTypes
  <2>5. \A j \in 1 .. Len(whole) : 1 <= whole[j] /\ whole[j] < frame /\ whole[j] \in Nat
      BY <1>1, <1>2, <1>3 DEF CallbackPart
  <2>6. \A j \in 1 .. Len(whole) + 1 : j \in 1 .. Len(whole) \/ j = Len(whole) + 1
      BY <1>3
  <2>7. \A j, k \in 1 .. Len(whole) + 1 : j < k => whole'[j] < whole'[k]
    <3>1. SUFFICES ASSUME NEW j \in 1 .. Len(whole) + 1,
                          NEW k \in 1 .. Len(whole) + 1, j < k
                   PROVE  whole'[j] < whole'[k]
        OBVIOUS
    <3>2. j \in 1 .. Len(whole)
        BY <1>3, <3>1
    <3>3. CASE k \in 1 .. Len(whole)
        BY <1>1, <2>2, <3>1, <3>2, <3>3 DEF CallbackPart
    <3>4. CASE k = Len(whole) + 1
        BY <2>2, <2>5, <3>2, <3>4
    <3>5. QED
        BY <2>6, <3>3, <3>4
  <2>8. CallbackPart'
    <3>1. \A j \in 1 .. Len(whole') : 1 <= whole'[j] /\ whole'[j] <= frame'
        BY <1>3, <2>1, <2>2, <2>5, <2>6
    <3>2. /\ frame' <= blockEnd' /\ frame' < blockEnd'
          /\ Len(whole') >= 1 /\ whole'[Len(whole')] = frame'
          /\ Len(ring') + (Channels - channel') < RingCapacity
        BY <1>1, <1>2, <1>3, <2>1, <2>2, <2>3
    <3>3. QED
        BY <2>1, <2>2, <2>7, <3>1, <3>2 DEF CallbackPart
  <2>9. Pushed' = Pushed
    <3>1. Channels * ((Len(whole) + 1) - 1) + (1 - 1) = Channels * Len(whole)
        BY <1>1, <1>3, SMT
    <3>2. QED
        BY <1>2, <2>1, <2>2, <3>1 DEF Pushed
  <2>10. \A k \in 1 .. Pushed : SampleAt(k)' = SampleAt(k)
    <3>1. SUFFICES ASSUME NEW k \in 1 .. Pushed PROVE SampleAt(k)' = SampleAt(k)
        OBVIOUS
    <3>2. ((k - 1) \div Channels) + 1 \in 1 .. Len(whole)
        BY <1>1, PushedFacts
    <3>3. QED
        BY <2>2, <3>2, Zenon DEF SampleAt
  <2>11. total \in Nat /\ Pushed \in Nat /\ total + Len(ring) = Pushed
      BY <1>1, PushedFacts DEF ProbeTypes, StreamPart
  <2>12. StreamPart'
    <3>1. \A k \in 1 .. total : Recorded'[k] = SampleAt(k)'
      <4>1. \A k \in 1 .. total : k \in 1 .. Pushed
          BY <1>3, <2>11
      <4>2. QED
          BY <1>1, <1>3, <2>10, <4>1, Zenon DEF StreamPart
    <3>2. \A k \in 1 .. Len(ring) : ring[k] = SampleAt(total + k)'
      <4>1. \A k \in 1 .. Len(ring) : total + k \in 1 .. Pushed
          BY <1>3, <2>11
      <4>2. QED
          BY <1>1, <1>2, <2>10, <4>1, Zenon DEF StreamPart
    <3>3. QED
        BY <1>1, <1>2, <1>3, <2>9, <3>1, <3>2, Zenon DEF StreamPart
  <2>13. CountedPart'
      BY <1>1, <1>2, <1>3 DEF CountedPart
  <2>14. QED
      BY <2>4, <2>8, <2>12, <2>13 DEF ProbeInv
<1>6. QED
    BY <1>4, <1>5

\* A sample is pushed where the stream goes on: the ring is never found full in
\* the middle of a frame.
LEMMA PushSampleProbeInv ==
    ASSUME ProbeInv, PushSample
    PROVE  ProbeInv'
<1> DEFINE x == <<frame, channel>>
           n == Len(whole)
<1>1. /\ ProbeTypes /\ CallbackPart /\ StreamPart /\ CountedPart
      /\ Channels \in Nat \ {0} /\ RingCapacity \in Nat
    BY ProbeAssumption DEF ProbeInv
<1>2. /\ channel # 0 /\ blockEnd' = blockEnd /\ whole' = whole /\ total' = total
      /\ counted' = counted /\ chunk' = chunk /\ file' = file /\ wpc' = wpc
    BY DEF PushSample, recordVars
<1>3. /\ Recorded' = Recorded /\ frame \in Nat /\ frame >= 1 /\ blockEnd \in Nat
      /\ Len(ring) \in Nat /\ n \in Nat /\ total \in Nat
      /\ channel \in 1 .. Channels
    BY <1>1, <1>2 DEF Recorded, ProbeTypes
<1>4. /\ frame < blockEnd /\ n >= 1 /\ whole[n] = frame
      /\ Len(ring) + (Channels - channel) < RingCapacity
    BY <1>1, <1>2 DEF CallbackPart
<1>5. ring' = Append(ring, x)
  <2>1. Slots > 0
      BY <1>1, <1>3, <1>4 DEF Slots
  <2>2. QED
      BY <2>1 DEF PushSample
<1>6. x \in ProbeSamples /\ ring \in Seq(ProbeSamples)
    BY <1>1, <1>3 DEF ProbeSamples, ProbeTypes
<1>7. /\ ring' \in Seq(ProbeSamples) /\ Len(ring') = Len(ring) + 1
      /\ \A k \in 1 .. Len(ring) : ring'[k] = ring[k]
      /\ ring'[Len(ring) + 1] = x
  <2> HIDE DEF x
  <2>1. QED
      BY <1>3, <1>5, <1>6
<1>8. Pushed = Channels * (n - 1) + (channel - 1)
    BY <1>2 DEF Pushed
<1>9. Pushed \in Nat /\ total + Len(ring) = Pushed
    BY <1>1, PushedFacts DEF StreamPart
<1>10. SampleAt(Pushed + 1) = x
  <2>1. Pushed + 1 = Channels * (n - 1) + channel
    <3>1. Channels * (n - 1) \in Int
        BY <1>1, <1>3, SMT
    <3>2. QED
        BY <1>3, <1>8, <3>1
  <2> HIDE DEF n
  <2>2. /\ (((Pushed + 1) - 1) \div Channels) + 1 = n
        /\ (((Pushed + 1) - 1) % Channels) + 1 = channel
      BY <1>3, <1>4, <2>1, SampleOfFrame
  <2>3. QED
      BY <1>4, <2>2, Zenon DEF SampleAt
<1> HIDE DEF x
<1>11. ASSUME channel = Channels
       PROVE  ProbeTypes' /\ CallbackPart' /\ Pushed' = Pushed + 1
  <2>1. channel' = 0 /\ frame' = frame + 1
      BY <1>11 DEF PushSample
  <2>2. Pushed' = Pushed + 1
    <3>1. Channels * n = Channels * (n - 1) + Channels /\ Channels * (n - 1) \in Int
        BY <1>1, <1>3, SMT
    <3>2. Pushed' = Channels * n
        BY <1>2, <2>1 DEF Pushed
    <3>3. QED
        BY <1>1, <1>8, <1>11, <3>1, <3>2
  <2>3. CallbackPart'
    <3>1. \A j \in 1 .. n : whole[j] \in Nat /\ 1 <= whole[j] /\ whole[j] <= frame
        BY <1>1, <1>3 DEF CallbackPart, ProbeTypes
    <3>2. \A j \in 1 .. n : whole[j] <= frame + 1 /\ whole[j] < frame + 1
        BY <1>3, <3>1
    <3>3. frame + 1 <= blockEnd
        BY <1>3, <1>4
    <3>4. \A j, k \in 1 .. n : j < k => whole[j] < whole[k]
        BY <1>1 DEF CallbackPart
    <3>5. QED
        BY <1>2, <2>1, <3>1, <3>2, <3>3, <3>4 DEF CallbackPart
  <2>4. ProbeTypes'
      BY <1>1, <1>2, <1>3, <1>7, <2>1 DEF ProbeTypes
  <2>5. QED
      BY <2>2, <2>3, <2>4
<1>12. ASSUME channel # Channels
       PROVE  ProbeTypes' /\ CallbackPart' /\ Pushed' = Pushed + 1
  <2>1. channel' = channel + 1 /\ frame' = frame /\ channel + 1 \in 1 .. Channels
    <3>1. channel' = channel + 1 /\ frame' = frame
        BY <1>12 DEF PushSample
    <3>2. channel + 1 \in 1 .. Channels
        BY <1>1, <1>3, <1>12
    <3>3. QED
        BY <3>1, <3>2
  <2>2. Pushed' = Pushed + 1
    <3>1. Channels * (n - 1) \in Int
        BY <1>1, <1>3, SMT
    <3>2. Pushed' = Channels * (n - 1) + ((channel + 1) - 1)
        BY <1>2, <2>1 DEF Pushed
    <3>3. QED
        BY <1>3, <1>8, <3>1, <3>2
  <2>3. Len(ring') + (Channels - channel') < RingCapacity
      BY <1>1, <1>3, <1>4, <1>7, <2>1
  <2>4. CallbackPart'
      BY <1>1, <1>2, <1>4, <2>1, <2>3 DEF CallbackPart
  <2>5. ProbeTypes'
      BY <1>1, <1>2, <1>3, <1>7, <2>1 DEF ProbeTypes
  <2>6. QED
      BY <2>2, <2>4, <2>5
<1>13. ProbeTypes' /\ CallbackPart' /\ Pushed' = Pushed + 1
    BY <1>11, <1>12
<1>14. StreamPart'
  <2>1. \A k \in 1 .. Len(ring) + 1 : ring'[k] = SampleAt(total + k)
    <3>1. SUFFICES ASSUME NEW k \in 1 .. Len(ring) + 1 PROVE ring'[k] = SampleAt(total + k)
        OBVIOUS
    <3>2. CASE k \in 1 .. Len(ring)
        BY <1>1, <1>7, <3>2, Zenon DEF StreamPart
    <3>3. CASE k = Len(ring) + 1
      <4>1. total + k = Pushed + 1
          BY <1>3, <1>9, <3>3
      <4>2. QED
          BY <1>7, <1>10, <3>3, <4>1, Zenon
    <3>4. QED
        BY <1>3, <3>2, <3>3
  <2>2. \A k \in 1 .. total : Recorded[k] = SampleAt(k)
      BY <1>1 DEF StreamPart
  <2>3. total + Len(ring') = Pushed'
      BY <1>3, <1>7, <1>9, <1>13
  <2>4. Len(Recorded) = total
      BY <1>1 DEF StreamPart
  <2>5. QED
      BY <1>2, <1>3, <1>7, <2>1, <2>2, <2>3, <2>4 DEF StreamPart, SampleAt
<1>15. CountedPart'
    BY <1>1, <1>2, <1>3 DEF CountedPart
<1>16. QED
    BY <1>13, <1>14, <1>15 DEF ProbeInv

\* The writer pops the next sample of the stream and counts it on its channel.
LEMMA PopSampleProbeInv ==
    ASSUME ProbeInv, PopSample
    PROVE  ProbeInv'
<1> DEFINE x == Head(ring)
           filled == Append(chunk, x)
<1>1. /\ ProbeTypes /\ CallbackPart /\ StreamPart /\ CountedPart
      /\ Channels \in Nat \ {0} /\ RingCapacity \in Nat
    BY ProbeAssumption DEF ProbeInv
<1>2. /\ wpc = "pop" /\ wpc' = wpc /\ ring # <<>> /\ ring' = Tail(ring)
      /\ total' = total + 1 /\ whole' = whole /\ channel' = channel
      /\ frame' = frame /\ blockEnd' = blockEnd
      /\ counted' = [counted EXCEPT ![(total % Channels) + 1] = @ \union {x}]
    BY DEF PopSample, callbackVars
<1>3. \/ file' = file \o filled /\ chunk' = <<>>
      \/ chunk' = filled /\ file' = file
    BY DEF PopSample
<1>4. /\ ring \in Seq(ProbeSamples) /\ Len(ring) \in Nat /\ Len(ring) >= 1
      /\ x \in ProbeSamples /\ x = ring[1]
      /\ ring' \in Seq(ProbeSamples) /\ Len(ring') = Len(ring) - 1
      /\ \A k \in 1 .. Len(ring) - 1 : ring'[k] = ring[k + 1]
  <2>1. ring \in Seq(ProbeSamples)
      BY <1>1 DEF ProbeTypes
  <2>2. QED
      BY <1>2, <2>1, HeadTailProperties
<1>5. /\ file \in Seq(ProbeSamples) /\ chunk \in Seq(ProbeSamples) /\ total \in Nat
      /\ Recorded = file \o chunk /\ Recorded \in Seq(ProbeSamples)
      /\ Len(Recorded) = total
    BY <1>1, <1>2, RecordedType DEF ProbeTypes, Recorded, StreamPart
<1> HIDE DEF x
<1>6. filled \in Seq(ProbeSamples) /\ file \o filled = Append(Recorded, x)
  <2>1. file \o Append(chunk, x) = Append(file \o chunk, x)
      BY <1>4, <1>5, AcceptNewest
  <2>2. QED
      BY <1>4, <1>5, <2>1
<1> HIDE DEF filled
<1>7. /\ Recorded' = Append(Recorded, x)
      /\ file' \in Seq(ProbeSamples) /\ chunk' \in Seq(ProbeSamples)
  <2>1. file \o filled \in Seq(ProbeSamples) /\ (file \o filled) \o <<>> = file \o filled
      BY <1>5, <1>6, ConcatProperties, ConcatEmptySeq
  <2>2. Recorded' = file' \o chunk'
      BY <1>2 DEF Recorded
  <2>3. <<>> \in Seq(ProbeSamples)
      BY EmptySeq
  <2>4. QED
      BY <1>3, <1>5, <1>6, <2>1, <2>2, <2>3, Zenon
<1>8. /\ Len(Recorded') = total + 1 /\ Recorded'[total + 1] = x
      /\ \A k \in 1 .. total : Recorded'[k] = Recorded[k]
  <2> DEFINE r == Recorded
             rNext == Recorded'
  <2>1. r \in Seq(ProbeSamples) /\ Len(r) = total /\ rNext = Append(r, x)
      BY <1>5, <1>7
  <2>2. x \in ProbeSamples /\ total \in Nat
      BY <1>4, <1>5
  <2> HIDE DEF r, rNext
  <2>3. /\ Len(rNext) = total + 1 /\ rNext[total + 1] = x
        /\ \A k \in 1 .. total : rNext[k] = r[k]
      BY <2>1, <2>2
  <2>4. QED
      BY <2>3 DEF r, rNext
<1>9. x = SampleAt(total + 1)
  <2>1. 1 \in 1 .. Len(ring)
      BY <1>4
  <2>2. QED
      BY <1>1, <1>4, <2>1, Zenon DEF StreamPart
<1>10. Pushed' = Pushed /\ total + Len(ring) = Pushed
    BY <1>1, <1>2 DEF Pushed, StreamPart
<1>11. ProbeTypes'
  <2>1. counted' \in [1 .. Channels -> SUBSET ProbeSamples]
      BY <1>1, <1>2, <1>4 DEF ProbeTypes
  <2>2. total + 1 \in Nat
      BY <1>5
  <2>3. QED
      BY <1>1, <1>2, <1>4, <1>7, <2>1, <2>2 DEF ProbeTypes
<1>12. CallbackPart'
  <2>1. channel # 0 => Len(ring') + (Channels - channel) < RingCapacity
      BY <1>1, <1>4 DEF CallbackPart, ProbeTypes
  <2>2. QED
      BY <1>1, <1>2, <2>1 DEF CallbackPart
<1>13. StreamPart'
  <2>1. \A k \in 1 .. total + 1 : Recorded'[k] = SampleAt(k)
    <3>1. SUFFICES ASSUME NEW k \in 1 .. total + 1 PROVE Recorded'[k] = SampleAt(k)
        OBVIOUS
    <3>2. CASE k \in 1 .. total
        BY <1>1, <1>8, <3>2, Zenon DEF StreamPart
    <3>3. CASE k = total + 1
        BY <1>8, <1>9, <3>3
    <3>4. QED
        BY <1>5, <3>2, <3>3
  <2>2. \A k \in 1 .. Len(ring') : ring'[k] = SampleAt((total + 1) + k)
    <3>1. SUFFICES ASSUME NEW k \in 1 .. Len(ring') PROVE ring'[k] = SampleAt((total + 1) + k)
        OBVIOUS
    <3>2. k + 1 \in 1 .. Len(ring) /\ total + (k + 1) = (total + 1) + k
        BY <1>4, <1>5
    <3>3. ring[k + 1] = SampleAt(total + (k + 1))
        BY <1>1, <3>2, Zenon DEF StreamPart
    <3>4. QED
        BY <1>4, <3>2, <3>3
  <2>3. (total + 1) + Len(ring') = Pushed'
      BY <1>4, <1>5, <1>10
  <2>4. QED
      BY <1>2, <1>8, <2>1, <2>2, <2>3 DEF StreamPart, SampleAt
<1>14. CountedPart'
  <2>1. SUFFICES ASSUME NEW c \in 1 .. Channels, NEW s \in ProbeSamples
                 PROVE  s \in counted'[c] <=>
                           \E k \in 1 .. total + 1 :
                              s = Recorded'[k] /\ ((k - 1) % Channels) + 1 = c
      BY <1>2 DEF CountedPart
  <2>2. s \in counted[c] <=>
           \E k \in 1 .. total : s = Recorded[k] /\ ((k - 1) % Channels) + 1 = c
      BY <1>1 DEF CountedPart
  <2>3. s \in counted'[c] <=>
           s \in counted[c] \/ (s = x /\ (total % Channels) + 1 = c)
      BY <1>1, <1>2 DEF ProbeTypes
  <2>4. ((total + 1) - 1) % Channels = total % Channels
    <3>1. (total + 1) - 1 = total
        BY <1>5
    <3>2. QED
        BY <3>1
  <2>5. \A k : k \in 1 .. total + 1 <=> k \in 1 .. total \/ k = total + 1
      BY <1>5
  <2>6. (\E k \in 1 .. total + 1 : s = Recorded'[k] /\ ((k - 1) % Channels) + 1 = c)
          <=> \/ \E k \in 1 .. total : s = Recorded[k] /\ ((k - 1) % Channels) + 1 = c
              \/ s = x /\ (total % Channels) + 1 = c
      BY <1>8, <2>4, <2>5, ZenonT(40)
  <2>7. QED
      BY <2>2, <2>3, <2>6
<1>15. QED
    BY <1>11, <1>12, <1>13, <1>14 DEF ProbeInv

\* The steps that touch neither ring, frames nor what is recorded.
LEMMA QuietProbeInv ==
    ASSUME ProbeInv, UNCHANGED <<ring, callbackVars, recordVars>>, Recorded' = Recorded
    PROVE  ProbeInv'
<1>1. /\ ring' = ring /\ frame' = frame /\ blockEnd' = blockEnd
      /\ channel' = channel /\ whole' = whole
      /\ total' = total /\ counted' = counted /\ chunk' = chunk /\ file' = file
    BY DEF callbackVars, recordVars
<1>2. StreamPart' /\ CountedPart'
    BY <1>1, StreamStays, Zenon DEF ProbeInv
<1>3. ProbeTypes' /\ CallbackPart'
    BY <1>1 DEF ProbeInv, ProbeTypes, CallbackPart
<1>4. QED
    BY <1>2, <1>3 DEF ProbeInv

\* A block begins between two frames.
LEMMA BeginBlockProbeInv ==
    ASSUME ProbeInv, NEW n \in BlockSizes, BeginBlock(n)
    PROVE  ProbeInv'
<1>1. /\ ProbeTypes /\ CallbackPart /\ StreamPart /\ CountedPart
      /\ n \in Nat /\ n >= 1
    BY ProbeAssumption DEF ProbeInv
<1>2. /\ frame = blockEnd /\ blockEnd' = frame + n
      /\ ring' = ring /\ frame' = frame /\ channel' = channel /\ whole' = whole
      /\ total' = total /\ counted' = counted /\ chunk' = chunk /\ file' = file
      /\ wpc' = wpc
    BY DEF BeginBlock, recordVars
<1>3. frame \in Nat /\ frame <= frame + n /\ frame < frame + n /\ frame + n \in Nat
    BY <1>1 DEF ProbeTypes
<1>4. StreamPart' /\ CountedPart'
  <2>1. Recorded' = Recorded
      BY <1>2 DEF Recorded
  <2>2. QED
      BY <1>1, <1>2, <2>1, StreamStays, Zenon
<1>5. ProbeTypes'
    BY <1>1, <1>2, <1>3 DEF ProbeTypes
<1>6. CallbackPart'
    BY <1>1, <1>2, <1>3 DEF CallbackPart
<1>7. QED
    BY <1>4, <1>5, <1>6 DEF ProbeInv

\* The last chunk goes to the file.
LEMMA FlushProbeInv ==
    ASSUME ProbeInv, Flush
    PROVE  ProbeInv'
<1>1. /\ wpc = "flush" /\ wpc' = "ended" /\ file' = file \o chunk
      /\ ring' = ring /\ frame' = frame /\ blockEnd' = blockEnd
      /\ channel' = channel /\ whole' = whole
      /\ total' = total /\ counted' = counted /\ chunk' = chunk
    BY DEF Flush, callbackVars
<1>2. Recorded' = Recorded
    BY <1>1 DEF Recorded
<1>3. StreamPart' /\ CountedPart'
    BY <1>1, <1>2, StreamStays, Zenon DEF ProbeInv
<1>4. file' \in Seq(ProbeSamples)
    BY <1>1, ConcatProperties DEF ProbeInv, ProbeTypes
<1>5. ProbeTypes' /\ CallbackPart'
    BY <1>1, <1>4 DEF ProbeInv, ProbeTypes, CallbackPart
<1>6. QED
    BY <1>3, <1>5 DEF ProbeInv

\* Every step of a recording keeps the invariant.
LEMMA NextProbeInv == ProbeInv /\ [ProbeNext]_probeVars => ProbeInv'
<1>1. SUFFICES ASSUME ProbeInv, [ProbeNext]_probeVars PROVE ProbeInv'
    OBVIOUS
<1>2. CASE \E n \in BlockSizes : BeginBlock(n)
    BY <1>1, <1>2, BeginBlockProbeInv
<1>3. CASE BeginFrame
    BY <1>1, <1>3, BeginFrameProbeInv
<1>4. CASE PushSample
    BY <1>1, <1>4, PushSampleProbeInv
<1>5. CASE PopSample
    BY <1>1, <1>5, PopSampleProbeInv
<1>6. CASE Flush
    BY <1>1, <1>6, FlushProbeInv
<1>7. CASE PopEmpty \/ LookForShutdown
  <2>1. /\ UNCHANGED <<ring, callbackVars, recordVars>>
        /\ wpc # "ended" /\ wpc' # "ended"
      BY <1>7 DEF PopEmpty, LookForShutdown
  <2>2. Recorded' = Recorded
      BY <2>1 DEF Recorded, recordVars
  <2>3. QED
      BY <1>1, <2>1, <2>2, QuietProbeInv
<1>8. CASE Deactivate \/ StoreShutdown \/ Join \/ Ended \/ UNCHANGED probeVars
  <2>1. UNCHANGED <<ring, callbackVars, recordVars, wpc>>
      BY <1>8 DEF Deactivate, StoreShutdown, Join, Ended, probeVars
  <2>2. Recorded' = Recorded
      BY <2>1 DEF Recorded, recordVars
  <2>3. QED
      BY <1>1, <2>1, <2>2, QuietProbeInv
<1>9. QED
    BY <1>1, <1>2, <1>3, <1>4, <1>5, <1>6, <1>7, <1>8 DEF ProbeNext, Callback, Writer

\* The inductive invariant holds in every state of a recording.
THEOREM ProbeInvHolds == ProbeSpec => []ProbeInv
<1>1. ProbeInit => ProbeInv
    BY InitProbeInv
<1>2. QED
    BY <1>1, NextProbeInv, PTL DEF ProbeSpec

\* The stream is a sequence of samples, one for every channel of every frame.
LEMMA InterleavedType ==
    ASSUME ProbeTypes
    PROVE  /\ Channels * Len(whole) \in Nat
           /\ Interleaved(whole) \in Seq(ProbeSamples)
           /\ Len(Interleaved(whole)) = Channels * Len(whole)
           /\ \A k \in 1 .. Channels * Len(whole) : Interleaved(whole)[k] = SampleAt(k)
<1> DEFINE n == Len(whole)
           m == Channels * n
           s == Interleaved(whole)
<1>1. n \in Nat /\ Channels \in Nat \ {0} /\ \A j \in 1 .. n : whole[j] \in Nat
    BY ProbeAssumption DEF ProbeTypes
<1>2. m \in Nat
    BY <1>1, SMT
<1>3. s = [k \in 1 .. m |-> SampleAt(k)]
    BY DEF Interleaved, SampleAt
<1>4. \A k \in 1 .. m : SampleAt(k) \in ProbeSamples
    BY <1>1, PlaceOfSample DEF SampleAt, ProbeSamples
<1> HIDE DEF m, s
<1>5. s \in Seq(ProbeSamples) /\ Len(s) = m /\ \A k \in 1 .. m : s[k] = SampleAt(k)
    BY <1>2, <1>3, <1>4
<1>6. QED
    BY <1>2, <1>5 DEF m, s

\* What has been recorded and what waits in the ring are, one after the other,
\* the samples that were pushed.
LEMMA PushedStream ==
    ASSUME ProbeInv
    PROVE  /\ Pushed \in Nat /\ Pushed <= Channels * Len(whole)
           /\ Recorded \o ring \in Seq(ProbeSamples) /\ Len(Recorded \o ring) = Pushed
           /\ \A i \in 1 .. Pushed : (Recorded \o ring)[i] = SampleAt(i)
<1>1. ProbeTypes /\ CallbackPart /\ StreamPart /\ CountedPart
    BY DEF ProbeInv
<1> DEFINE r == Recorded \o ring
           m == Channels * Len(whole)
<1>2. /\ total \in Nat /\ Len(ring) \in Nat /\ ring \in Seq(ProbeSamples)
      /\ Recorded \in Seq(ProbeSamples) /\ Len(Recorded) = total
      /\ total + Len(ring) = Pushed /\ Pushed \in Nat /\ Pushed <= m
    BY <1>1, RecordedType, PushedFacts DEF ProbeTypes, StreamPart
<1>3. /\ r \in Seq(ProbeSamples) /\ Len(r) = Pushed
      /\ \A i \in 1 .. Pushed : r[i] = IF i <= total THEN Recorded[i] ELSE ring[i - total]
    BY <1>2, ConcatProperties
<1>4. \A i \in 1 .. Pushed : r[i] = SampleAt(i)
  <2>1. SUFFICES ASSUME NEW i \in 1 .. Pushed PROVE r[i] = SampleAt(i)
      OBVIOUS
  <2> HIDE DEF r
  <2>2. CASE i <= total
    <3>1. i \in 1 .. total
        BY <1>2, <2>2
    <3>2. QED
        BY <1>1, <1>3, <2>2, <3>1, Zenon DEF StreamPart
  <2>3. CASE ~(i <= total)
    <3>1. i - total \in 1 .. Len(ring) /\ total + (i - total) = i
        BY <1>2, <2>3
    <3>2. ring[i - total] = SampleAt(total + (i - total))
        BY <1>1, <3>1, Zenon DEF StreamPart
    <3>3. QED
        BY <1>3, <2>3, <3>1, <3>2
  <2>4. QED
      BY <2>2, <2>3
<1>5. QED
    BY <1>2, <1>3, <1>4

\* What has been recorded and what waits in the ring are the beginning of the
\* stream.
LEMMA InvChannelsInStep == ProbeInv => ChannelsInStep
<1>1. SUFFICES ASSUME ProbeInv PROVE ChannelsInStep
    OBVIOUS
<1>2. ProbeTypes /\ CallbackPart /\ StreamPart /\ CountedPart
    BY <1>1 DEF ProbeInv
<1>3. ASSUME NEW c \in 1 .. Channels, NEW s \in counted[c] PROVE s[2] = c
  <2>1. s \in ProbeSamples
      BY <1>2 DEF ProbeTypes
  <2>2. PICK k \in 1 .. total : s = Recorded[k] /\ ((k - 1) % Channels) + 1 = c
      BY <1>2, <2>1 DEF CountedPart
  <2>3. s = SampleAt(k)
      BY <1>2, <2>2 DEF StreamPart
  <2>4. QED
      BY <2>2, <2>3 DEF SampleAt
<1>4. \A j, k \in DOMAIN whole : j < k => whole[j] < whole[k]
  <2>1. DOMAIN whole = 1 .. Len(whole)
      BY <1>2 DEF ProbeTypes
  <2>2. QED
      BY <1>2, <2>1, Zenon DEF CallbackPart
<1> DEFINE r == Recorded \o ring
           s == Interleaved(whole)
           m == Channels * Len(whole)
<1>5. Pushed \in Nat /\ Pushed <= m
    BY <1>1, PushedStream
<1>6. r \in Seq(ProbeSamples) /\ Len(r) = Pushed
    BY <1>1, PushedStream
<1>7. \A i \in 1 .. Pushed : r[i] = SampleAt(i)
    BY <1>1, PushedStream
<1>8. /\ m \in Nat /\ s \in Seq(ProbeSamples) /\ Len(s) = m
      /\ \A k \in 1 .. m : s[k] = SampleAt(k)
    BY <1>2, InterleavedType, Zenon
<1> HIDE DEF r, s, m
<1>9. IsPrefix(r, s)
  <2>1. \A i \in 1 .. Pushed : s[i] = r[i] /\ s[i] \in ProbeSamples /\ r[i] \in ProbeSamples
      BY <1>5, <1>6, <1>7, <1>8
  <2>2. /\ SubSeq(r, 1, Pushed) \in Seq(ProbeSamples)
        /\ SubSeq(s, 1, Pushed) \in Seq(ProbeSamples)
        /\ Len(SubSeq(r, 1, Pushed)) = Pushed /\ Len(SubSeq(s, 1, Pushed)) = Pushed
        /\ \A i \in 1 .. Pushed : /\ SubSeq(r, 1, Pushed)[i] = r[i]
                                  /\ SubSeq(s, 1, Pushed)[i] = s[i]
      BY <1>5, <2>1, SMT
  <2>3. SubSeq(r, 1, Pushed) = SubSeq(s, 1, Pushed)
      BY <2>1, <2>2, SeqEqual
  <2>4. Len(r) <= Len(s)
      BY <1>5, <1>6, <1>8
  <2>5. QED
      BY <1>6, <2>3, <2>4 DEF IsPrefix
<1>10. QED
    BY <1>3, <1>4, <1>9 DEF ChannelsInStep, r, s

\* However full the ring gets and however the pops fall between the pushes,
\* samples stay on their channels and the recording is the stream of the frames
\* pushed, in order (the callback's check of `slots', the writer's `ch').
THEOREM ChannelsStayInStep == ProbeSpec => []ChannelsInStep
BY ProbeInvHolds, InvChannelsInStep, PTL

\* Appending an element adds it to the range.
LEMMA OneMoreInRange ==
    ASSUME NEW S, NEW s \in Seq(S), NEW x \in S
    PROVE  Range(Append(s, x)) = Range(s) \union {x}
<1> DEFINE t == Append(s, x)
           n == Len(s)
<1>1. /\ n \in Nat /\ DOMAIN s = 1 .. n /\ DOMAIN t = 1 .. n + 1
      /\ t[n + 1] = x /\ \A i \in 1 .. n : t[i] = s[i]
    OBVIOUS
<1> HIDE DEF t, n
<1>2. \A i : i \in 1 .. n + 1 <=> i \in 1 .. n \/ i = n + 1
    BY <1>1
<1>3. /\ Range(t) = {t[i] : i \in 1 .. n + 1}
      /\ Range(s) = {s[i] : i \in 1 .. n}
    BY <1>1 DEF Range
<1>4. Range(t) = Range(s) \union {x}
  <2>1. ASSUME NEW i \in 1 .. n + 1 PROVE t[i] \in Range(s) \union {x}
    <3>1. CASE i \in 1 .. n
        BY <1>1, <1>3, <3>1, Zenon
    <3>2. CASE i = n + 1
        BY <1>1, <3>2, Zenon
    <3>3. QED
        BY <1>2, <3>1, <3>2, Zenon
  <2>2. ASSUME NEW i \in 1 .. n PROVE s[i] \in Range(t)
      BY <1>1, <1>2, <1>3, Zenon
  <2>3. x \in Range(t)
    <3>1. n + 1 \in 1 .. n + 1
        BY <1>2
    <3>2. QED
        BY <1>1, <1>3, <3>1, Zenon
  <2>4. Range(t) \subseteq Range(s) \union {x}
      BY <1>3, <2>1, Zenon
  <2>5. Range(s) \union {x} \subseteq Range(t)
      BY <1>3, <2>2, <2>3, Zenon
  <2>6. QED
      BY <2>4, <2>5, Zenon
<1>5. QED
    BY <1>4 DEF t

\* Every step keeps StopPart: once the callback is at its end, nothing more is
\* pushed.
LEMMA NextStopPart ==
    ASSUME ProbeInv, StopPart, [ProbeNext]_probeVars
    PROVE  StopPart'
<1>1. /\ frame \in Nat /\ frame >= 1 /\ blockEnd \in Nat /\ whole \in Seq(Nat)
      /\ channel # 0 => frame < blockEnd
    BY DEF ProbeInv, ProbeTypes, CallbackPart
<1>2. /\ main # "recording" => frame = blockEnd
      /\ main = "ended" => wpc = "ended"
      /\ sawEnd => main # "recording" /\ ring = <<>>
      /\ Range(whole) \union dropped = 1 .. IF channel = 0 THEN frame - 1 ELSE frame
    BY DEF StopPart
<1>3. CASE \E n \in BlockSizes : BeginBlock(n)
  <2>1. /\ main = "recording" /\ main' = main /\ wpc' = wpc /\ sawEnd' = sawEnd
        /\ ring' = ring /\ whole' = whole /\ dropped' = dropped
        /\ channel' = channel /\ frame' = frame
      BY <1>3 DEF BeginBlock
  <2>2. QED
      BY <1>2, <2>1 DEF StopPart
<1>4. CASE BeginFrame
  <2>1. /\ frame < blockEnd /\ channel = 0 /\ main' = main /\ wpc' = wpc
        /\ sawEnd' = sawEnd
      BY <1>4 DEF BeginFrame
  <2>2. main = "recording" /\ ~sawEnd
      BY <1>1, <1>2, <2>1
  <2>3. Range(whole') \union dropped' = 1 .. IF channel' = 0 THEN frame' - 1 ELSE frame'
    <3>1. /\ Range(whole) \union dropped = 1 .. frame - 1
          /\ 1 .. frame = (1 .. frame - 1) \union {frame} /\ (frame + 1) - 1 = frame
        BY <1>1, <1>2, <2>1
    <3>2. CASE ~HasRoom
      <4>1. /\ channel' = 0 /\ whole' = whole /\ frame' = frame + 1
            /\ dropped' = dropped \union {frame}
          BY <1>4, <2>1, <3>2 DEF BeginFrame
      <4>2. QED
          BY <3>1, <4>1
    <3>3. CASE HasRoom
      <4>1. /\ channel' = 1 /\ whole' = Append(whole, frame) /\ frame' = frame
            /\ dropped' = dropped
          BY <1>4, <3>3 DEF BeginFrame
      <4>2. Range(whole') = Range(whole) \union {frame}
          BY <1>1, <4>1, OneMoreInRange
      <4>3. QED
          BY <3>1, <4>1, <4>2
    <3>4. QED
        BY <3>2, <3>3
  <2>4. QED
      BY <2>1, <2>2, <2>3 DEF StopPart
<1>5. CASE PushSample
  <2>1. /\ channel # 0 /\ main' = main /\ wpc' = wpc /\ sawEnd' = sawEnd
        /\ whole' = whole /\ dropped' = dropped
        /\ \/ channel' = 0 /\ frame' = frame + 1
           \/ channel' = channel + 1 /\ frame' = frame
      BY <1>5 DEF PushSample
  <2>2. main = "recording" /\ ~sawEnd
      BY <1>1, <1>2, <2>1
  <2>3. (frame + 1) - 1 = frame /\ channel + 1 # 0
      BY <1>1 DEF ProbeInv, ProbeTypes
  <2>4. Range(whole') \union dropped' = 1 .. IF channel' = 0 THEN frame' - 1 ELSE frame'
      BY <1>2, <2>1, <2>3
  <2>5. QED
      BY <2>1, <2>2, <2>4 DEF StopPart
<1>6. CASE PopSample
  <2>1. /\ ring # <<>> /\ UNCHANGED <<callbackVars, wpc, main, sawEnd>>
      BY <1>6 DEF PopSample
  <2>2. QED
      BY <1>2, <2>1 DEF StopPart, callbackVars
<1>7. CASE PopEmpty
  <2>1. /\ wpc = "pop" /\ ring = <<>> /\ sawEnd' = (main # "recording")
        /\ UNCHANGED <<ring, callbackVars, main>>
      BY <1>7 DEF PopEmpty
  <2>2. QED
      BY <1>2, <2>1 DEF StopPart, callbackVars
<1>8. CASE LookForShutdown \/ Flush
  <2>1. /\ wpc # "ended" /\ UNCHANGED <<ring, callbackVars, main, sawEnd>>
      BY <1>8 DEF LookForShutdown, Flush
  <2>2. QED
      BY <1>2, <2>1 DEF StopPart, callbackVars
<1>9. CASE Deactivate
  <2>1. /\ main = "recording" /\ frame = blockEnd /\ main' = "deactivated"
        /\ UNCHANGED <<ring, callbackVars, wpc, sawEnd>>
      BY <1>9 DEF Deactivate
  <2>2. QED
      BY <1>2, <2>1 DEF StopPart, callbackVars
<1>10. CASE StoreShutdown
  <2>1. /\ main = "deactivated" /\ main' = "stopping"
        /\ UNCHANGED <<ring, callbackVars, wpc, sawEnd>>
      BY <1>10 DEF StoreShutdown
  <2>2. QED
      BY <1>2, <2>1 DEF StopPart, callbackVars
<1>11. CASE Join
  <2>1. /\ main = "stopping" /\ wpc = "ended" /\ main' = "ended"
        /\ UNCHANGED <<ring, callbackVars, wpc, sawEnd>>
      BY <1>11 DEF Join
  <2>2. QED
      BY <1>2, <2>1 DEF StopPart, callbackVars
<1>12. CASE Ended \/ UNCHANGED probeVars
  <2>1. UNCHANGED <<ring, callbackVars, wpc, main, sawEnd>>
      BY <1>12 DEF Ended, probeVars
  <2>2. QED
      BY <1>2, <2>1 DEF StopPart, callbackVars
<1>13. QED
    BY <1>3, <1>4, <1>5, <1>6, <1>7, <1>8, <1>9, <1>10, <1>11, <1>12
       DEF ProbeNext, Callback, Writer

\* When a recording has ended, no sample of it is unaccounted for.
LEMMA StoppedIsAccounted ==
    ASSUME ProbeInv, StopPart, main = "ended"
    PROVE  Accounted
<1>1. ProbeTypes /\ CallbackPart /\ StreamPart /\ CountedPart
    BY DEF ProbeInv
<1>2. /\ wpc = "ended" /\ frame = blockEnd
      /\ Range(whole) \union dropped = 1 .. IF channel = 0 THEN frame - 1 ELSE frame
    BY DEF StopPart
<1>3. channel = 0
  <2>1. channel # 0 => frame < blockEnd
      BY <1>1 DEF CallbackPart
  <2>2. QED
      BY <1>1, <1>2, <2>1 DEF ProbeTypes
<1> DEFINE r == file \o ring
           s == Interleaved(whole)
           m == Channels * Len(whole)
<1>4. /\ Recorded = file /\ Pushed = m /\ Len(file) = total /\ total \in Nat
      /\ file \in Seq(ProbeSamples)
    BY <1>1, <1>2, <1>3 DEF Recorded, Pushed, StreamPart, ProbeTypes
<1>5. r = s
  <2>1. /\ r \in Seq(ProbeSamples) /\ Len(r) = m
        /\ \A k \in 1 .. m : r[k] = SampleAt(k)
      BY <1>4, PushedStream
  <2>2. /\ s \in Seq(ProbeSamples) /\ Len(s) = m /\ m \in Nat
        /\ \A k \in 1 .. m : s[k] = SampleAt(k)
      BY <1>1, InterleavedType, Zenon
  <2> HIDE DEF r, s, m
  <2>3. QED
      BY <2>1, <2>2, SeqEqual
<1>6. sawEnd => file = s
  <2>1. sawEnd => ring = <<>>
      BY DEF StopPart
  <2>2. file \o <<>> = file
      BY <1>4
  <2>3. QED
      BY <1>5, <2>1, <2>2
<1> HIDE DEF r, s, m
<1>7. ASSUME NEW c \in 1 .. Channels
      PROVE  counted[c] = {sample \in Range(file) : sample[2] = c}
  <2>1. counted[c] \subseteq ProbeSamples
      BY <1>1 DEF ProbeTypes
  <2>2. \A k \in 1 .. total : /\ file[k] \in ProbeSamples /\ file[k] \in Range(file)
                              /\ file[k][2] = ((k - 1) % Channels) + 1
    <3>1. SUFFICES ASSUME NEW k \in 1 .. total
                   PROVE  /\ file[k] \in ProbeSamples /\ file[k] \in Range(file)
                          /\ file[k][2] = ((k - 1) % Channels) + 1
        OBVIOUS
    <3>2. file[k] \in ProbeSamples /\ file[k] \in Range(file)
        BY <1>4 DEF Range
    <3>3. file[k] = SampleAt(k)
        BY <1>1, <1>4 DEF StreamPart
    <3>4. QED
        BY <3>2, <3>3 DEF SampleAt
  <2>3. ASSUME NEW x \in counted[c] PROVE x \in Range(file) /\ x[2] = c
    <3>1. PICK k \in 1 .. total : x = file[k] /\ ((k - 1) % Channels) + 1 = c
        BY <1>1, <1>4, <2>1 DEF CountedPart
    <3>2. QED
        BY <2>2, <3>1
  <2>4. ASSUME NEW x \in Range(file), x[2] = c PROVE x \in counted[c]
    <3>1. PICK k \in 1 .. total : x = file[k]
        BY <1>4 DEF Range
    <3>2. x \in ProbeSamples /\ ((k - 1) % Channels) + 1 = c
        BY <2>2, <2>4, <3>1
    <3>3. QED
        BY <1>1, <1>4, <3>1, <3>2 DEF CountedPart
  <2>5. QED
      BY <2>3, <2>4
<1>8. QED
    BY <1>2, <1>3, <1>5, <1>6, <1>7 DEF Accounted, r, s

\* When the recording has ended, every frame JACK delivered was pushed or dropped,
\* file and ring hold the stream of those pushed, counted is what the file holds,
\* and nothing is left in the ring if the writer found it empty after the callback
\* was stopped (jack_probe.rs: "Stop the process callback before draining, so the
\* writer sees a final, unmoving ring buffer").  StopYieldsRecording adds that
\* it does end.
THEOREM StoppedRecordingIsAccounted ==
    ProbeSpec => [](main = "ended" => Accounted)
<1>1. ProbeInv /\ StopPart /\ [ProbeNext]_probeVars => StopPart'
    BY NextStopPart
<1>2. ProbeInv /\ StopPart => (main = "ended" => Accounted)
    BY StoppedIsAccounted
<1>3. QED
    BY <1>1, <1>2, InitProbeInv, ProbeInvHolds, PTL DEF ProbeSpec

=============================================================================
