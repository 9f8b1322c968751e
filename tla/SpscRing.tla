------------------------------ MODULE SpscRing ------------------------------
(***************************************************************************)
(* The lock-free ring of src/src/shm.rs (Ring<T, CAP>), one instance of    *)
(* which carries FOF requests and another kill requests from a client      *)
(* process to the server's bridging thread.                                *)
(*                                                                         *)
(* Every access to memory that the other side shares is a step of its own. *)
(* head and tail are 64-bit counters that wrap; Wrap stands for 2^64.  An  *)
(* Acquire load of the other side's counter may return any value that     *)
(* counter had since this side last looked, not only the newest: that is   *)
(* all the memory model promises.  The cell a push writes is plain memory, *)
(* ordered before the Release store of tail that publishes it.             *)
(*                                                                         *)
(* A client process may die anywhere in a push; the next one to attach     *)
(* finds the ring as it was left.  A producer numbers its items; one that   *)
(* is refused is tried again, one that a crash interrupts is abandoned.    *)
(***************************************************************************)
EXTENDS Integers, Sequences, FiniteSets

CONSTANTS
    Producers,  \* the threads that call try_push (the code wants just one)
    Cap,        \* FOF_CAP or KILL_CAP
    Wrap,       \* the counters are modulo this (2^64)
    MaxItems    \* bound: items each producer offers

ASSUME RingAssumption ==
    /\ Cap \in Nat \ {0}
    /\ Wrap \in Nat /\ Wrap > Cap /\ Wrap % Cap = 0
    /\ MaxItems \in Nat

VARIABLES
    head,       \* Ring::head
    tail,       \* Ring::tail
    cells,      \* Ring::slots: cell index -> item
    ppc,        \* where each producer is in try_push
    next,       \* number of the item each producer offers next
    ptail,      \* each producer's local `tail'
    phead,      \* each producer's local `head': the last value it saw
    cpc,        \* where the consumer is in try_pop
    ctail,      \* the consumer's local `tail': the last value it saw
    citem,      \* the consumer's local `item'
    accepted,   \* history: items whose push returned Ok, in that order
    delivered   \* history: items returned by try_pop, in order

vars == <<head, tail, cells, ppc, next, ptail, phead, cpc, ctail, citem,
          accepted, delivered>>

producerVars == <<ppc, next, ptail, phead, accepted>>
consumerVars == <<cpc, ctail, citem, delivered>>

-----------------------------------------------------------------------------

Counter == 0 .. Wrap - 1
CellOf(c) == c % Cap
After(c) == (c + 1) % Wrap

\* wrapping_sub
Distance(from, to) == (to - from) % Wrap

\* The test of try_push that the ring is full.
FullOffByOne(t, h) == Distance(h, t) > Cap     \* faulty: one item too many
Full(t, h) == Distance(h, t) >= Cap

\* What a load may return of a counter that was `seen' before and is `current'
\* now: never an older value than the last one, never a future one.
Loadable(seen, current) ==
    {(seen + k) % Wrap : k \in 0 .. Distance(seen, current)}

\* What a producer's current call of try_push carries.
Item(p) == <<p, next[p]>>
NoItem  == <<>>

-----------------------------------------------------------------------------

Init ==
    /\ head = 0 /\ tail = 0
    /\ cells = [c \in 0 .. Cap - 1 |-> NoItem]
    /\ ppc = [p \in Producers |-> "idle"]
    /\ next = [p \in Producers |-> 1]
    /\ ptail = [p \in Producers |-> 0]
    /\ phead = [p \in Producers |-> 0]
    /\ cpc = "idle"
    /\ ctail = 0
    /\ citem = NoItem
    /\ accepted = <<>>
    /\ delivered = <<>>

\* try_push begins: tail.load(Relaxed).  The single producer is the only one
\* to store tail, so it reads its own last value.
PushLoadTail(p) ==
    /\ ppc[p] = "idle"
    /\ next[p] <= MaxItems
    /\ ptail' = [ptail EXCEPT ![p] = tail]
    /\ ppc' = [ppc EXCEPT ![p] = "loaded_tail"]
    /\ UNCHANGED <<head, tail, cells, next, phead, accepted, consumerVars>>

\* head.load(Acquire) answers h; the call returns Err if the ring looks full.
PushLoadHead(p, h) ==
    /\ ppc[p] = "loaded_tail"
    /\ phead' = [phead EXCEPT ![p] = h]
    /\ ppc' = [ppc EXCEPT ![p] = IF Full(ptail[p], h) THEN "idle" ELSE "granted"]
    /\ UNCHANGED <<head, tail, cells, next, ptail, accepted, consumerVars>>

\* The plain store of the item into its cell.
PushWriteForgotten(p) ==                 \* faulty: publishes without storing
    /\ ppc[p] = "granted"
    /\ ppc' = [ppc EXCEPT ![p] = "written"]
    /\ UNCHANGED <<head, tail, cells, next, ptail, phead, accepted, consumerVars>>
PushWrite(p) ==
    /\ ppc[p] = "granted"
    /\ cells' = [cells EXCEPT ![CellOf(ptail[p])] = Item(p)]
    /\ ppc' = [ppc EXCEPT ![p] = "written"]
    /\ UNCHANGED <<head, tail, next, ptail, phead, accepted, consumerVars>>

\* tail.store(Release): the item is published and the call returns Ok.
PushPublish(p) ==
    /\ ppc[p] = "written"
    /\ tail' = After(ptail[p])
    /\ accepted' = Append(accepted, Item(p))
    /\ next' = [next EXCEPT ![p] = @ + 1]
    /\ ppc' = [ppc EXCEPT ![p] = "idle"]
    /\ UNCHANGED <<head, cells, ptail, phead, consumerVars>>

\* The client dies in the middle of try_push.  Only its locals are lost.
PushCrash(p) ==
    /\ ppc[p] # "idle"
    /\ next' = [next EXCEPT ![p] = @ + 1]
    /\ ppc' = [ppc EXCEPT ![p] = "idle"]
    /\ UNCHANGED <<head, tail, cells, ptail, phead, accepted, consumerVars>>

\* try_pop: head.load(Relaxed) of its own counter, tail.load(Acquire) answers
\* t, and the early return when nothing is visible.
PopLoadUnwrapped(t) ==                   \* faulty: ordered comparison
    /\ cpc = "idle"
    /\ ctail' = t
    /\ cpc' = IF head >= t THEN "idle" ELSE "found"
    /\ UNCHANGED <<head, tail, cells, producerVars, citem, delivered>>
PopLoad(t) ==
    /\ cpc = "idle"
    /\ ctail' = t
    /\ cpc' = IF head = t THEN "idle" ELSE "found"
    /\ UNCHANGED <<head, tail, cells, producerVars, citem, delivered>>

\* The plain load of the oldest item.
PopRead ==
    /\ cpc = "found"
    /\ citem' = cells[CellOf(head)]
    /\ cpc' = "read"
    /\ UNCHANGED <<head, tail, cells, producerVars, ctail, delivered>>

\* head.store(Release): the cell is given back and the item returned.
PopReleaseAll ==                         \* faulty: head jumps to tail
    /\ cpc = "read"
    /\ head' = ctail
    /\ delivered' = Append(delivered, citem)
    /\ cpc' = "idle"
    /\ UNCHANGED <<tail, cells, producerVars, ctail, citem>>
PopRelease ==
    /\ cpc = "read"
    /\ head' = After(head)
    /\ delivered' = Append(delivered, citem)
    /\ cpc' = "idle"
    /\ UNCHANGED <<tail, cells, producerVars, ctail, citem>>

Push(p) ==
    \/ PushLoadTail(p)
    \/ \E h \in Loadable(phead[p], head) : PushLoadHead(p, h)
    \/ PushWrite(p)
    \/ PushPublish(p)

Pop ==
    \/ \E t \in Loadable(ctail, tail) : PopLoad(t)
    \/ PopRead
    \/ PopRelease

Next ==
    \/ \E p \in Producers : Push(p) \/ PushCrash(p)
    \/ Pop

Spec == Init /\ [][Next]_vars

\* The bridging thread polls for ever; a client that is refused tries again
\* ("retry later", rfofs-client).  A store becomes visible in finite time: a
\* thread that keeps loading a counter sees its newest value in the end.
FairSpec ==
    /\ Spec
    /\ WF_vars(Pop) /\ SF_vars(PopLoad(tail))
    /\ \A p \in Producers :
          WF_vars(Push(p)) /\ SF_vars(PushLoadHead(p, head))

-----------------------------------------------------------------------------
(* What the ring promises. *)

\* The items between head and tail, oldest first.
Buffer == [k \in 1 .. Distance(head, tail) |-> cells[(head + k - 1) % Cap]]

Items == Producers \X (1 .. MaxItems)

\* Every variable has its type.
TypeOK ==
    /\ head \in Counter /\ tail \in Counter
    /\ cells \in [0 .. Cap - 1 -> Items \union {NoItem}]
    /\ ppc \in [Producers -> {"idle", "loaded_tail", "granted", "written"}]
    /\ next \in [Producers -> 1 .. MaxItems + 1]
    /\ ptail \in [Producers -> Counter] /\ phead \in [Producers -> Counter]
    /\ cpc \in {"idle", "found", "read"}
    /\ ctail \in Counter
    /\ citem \in Items \union {NoItem}
    /\ accepted \in Seq(Items)
    /\ delivered \in Seq(Items)

\* The plain accesses never meet: no cell is written while it is being read
\* or while another thread writes it (the SAFETY comments of try_push and
\* try_pop).
NoSlotRace ==
    /\ \A p \in Producers :
          ppc[p] = "granted" /\ cpc = "found" => CellOf(ptail[p]) # CellOf(head)
    /\ \A p, q \in Producers :
          p # q /\ ppc[p] = "granted" /\ ppc[q] = "granted"
             => CellOf(ptail[p]) # CellOf(ptail[q])

\* The items whose push was answered Ok are exactly those delivered followed
\* by those still between head and tail, in that order: stale loads, crashed
\* clients and wrapping counters lose, repeat or reorder nothing.
NothingLost == accepted = delivered \o Buffer

\* The ring is a bounded first-in first-out buffer.
FifoView == INSTANCE BoundedFifo WITH buffer <- Buffer
ImplementsFifo == FifoView!Spec

\* A client that retries is not refused for ever.
RetrySucceeds ==
    \A p \in Producers : \A k \in 1 .. MaxItems : next[p] = k ~> next[p] > k

=============================================================================
