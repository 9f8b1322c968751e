------------------------ MODULE ControlSegmentProofs ------------------------
(***************************************************************************)
(* Proofs about ControlSegment: any number of servers and clients, started *)
(* and killed in any order, never share a segment between two servers and  *)
(* never let a client work on a half-initialised one.                      *)
(***************************************************************************)
EXTENDS ControlSegment, SequenceTheorems, TLAPS

SegmentType == [sized : BOOLEAN, header : BOOLEAN, ready : BOOLEAN,
                waiting : 0 .. RingCap, creator : Servers]

\* Who has a segment open: a server from a successful create on, a client
\* from a successful open on, which has looked less often than it may.
OpenHaveSegments ==
    /\ \A s \in Servers :
          spc[s] \in {"created", "mapped", "written", "running"} <=> sseg[s] # NoSegment
    /\ \A c \in Clients :
          /\ cpc[c] \in {"polling", "checking", "attached"} => cseg[c] # NoSegment
          /\ cpc[c] = "polling" => polls[c] < MaxPolls

\* `ready' is stored last, and only by the server whose header is complete.
ReadyIsLast ==
    /\ \A n \in 1 .. Len(segments) : segments[n].ready => segments[n].header
    /\ \A s \in Servers :
          spc[s] \in {"written", "running"} => segments[sseg[s]].header
    /\ \A c \in Clients :
          cpc[c] \in {"checking", "attached"} => segments[cseg[c]].header
    /\ \A c \in Clients : cpc[c] # "mismatch"

\* The inductive invariant.
SegmentInv == TypeOK /\ OneServerPerSegment /\ OpenHaveSegments /\ ReadyIsLast

-----------------------------------------------------------------------------

\* One segment changes, to another of its kind, and the others stay.
LEMMA StoreInSegment ==
    ASSUME segments \in Seq(SegmentType), NEW n \in 1 .. Len(segments),
           NEW r \in SegmentType, segments' = [segments EXCEPT ![n] = r]
    PROVE  /\ segments' \in Seq(SegmentType)
           /\ Len(segments') = Len(segments)
           /\ \A m \in 1 .. Len(segments) :
                 segments'[m] = IF m = n THEN r ELSE segments[m]
    BY ExceptSeq

\* The invariant holds before the first server starts.
LEMMA SegmentInvInit ==
    ASSUME Init
    PROVE  SegmentInv
<1>1. /\ segments \in Seq(SegmentType) /\ Len(segments) = 0
    BY EmptySeq DEF Init
<1>2. TypeOK
    BY <1>1, SegmentAssumption, SMT DEF Init, TypeOK, SegmentType, NoSegment
<1>3. OneServerPerSegment /\ OpenHaveSegments
    BY DEF Init, OneServerPerSegment, OpenHaveSegments
<1>4. ReadyIsLast
    BY <1>1, SMT DEF Init, ReadyIsLast
<1>5. QED
    BY <1>2, <1>3, <1>4 DEF SegmentInv

\* create makes a segment no one else has.
LEMMA CreateKeepsSegmentInv ==
    ASSUME SegmentInv, NEW s \in Servers, sseg[s] = NoSegment, Create(s, "created")
    PROVE  SegmentInv'
<1> USE DEF SegmentInv, NoSegment
<1> DEFINE n == Len(segments) + 1
<1>1. /\ segments \in Seq(SegmentType) /\ Len(segments) \in Nat
      /\ NewSegment(s) \in SegmentType
    BY SegmentAssumption, LenProperties, SMT DEF TypeOK, SegmentType, NewSegment
<1>2. /\ segments' = Append(segments, NewSegment(s)) /\ name' = n
      /\ sseg' = [sseg EXCEPT ![s] = n] /\ spc' = [spc EXCEPT ![s] = "created"]
      /\ UNCHANGED clientVars
    BY DEF Create
<1>3. /\ segments' \in Seq(SegmentType) /\ Len(segments') = n
      /\ \A m \in 1 .. Len(segments) : segments'[m] = segments[m]
      /\ segments'[n] = NewSegment(s)
    BY <1>1, <1>2, AppendProperties
<1>4. TypeOK'
  <2>1. \A t \in Servers : sseg'[t] \in 0 .. n
      BY <1>1, <1>2, SMT DEF TypeOK
  <2>2. ASSUME NEW t \in Servers, spc'[t] \in {"mapped", "written", "running"}
        PROVE  sseg'[t] # 0 /\ segments'[sseg'[t]].sized
      BY <1>1, <1>2, <1>3, <2>2 DEF TypeOK
  <2>3. cseg' \in [Clients -> 0 .. n]
      BY <1>1, <1>2, SMT DEF TypeOK, clientVars
  <2>4. QED
      BY <1>1, <1>2, <1>3, <2>1, <2>2, <2>3 DEF TypeOK, SegmentType, clientVars
<1>5. OneServerPerSegment'
    BY <1>1, <1>2, <1>3 DEF OneServerPerSegment, TypeOK, NewSegment
<1>6. OpenHaveSegments'
    BY <1>1, <1>2 DEF OpenHaveSegments, TypeOK, clientVars
<1>7. ReadyIsLast'
  <2>1. \A m \in 1 .. n : segments'[m].ready => segments'[m].header
      BY <1>1, <1>3 DEF ReadyIsLast, NewSegment
  <2>2. QED
      BY <1>1, <1>2, <1>3, <2>1 DEF ReadyIsLast, OpenHaveSegments, TypeOK, clientVars
<1>8. QED
    BY <1>4, <1>5, <1>6, <1>7

\* The first attempt and the retry of create.
LEMMA OpensKeepSegmentInv ==
    ASSUME SegmentInv, NEW s \in Servers, OpenExclusive(s) \/ OpenAgain(s)
    PROVE  SegmentInv'
<1>1. CASE Create(s, "created")
  <2>1. sseg[s] = NoSegment
      BY DEF SegmentInv, OpenHaveSegments, OpenExclusive, OpenAgain
  <2>2. QED
      BY <1>1, <2>1, CreateKeepsSegmentInv
<1>2. ASSUME NEW l \in {"exists", "off"}, spc' = [spc EXCEPT ![s] = l],
             spc[s] \in {"off", "unlinked"}, UNCHANGED <<name, segments, sseg, clientVars>>
      PROVE  SegmentInv'
  <2>1. TypeOK'
      BY <1>2 DEF SegmentInv, TypeOK, clientVars
  <2>2. OneServerPerSegment' /\ OpenHaveSegments'
      BY <1>2 DEF SegmentInv, TypeOK, OneServerPerSegment, OpenHaveSegments, clientVars
  <2>3. ReadyIsLast'
      BY <1>2 DEF SegmentInv, TypeOK, ReadyIsLast, clientVars
  <2>4. QED
      BY <2>1, <2>2, <2>3 DEF SegmentInv
<1>3. QED
    BY <1>1, <1>2 DEF OpenExclusive, OpenAgain

\* A server that takes the name away or ends touches no segment.
LEMMA UnlinkAndExitKeepSegmentInv ==
    ASSUME SegmentInv, NEW s \in Servers, Unlink(s) \/ Exit(s)
    PROVE  SegmentInv'
<1> USE DEF SegmentInv, NoSegment
<1>1. Len(segments) \in Nat
    BY LenProperties DEF TypeOK
<1>2. CASE Unlink(s)
  <2>1. TypeOK'
      BY <1>1, <1>2 DEF TypeOK, Unlink, clientVars
  <2>2. OneServerPerSegment' /\ OpenHaveSegments' /\ ReadyIsLast'
      BY <1>2 DEF TypeOK, OneServerPerSegment, OpenHaveSegments, ReadyIsLast, Unlink, clientVars
  <2>3. QED
      BY <2>1, <2>2
<1>3. CASE Exit(s)
  <2>1. TypeOK'
      BY <1>1, <1>3 DEF TypeOK, Exit, clientVars
  <2>2. OneServerPerSegment' /\ OpenHaveSegments' /\ ReadyIsLast'
      BY <1>3 DEF TypeOK, OneServerPerSegment, OpenHaveSegments, ReadyIsLast, Exit, clientVars
  <2>3. QED
      BY <2>1, <2>2
<1>4. QED
    BY <1>2, <1>3

\* A server's stores go into its own segment: its pages, its header, `ready'.
LEMMA ServerStoresKeepSegmentInv ==
    ASSUME SegmentInv, NEW s \in Servers, Truncate(s) \/ StoreHeader(s) \/ StoreReady(s)
    PROVE  SegmentInv'
<1> USE DEF SegmentInv, NoSegment
<1> DEFINE n == sseg[s]
<1>1. /\ segments \in Seq(SegmentType) /\ Len(segments) \in Nat
      /\ n \in 1 .. Len(segments) /\ segments[n] \in SegmentType
  <2>1. segments \in Seq(SegmentType) /\ Len(segments) \in Nat
      BY LenProperties DEF TypeOK, SegmentType
  <2>2. n \in 1 .. Len(segments)
      BY <2>1 DEF TypeOK, OpenHaveSegments, Truncate, StoreHeader, StoreReady
  <2>3. QED
      BY <2>1, <2>2, ElementOfSeq
<1>2. PICK r \in SegmentType, l \in {"mapped", "written", "running"} :
         /\ segments' = [segments EXCEPT ![n] = r]
         /\ spc' = [spc EXCEPT ![s] = l]
         /\ UNCHANGED <<name, sseg, clientVars>>
         /\ r.creator = segments[n].creator
         /\ r.sized
         /\ segments[n].header => r.header
         /\ r.ready => r.header
         /\ l \in {"written", "running"} => r.header
  <2>1. CASE Truncate(s)
    <3> DEFINE r == [segments[n] EXCEPT !.sized = TRUE]
    <3>1. r \in SegmentType /\ segments' = [segments EXCEPT ![n] = r]
        BY <1>1, <2>1 DEF Truncate, SegmentType
    <3>2. r.ready => r.header
        BY <1>1 DEF SegmentType, ReadyIsLast
    <3>3. QED
        BY <1>1, <2>1, <3>1, <3>2 DEF Truncate, SegmentType
  <2>2. CASE StoreHeader(s)
    <3> DEFINE r == [segments[n] EXCEPT !.header = TRUE]
    <3>1. r \in SegmentType /\ segments' = [segments EXCEPT ![n] = r]
        BY <1>1, <2>2 DEF StoreHeader, SegmentType
    <3>2. segments[n].sized
        BY <2>2 DEF TypeOK, StoreHeader
    <3>3. QED
        BY <1>1, <2>2, <3>1, <3>2 DEF StoreHeader, SegmentType
  <2>3. CASE StoreReady(s)
    <3> DEFINE r == [segments[n] EXCEPT !.ready = TRUE]
    <3>1. r \in SegmentType /\ segments' = [segments EXCEPT ![n] = r]
        BY <1>1, <2>3 DEF StoreReady, SegmentType
    <3>2. segments[n].sized /\ segments[n].header
        BY <2>3 DEF TypeOK, ReadyIsLast, StoreReady
    <3>3. QED
        BY <1>1, <2>3, <3>1, <3>2 DEF StoreReady, SegmentType
  <2>4. QED
      BY <2>1, <2>2, <2>3
<1>3. /\ segments' \in Seq(SegmentType) /\ Len(segments') = Len(segments)
      /\ \A m \in 1 .. Len(segments) : segments'[m] = IF m = n THEN r ELSE segments[m]
    BY <1>1, <1>2, StoreInSegment
<1>4. TypeOK'
    BY <1>1, <1>2, <1>3 DEF TypeOK, SegmentType, clientVars
<1>5. OneServerPerSegment'
    BY <1>1, <1>2, <1>3 DEF OneServerPerSegment, TypeOK
<1>6. OpenHaveSegments'
    BY <1>2 DEF OpenHaveSegments, TypeOK, clientVars, Truncate, StoreHeader, StoreReady
<1>7. ReadyIsLast'
  <2>1. \A m \in 1 .. Len(segments) : segments[m].header => segments'[m].header
      BY <1>2, <1>3
  <2>2. \A m \in 1 .. Len(segments) : segments'[m].ready => segments'[m].header
      BY <1>2, <1>3 DEF ReadyIsLast
  <2>3. \A t \in Servers :
           spc'[t] \in {"written", "running"} => segments'[sseg'[t]].header
    <3>1. ASSUME NEW t \in Servers, t # s, spc[t] \in {"written", "running"}
          PROVE  sseg[t] \in 1 .. Len(segments) /\ segments[sseg[t]].header
        BY <1>1, <3>1 DEF TypeOK, ReadyIsLast
    <3>2. QED
        BY <1>1, <1>2, <1>3, <2>1, <3>1 DEF TypeOK
  <2>4. \A c \in Clients :
           /\ cpc[c] \in {"checking", "attached"} => segments'[cseg[c]].header
           /\ cpc[c] # "mismatch"
    <3>1. ASSUME NEW c \in Clients, cpc[c] \in {"checking", "attached"}
          PROVE  cseg[c] \in 1 .. Len(segments) /\ segments[cseg[c]].header
        BY <1>1, <3>1 DEF TypeOK, ReadyIsLast, OpenHaveSegments
    <3>2. QED
        BY <2>1, <3>1 DEF ReadyIsLast
  <2>5. QED
      BY <1>2, <1>3, <2>2, <2>3, <2>4 DEF ReadyIsLast, clientVars
<1>8. QED
    BY <1>4, <1>5, <1>6, <1>7

\* A request that enters or leaves a segment's rings changes its count alone.
LEMMA RequestsKeepSegmentInv ==
    ASSUME SegmentInv,
           \/ \E c \in Clients : Submit(c)
           \/ \E s \in Servers : Serve(s)
    PROVE  SegmentInv'
<1> USE DEF SegmentInv, NoSegment
<1>1. segments \in Seq(SegmentType) /\ Len(segments) \in Nat
    BY LenProperties DEF TypeOK, SegmentType
<1>2. PICK n \in 1 .. Len(segments), r \in SegmentType :
         /\ segments' = [segments EXCEPT ![n] = r]
         /\ UNCHANGED <<name, serverVars, clientVars>>
         /\ r.creator = segments[n].creator /\ r.sized = segments[n].sized
         /\ r.header = segments[n].header /\ r.ready = segments[n].ready
  <2>1. ASSUME NEW c \in Clients, Submit(c)
        PROVE  \E n \in 1 .. Len(segments), r \in SegmentType :
                  /\ segments' = [segments EXCEPT ![n] = r]
                  /\ UNCHANGED <<name, serverVars, clientVars>>
                  /\ r.creator = segments[n].creator /\ r.sized = segments[n].sized
                  /\ r.header = segments[n].header /\ r.ready = segments[n].ready
    <3> DEFINE n == cseg[c]
               r == [segments[n] EXCEPT !.waiting = @ + 1]
    <3>1. n \in 1 .. Len(segments)
        BY <1>1, <2>1 DEF TypeOK, OpenHaveSegments, Submit
    <3>2. segments[n] \in SegmentType
        BY <1>1, <3>1, ElementOfSeq
    <3>3. r \in SegmentType
        BY <2>1, <3>2, SegmentAssumption DEF Submit, SegmentType
    <3>4. /\ segments' = [segments EXCEPT ![n] = r]
          /\ UNCHANGED <<name, serverVars, clientVars>>
        BY <2>1 DEF Submit
    <3>5. /\ r.creator = segments[n].creator /\ r.sized = segments[n].sized
          /\ r.header = segments[n].header /\ r.ready = segments[n].ready
        BY <3>2 DEF SegmentType
    <3>6. QED
        BY <3>1, <3>3, <3>4, <3>5
  <2>2. ASSUME NEW s \in Servers, Serve(s)
        PROVE  \E n \in 1 .. Len(segments), r \in SegmentType :
                  /\ segments' = [segments EXCEPT ![n] = r]
                  /\ UNCHANGED <<name, serverVars, clientVars>>
                  /\ r.creator = segments[n].creator /\ r.sized = segments[n].sized
                  /\ r.header = segments[n].header /\ r.ready = segments[n].ready
    <3> DEFINE n == sseg[s]
               r == [segments[n] EXCEPT !.waiting = @ - 1]
    <3>1. n \in 1 .. Len(segments)
        BY <1>1, <2>2 DEF TypeOK, Serve
    <3>2. segments[n] \in SegmentType
        BY <1>1, <3>1, ElementOfSeq
    <3>3. r \in SegmentType
        BY <2>2, <3>2, SegmentAssumption DEF Serve, SegmentType
    <3>4. /\ segments' = [segments EXCEPT ![n] = r]
          /\ UNCHANGED <<name, serverVars, clientVars>>
        BY <2>2 DEF Serve
    <3>5. /\ r.creator = segments[n].creator /\ r.sized = segments[n].sized
          /\ r.header = segments[n].header /\ r.ready = segments[n].ready
        BY <3>2 DEF SegmentType
    <3>6. QED
        BY <3>1, <3>3, <3>4, <3>5
  <2>3. QED
      BY <2>1, <2>2
<1>3. /\ segments' \in Seq(SegmentType) /\ Len(segments') = Len(segments)
      /\ \A m \in 1 .. Len(segments) : segments'[m] = IF m = n THEN r ELSE segments[m]
    BY <1>1, <1>2, StoreInSegment
<1>4. \A m \in 1 .. Len(segments) :
         /\ segments'[m].creator = segments[m].creator
         /\ segments'[m].sized = segments[m].sized
         /\ segments'[m].header = segments[m].header
         /\ segments'[m].ready = segments[m].ready
    BY <1>2, <1>3
<1>5. /\ name' = name /\ spc' = spc /\ sseg' = sseg
      /\ cpc' = cpc /\ cseg' = cseg /\ polls' = polls
    BY <1>2 DEF serverVars, clientVars
<1>6. TypeOK'
  <2>1. ASSUME NEW s \in Servers, spc[s] \in {"mapped", "written", "running"}
        PROVE  sseg[s] # 0 /\ segments'[sseg[s]].sized
    <3>1. /\ spc[s] \in {"mapped", "written", "running"} =>
                sseg[s] # 0 /\ segments[sseg[s]].sized
          /\ sseg[s] \in 0 .. Len(segments)
        BY Zenon DEF TypeOK
    <3>2. sseg[s] # 0 /\ segments[sseg[s]].sized /\ sseg[s] \in 1 .. Len(segments)
        BY <1>1, <2>1, <3>1
    <3>3. QED
        BY <1>4, <3>2
  <2>2. QED
      BY <1>3, <1>5, <2>1 DEF TypeOK, SegmentType
<1>7. OneServerPerSegment' /\ OpenHaveSegments'
    BY <1>1, <1>4, <1>5, SMTT(30) DEF OneServerPerSegment, OpenHaveSegments, TypeOK
<1>8. ReadyIsLast'
  <2>1. ASSUME NEW t \in Servers, spc[t] \in {"written", "running"}
        PROVE  sseg[t] \in 1 .. Len(segments) /\ segments[sseg[t]].header
      BY <1>1, <2>1 DEF TypeOK, ReadyIsLast
  <2>2. ASSUME NEW c \in Clients, cpc[c] \in {"checking", "attached"}
        PROVE  cseg[c] \in 1 .. Len(segments) /\ segments[cseg[c]].header
      BY <1>1, <2>2 DEF TypeOK, ReadyIsLast, OpenHaveSegments
  <2>3. QED
      BY <1>3, <1>4, <1>5, <2>1, <2>2 DEF ReadyIsLast
<1>9. QED
    BY <1>6, <1>7, <1>8

\* The steps of attach, and leaving, change only the client's own view.
LEMMA ClientsKeepSegmentInv ==
    ASSUME SegmentInv, NEW c \in Clients, Open(c) \/ Attach(c) \/ Detach(c)
    PROVE  SegmentInv'
<1> USE DEF SegmentInv, NoSegment
<1>0. Len(segments) \in Nat
    BY LenProperties DEF TypeOK
<1>1. UNCHANGED <<name, segments, spc, sseg>>
    BY DEF Open, Attach, Poll, CheckHeader, Detach, serverVars
<1>2. TypeOK'
  <2>1. CASE Open(c)
      BY <1>0, <2>1, SegmentAssumption DEF TypeOK, Open, serverVars
  <2>2. CASE Poll(c)
    <3>1. polls[c] \in 0 .. MaxPolls /\ polls[c] < MaxPolls
        BY <2>2 DEF TypeOK, OpenHaveSegments, Poll
    <3>2. polls[c] + 1 \in 0 .. MaxPolls
        BY <3>1, SegmentAssumption, SMT
    <3>3. QED
        BY <2>2, <3>2 DEF TypeOK, Poll, serverVars
  <2>3. CASE CheckHeader(c)
      BY <2>3 DEF TypeOK, CheckHeader, serverVars
  <2>4. CASE Detach(c)
      BY <1>0, <2>4, SegmentAssumption DEF TypeOK, Detach, serverVars
  <2>5. QED
      BY <2>1, <2>2, <2>3, <2>4 DEF Attach
<1>3. OneServerPerSegment'
    BY <1>1 DEF OneServerPerSegment
<1>4. OpenHaveSegments'
  <2>1. CASE Open(c) \/ Detach(c) \/ CheckHeader(c)
      BY <1>1, <2>1, SegmentAssumption
         DEF OpenHaveSegments, TypeOK, Open, CheckHeader, Detach
  <2>2. CASE Poll(c)
    <3>1. polls[c] \in 0 .. MaxPolls /\ polls[c] < MaxPolls
        BY <2>2 DEF TypeOK, OpenHaveSegments, Poll
    <3>2. cpc'[c] = "polling" => polls[c] + 1 < MaxPolls
        BY <2>2, <3>1, SegmentAssumption DEF Poll, TypeOK
    <3>3. QED
        BY <1>1, <2>2, <3>2 DEF OpenHaveSegments, TypeOK, Poll
  <2>3. QED
      BY <2>1, <2>2 DEF Attach
<1>5. ReadyIsLast'
  <2>1. CASE Open(c) \/ Detach(c)
      BY <1>1, <2>1, ZenonT(40) DEF ReadyIsLast, TypeOK, Open, Detach
  <2>2. CASE Poll(c)
    <3>1. cseg[c] \in 1 .. Len(segments)
        BY <1>0, <2>2 DEF TypeOK, OpenHaveSegments, Poll
    <3>2. cpc'[c] = "checking" => segments[cseg[c]].header
        BY <2>2, <3>1 DEF TypeOK, ReadyIsLast, Poll
    <3>3. QED
        BY <1>1, <2>2, <3>2 DEF ReadyIsLast, TypeOK, Poll
  <2>3. CASE CheckHeader(c)
      BY <1>1, <2>3 DEF ReadyIsLast, TypeOK, CheckHeader
  <2>4. QED
      BY <2>1, <2>2, <2>3 DEF Attach
<1>6. QED
    BY <1>2, <1>3, <1>4, <1>5

-----------------------------------------------------------------------------
(* What is proved of the control segment *)

\* The inductive invariant holds throughout.
THEOREM SegmentInvHolds == Spec => []SegmentInv
<1>1. Init => SegmentInv
    BY SegmentInvInit
<1>2. SegmentInv /\ [Next]_vars => SegmentInv'
  <2> SUFFICES ASSUME SegmentInv, [Next]_vars PROVE SegmentInv'
      OBVIOUS
  <2>1. ASSUME NEW s \in Servers, ServerStep(s) \/ Serve(s) \/ Exit(s)
        PROVE  SegmentInv'
      BY <2>1, OpensKeepSegmentInv, UnlinkAndExitKeepSegmentInv,
         ServerStoresKeepSegmentInv, RequestsKeepSegmentInv DEF ServerStep
  <2>2. ASSUME NEW c \in Clients, Open(c) \/ Attach(c) \/ Submit(c) \/ Detach(c)
        PROVE  SegmentInv'
      BY <2>2, ClientsKeepSegmentInv, RequestsKeepSegmentInv
  <2>3. CASE UNCHANGED vars
    <3>1. TypeOK'
        BY <2>3 DEF SegmentInv, TypeOK, vars
    <3>2. OneServerPerSegment' /\ OpenHaveSegments' /\ ReadyIsLast'
        BY <2>3 DEF SegmentInv, OneServerPerSegment, OpenHaveSegments, ReadyIsLast, vars
    <3>3. QED
        BY <3>1, <3>2 DEF SegmentInv
  <2>4. QED
      BY <2>1, <2>2, <2>3 DEF Next
<1>3. QED
    BY <1>1, <1>2, PTL DEF Spec

\* Types, and that a server stores only into a segment that has its pages (a
\* store before ftruncate would be its death).
THEOREM SegmentTypes == Spec => []TypeOK
<1>1. SegmentInv => TypeOK
    BY DEF SegmentInv
<1>2. QED
    BY <1>1, SegmentInvHolds, PTL

\* Whatever servers start, take the name over and die: no segment has two.
THEOREM SegmentOneServer == Spec => []OneServerPerSegment
<1>1. SegmentInv => OneServerPerSegment
    BY DEF SegmentInv
<1>2. QED
    BY <1>1, SegmentInvHolds, PTL

\* attach never returns, and never gives up on, a half-written header.
THEOREM SegmentAttachedIsInitialised == Spec => []AttachedIsInitialised
<1>1. SegmentInv => AttachedIsInitialised
    BY DEF SegmentInv, ReadyIsLast, AttachedIsInitialised
<1>2. QED
    BY <1>1, SegmentInvHolds, PTL

=============================================================================
