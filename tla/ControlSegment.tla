--------------------------- MODULE ControlSegment ---------------------------
(***************************************************************************)
(* How the shared-memory segment of src/src/shm.rs comes to be and is      *)
(* found, and who serves whom through it: ServerShm::create in any number  *)
(* of server processes, which creates or takes over the segment under one  *)
(* well-known name and then initialises it, ClientShm::attach in client    *)
(* processes, and the requests that go through the segment's rings         *)
(* afterwards (a count here; SpscRing has the rings' insides).  Each       *)
(* system call and each store another process can see is a step; any       *)
(* process may die between two of them, and a server that ends, in         *)
(* whatever way, never unlinks its segment.                                *)
(*                                                                         *)
(* The kernel is modelled as far as the code leans on it: a name leads to  *)
(* a segment or to nothing; unlinking the name leaves existing mappings    *)
(* alone; a new segment has no pages until ftruncate; touching a mapping   *)
(* of a segment without pages kills the process (SIGBUS).                  *)
(***************************************************************************)
EXTENDS Naturals, Sequences, FiniteSets, Functions

CONSTANTS
    Servers, Clients,
    RingCap,        \* requests a segment's rings hold
    MaxPolls,       \* how often attach looks at `ready' (100)
    MaxSegments     \* bound: segments ever created

ASSUME SegmentAssumption ==
    /\ RingCap \in Nat \ {0}
    /\ MaxPolls \in Nat \ {0}
    /\ MaxSegments \in Nat

NoSegment == 0

VARIABLES
    name,        \* the segment SHM_NAME leads to, or NoSegment
    segments,    \* every segment created: [sized, header, ready,
                 \* waiting: requests in its rings, creator]
    spc,         \* where each server is
    sseg,        \* the segment each server opened
    cpc,         \* where each client is, or how its last attach ended
    cseg,        \* the segment each client opened
    polls        \* how often each client has looked at `ready'

vars == <<name, segments, spc, sseg, cpc, cseg, polls>>

serverVars == <<spc, sseg>>
clientVars == <<cpc, cseg, polls>>

\* The kernel: shm_open with O_CREAT | O_EXCL of a name that leads nowhere.
NewSegment(s) ==
    [sized |-> FALSE, header |-> FALSE, ready |-> FALSE, waiting |-> 0, creator |-> s]

Init ==
    /\ name = NoSegment
    /\ segments = <<>>
    /\ spc = [s \in Servers |-> "off"]
    /\ sseg = [s \in Servers |-> NoSegment]
    /\ cpc = [c \in Clients |-> "off"]
    /\ cseg = [c \in Clients |-> NoSegment]
    /\ polls = [c \in Clients |-> 0]

-----------------------------------------------------------------------------
(* ServerShm::create *)

\* shm_open succeeds: nothing had the name.
Create(s, next) ==
    /\ name = NoSegment
    /\ Len(segments) < MaxSegments
    /\ segments' = Append(segments, NewSegment(s))
    /\ name' = Len(segments) + 1
    /\ sseg' = [sseg EXCEPT ![s] = Len(segments) + 1]
    /\ spc' = [spc EXCEPT ![s] = next]
    /\ UNCHANGED clientVars

\* The first attempt.  EEXIST is taken for a stale segment of a crashed run.
OpenOrCreate(s) ==                       \* faulty: O_EXCL forgotten
    /\ spc[s] = "off"
    /\ IF name = NoSegment THEN Create(s, "created")
       ELSE /\ sseg' = [sseg EXCEPT ![s] = name]
            /\ spc' = [spc EXCEPT ![s] = "created"]
            /\ UNCHANGED <<name, segments, clientVars>>
OpenExclusive(s) ==
    /\ spc[s] = "off"
    /\ \/ Create(s, "created")
       \/ /\ name # NoSegment
          /\ spc' = [spc EXCEPT ![s] = "exists"]
          /\ UNCHANGED <<name, segments, sseg, clientVars>>

\* shm_unlink of whatever has the name now.
Unlink(s) ==
    /\ spc[s] = "exists"
    /\ name' = NoSegment
    /\ spc' = [spc EXCEPT ![s] = "unlinked"]
    /\ UNCHANGED <<segments, sseg, clientVars>>

\* The only retry: another server that was quicker makes create fail, and
\* the process ends ("failed to create control-plane shm segment").
OpenAgain(s) ==
    /\ spc[s] = "unlinked"
    /\ \/ Create(s, "created")
       \/ /\ name # NoSegment
          /\ spc' = [spc EXCEPT ![s] = "off"]
          /\ UNCHANGED <<name, segments, sseg, clientVars>>

\* ftruncate gives the segment its zero-filled pages; mmap follows.
TruncateForgotten(s) ==                  \* faulty: mapped without pages
    /\ spc[s] = "created"
    /\ spc' = [spc EXCEPT ![s] = "mapped"]
    /\ UNCHANGED <<name, segments, sseg, clientVars>>
Truncate(s) ==
    /\ spc[s] = "created"
    /\ segments' = [segments EXCEPT ![sseg[s]].sized = TRUE]
    /\ spc' = [spc EXCEPT ![s] = "mapped"]
    /\ UNCHANGED <<name, sseg, clientVars>>

\* The Relaxed stores of magic, version, sample rate and the rest.
StoreReadyFirst(s) ==                    \* faulty: ready before the header
    /\ spc[s] = "mapped"
    /\ segments' = [segments EXCEPT ![sseg[s]].ready = TRUE]
    /\ spc' = [spc EXCEPT ![s] = "written"]
    /\ UNCHANGED <<name, sseg, clientVars>>
StoreHeader(s) ==
    /\ spc[s] = "mapped"
    /\ segments' = [segments EXCEPT ![sseg[s]].header = TRUE]
    /\ spc' = [spc EXCEPT ![s] = "written"]
    /\ UNCHANGED <<name, sseg, clientVars>>

\* ready.store(1, Release), last: whoever sees it sees the header too.
StoreReady(s) ==
    /\ spc[s] = "written"
    /\ segments' = [segments EXCEPT ![sseg[s]].ready = TRUE]
    /\ spc' = [spc EXCEPT ![s] = "running"]
    /\ UNCHANGED <<name, sseg, clientVars>>

\* A server ends: killed half-way, crashed, or quit by its user.
Exit(s) ==
    /\ spc[s] # "off"
    /\ spc' = [spc EXCEPT ![s] = "off"]
    /\ sseg' = [sseg EXCEPT ![s] = NoSegment]
    /\ UNCHANGED <<name, segments, clientVars>>

-----------------------------------------------------------------------------
(* ClientShm::attach *)

\* shm_open without O_CREAT.  ENOENT is reported as AttachError::NotRunning.
\* mmap succeeds also for a segment that has no pages yet.
Open(c) ==
    /\ cpc[c] \in {"off", "not_running", "not_ready", "mismatch"}
    /\ cpc' = [cpc EXCEPT ![c] = IF name = NoSegment THEN "not_running" ELSE "polling"]
    /\ cseg' = [cseg EXCEPT ![c] = name]
    /\ polls' = [polls EXCEPT ![c] = 0]
    /\ UNCHANGED <<name, segments, serverVars>>

\* One turn of the spin-wait: ready.load(Acquire).
PollForever(c) ==                        \* faulty: the bound is forgotten
    /\ cpc[c] = "polling"
    /\ cpc' = [cpc EXCEPT ![c] =
                  IF ~segments[cseg[c]].sized THEN "sigbus"
                  ELSE IF segments[cseg[c]].ready THEN "checking" ELSE "polling"]
    /\ UNCHANGED <<name, segments, serverVars, cseg, polls>>
Poll(c) ==
    /\ cpc[c] = "polling"
    /\ cpc' = [cpc EXCEPT ![c] =
                  IF ~segments[cseg[c]].sized THEN "sigbus"
                  ELSE IF segments[cseg[c]].ready THEN "checking"
                  ELSE IF polls[c] + 1 = MaxPolls THEN "not_ready" ELSE "polling"]
    /\ polls' = [polls EXCEPT ![c] = @ + 1]
    /\ UNCHANGED <<name, segments, serverVars, cseg>>

\* The comparison of magic and version.
CheckHeader(c) ==
    /\ cpc[c] = "checking"
    /\ cpc' = [cpc EXCEPT ![c] =
                  IF segments[cseg[c]].header THEN "attached" ELSE "mismatch"]
    /\ UNCHANGED <<name, segments, serverVars, cseg, polls>>

\* rfofs_disconnect, or the death of the client.
Detach(c) ==
    /\ cpc[c] # "off"
    /\ cpc' = [cpc EXCEPT ![c] = "off"]
    /\ cseg' = [cseg EXCEPT ![c] = NoSegment]
    /\ polls' = [polls EXCEPT ![c] = 0]
    /\ UNCHANGED <<name, segments, serverVars>>

-----------------------------------------------------------------------------
(* The rings *)

\* rfofs_add_fof or rfofs_kill answers 0.  The client cannot tell whether the
\* server of its segment still lives.
Submit(c) ==
    /\ cpc[c] = "attached"
    /\ segments[cseg[c]].waiting < RingCap
    /\ segments' = [segments EXCEPT ![cseg[c]].waiting = @ + 1]
    /\ UNCHANGED <<name, serverVars, clientVars>>

\* The bridging thread takes a request out of the segment its server has mapped,
\* whatever the name leads to by now.
ServeByName(s) ==                        \* faulty: the name is looked up anew
    /\ spc[s] = "running" /\ name # NoSegment
    /\ segments[name].waiting > 0
    /\ segments' = [segments EXCEPT ![name].waiting = @ - 1]
    /\ UNCHANGED <<name, serverVars, clientVars>>
Serve(s) ==
    /\ spc[s] = "running"
    /\ segments[sseg[s]].waiting > 0
    /\ segments' = [segments EXCEPT ![sseg[s]].waiting = @ - 1]
    /\ UNCHANGED <<name, serverVars, clientVars>>

-----------------------------------------------------------------------------

ServerStep(s) ==
    \/ OpenExclusive(s) \/ Unlink(s) \/ OpenAgain(s)
    \/ Truncate(s) \/ StoreHeader(s) \/ StoreReady(s)

Attach(c) == Poll(c) \/ CheckHeader(c)

Next ==
    \/ \E s \in Servers : ServerStep(s) \/ Serve(s) \/ Exit(s)
    \/ \E c \in Clients : Open(c) \/ Attach(c) \/ Submit(c) \/ Detach(c)

Spec == Init /\ [][Next]_vars

\* A call of attach that has begun keeps running, and so does the bridging thread
\* of a server that has started; nothing is assumed of a server that is starting.
FairSpec ==
    /\ Spec
    /\ \A c \in Clients : WF_vars(Attach(c))
    /\ \A s \in Servers : WF_vars(Serve(s))

-----------------------------------------------------------------------------
(* What the handshake promises. *)

\* Every variable has its type, and a server stores only into a segment that
\* has its pages.
TypeOK ==
    /\ segments \in Seq([sized : BOOLEAN, header : BOOLEAN, ready : BOOLEAN,
                         waiting : 0 .. RingCap, creator : Servers])
    /\ name \in 0 .. Len(segments)
    /\ spc \in [Servers -> {"off", "exists", "unlinked", "created", "mapped",
                            "written", "running"}]
    /\ sseg \in [Servers -> 0 .. Len(segments)]
    /\ \A s \in Servers :
          spc[s] \in {"mapped", "written", "running"} =>
              sseg[s] # NoSegment /\ segments[sseg[s]].sized
    /\ cpc \in [Clients -> {"off", "polling", "checking", "attached",
                            "not_running", "not_ready", "mismatch", "sigbus"}]
    /\ cseg \in [Clients -> 0 .. Len(segments)]
    /\ polls \in [Clients -> 0 .. MaxPolls]

\* A client that has attached is never looking at a half-initialised segment,
\* and attach never takes the header of a segment under construction for that
\* of another version (shm.rs: "never observes `ready == 1` before
\* magic/version are visible").
AttachedIsInitialised ==
    \A c \in Clients :
        /\ cpc[c] = "attached" => segments[cseg[c]].header
        /\ cpc[c] # "mismatch"

\* Two servers never own one segment, however their creates interleave: the
\* rings keep a single consumer, and a restarted server starts from empty
\* rings.
OneServerPerSegment ==
    /\ \A s, t \in Servers :
          s # t /\ sseg[s] # NoSegment => sseg[s] # sseg[t]
    /\ \A s \in Servers :
          sseg[s] # NoSegment => segments[sseg[s]].creator = s

Polls(c, what) == cpc[c] = "polling" /\ segments[cseg[c]][what]

\* A client that calls attach gets an answer, whatever the server does meanwhile:
\* attached, or VersionMismatch or NotReady (NotRunning is Open's own), unless the
\* client ends first; and if the server gets as far as storing `ready' while the
\* client polls, the answer is attached.  A segment that has no pages is excepted:
\* there the client may be killed instead of answered, which is what
\* RaceWithCreateIsHarmless is about, and ~> says nothing of it until ftruncate.
AttachReturns ==
    \A c \in Clients :
        /\ Polls(c, "sized") ~> cpc[c] \in {"attached", "mismatch", "not_ready", "off"}
        /\ Polls(c, "ready") ~> cpc[c] \in {"attached", "off"}

WaitingIn(n) == IF n \in DOMAIN segments THEN segments[n].waiting ELSE 0

\* A request that was answered Ok is taken in the end unless the server it was
\* meant for has ended: what a client attaches to is the segment of a server
\* that serves it, through takeovers of the name by others and creates that are
\* under way (or stop half-way).  A client of a server that has ended fills a
\* ring nobody empties.
RequestsAreTaken ==
    \A n \in 1 .. MaxSegments :
        WaitingIn(n) > 0 ~> (WaitingIn(n) = 0 \/ n \notin Range(sseg))

\* A client that attaches while create is under way, or has stopped half-way, waits
\* for it and gets its answer (shm.rs: "Bounded spin-wait in case we raced a
\* not-yet-finished create()").
RaceWithCreateIsHarmless == \A c \in Clients : cpc[c] # "sigbus"

=============================================================================
