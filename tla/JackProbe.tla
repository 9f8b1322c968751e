------------------------------ MODULE JackProbe ------------------------------
(***************************************************************************)
(* How jack_probe (src/src/bin/jack_probe.rs) records: JACK's callback     *)
(* pushes interleaved samples into a ring, one by one; the writer thread   *)
(* pops them one by one, counts each on the channel its position stands    *)
(* for and writes them to the file in chunks; and the main thread stops    *)
(* both.  The ring is the external crate rtrb.                             *)
(*                                                                         *)
(* A sample is the frame it belongs to and its channel; its level is left  *)
(* out, as are the choice of ports and the printing of the result.         *)
(***************************************************************************)
EXTENDS Integers, Sequences, SequencesExt

CONSTANTS
    Channels,      \* n_channels
    RingCapacity,  \* ring_capacity (two seconds of frames)
    ChunkFrames,   \* frames in a full chunk (4096)
    BlockSizes,    \* values of n_frames
    MaxFrames      \* bound: frames JACK delivers

ASSUME ProbeAssumption ==
    /\ Channels \in Nat \ {0}
    /\ RingCapacity \in Nat /\ RingCapacity >= Channels
    /\ ChunkFrames \in Nat \ {0}
    /\ BlockSizes \subseteq Nat \ {0}
    /\ MaxFrames \in Nat

VARIABLES
    ring,      \* the SPSC ring of samples
    frame,     \* the frame the callback is at, or will begin with
    blockEnd,  \* the frame after the last of the block under way
    channel,   \* the channel it pushes next; 0 between two frames
    wpc,       \* the writer: "pop", "look" (ring found empty), "flush", "ended"
    total,     \* total_samples
    counted,   \* channel -> the samples sum_sq has of it
    chunk,     \* the samples of chunk[..chunk_len]
    file,      \* the samples written to the WAV file
    main,      \* "recording", "deactivated", "stopping" (shutdown is set), "ended"
    whole,     \* history: the frames pushed, one after the other
    dropped,   \* history: frames counted in dropped_frames
    sawEnd     \* history: has the writer found the ring empty since deactivation?

callbackVars == <<frame, blockEnd, channel, whole, dropped>>
recordVars   == <<total, counted, chunk, file>>
probeVars == <<ring, callbackVars, wpc, recordVars, main, sawEnd>>

ProbeInit ==
    /\ ring = <<>>
    /\ frame = 1 /\ blockEnd = 1 /\ channel = 0
    /\ wpc = "pop"
    /\ total = 0
    /\ counted = [c \in 1 .. Channels |-> {}]
    /\ chunk = <<>> /\ file = <<>>
    /\ main = "recording"
    /\ whole = <<>> /\ dropped = {}
    /\ sawEnd = FALSE

Slots == RingCapacity - Len(ring)

-----------------------------------------------------------------------------
(* The process callback *)

\* JACK calls with a block of n frames.
BeginBlock(n) ==
    /\ main = "recording"
    /\ frame = blockEnd
    /\ frame + n <= MaxFrames + 1
    /\ blockEnd' = frame + n
    /\ UNCHANGED <<ring, frame, channel, whole, dropped, wpc, recordVars, main,
                   sawEnd>>

\* The whole frame is dropped unless there is room for all of it.
HasRoomForOne == Slots >= 1              \* faulty: for a sample
HasRoom == Slots >= Channels

BeginFrame ==
    /\ frame < blockEnd /\ channel = 0
    /\ IF HasRoom THEN /\ channel' = 1
                       /\ whole' = Append(whole, frame)
                       /\ UNCHANGED <<frame, dropped>>
                  ELSE /\ frame' = frame + 1
                       /\ dropped' = dropped \union {frame}
                       /\ UNCHANGED <<channel, whole>>
    /\ UNCHANGED <<ring, blockEnd, wpc, recordVars, main, sawEnd>>

\* One sample is pushed; that the ring may be full is ignored.
PushSample ==
    /\ channel # 0
    /\ ring' = IF Slots > 0 THEN Append(ring, <<frame, channel>>) ELSE ring
    /\ IF channel = Channels THEN channel' = 0 /\ frame' = frame + 1
                             ELSE channel' = channel + 1 /\ UNCHANGED frame
    /\ UNCHANGED <<blockEnd, whole, dropped, wpc, recordVars, main, sawEnd>>

Callback == BeginFrame \/ PushSample

-----------------------------------------------------------------------------
(* The writer thread *)

\* pop succeeds: the sample is counted on the channel its place in the stream
\* stands for, and a full chunk is written.
PopSample ==
    /\ wpc = "pop" /\ ring # <<>>
    /\ ring' = Tail(ring)
    /\ counted' = [counted EXCEPT ![(total % Channels) + 1] = @ \union {Head(ring)}]
    /\ total' = total + 1
    /\ LET filled == Append(chunk, Head(ring))
       IN  IF Len(filled) = ChunkFrames * Channels
           THEN file' = file \o filled /\ chunk' = <<>>
           ELSE chunk' = filled /\ UNCHANGED file
    /\ UNCHANGED <<callbackVars, wpc, main, sawEnd>>

\* pop fails: the ring is empty ...
PopEmpty ==
    /\ wpc = "pop" /\ ring = <<>>
    /\ wpc' = "look"
    /\ sawEnd' = (main # "recording")
    /\ UNCHANGED <<ring, callbackVars, recordVars, main>>

\* ... and only now shutdown is looked at.
LookForShutdown ==
    /\ wpc = "look"
    /\ wpc' = IF main = "stopping" THEN "flush" ELSE "pop"
    /\ UNCHANGED <<ring, callbackVars, recordVars, main, sawEnd>>

\* What is left of the last chunk is written.
FlushForgotten ==                        \* faulty: only full chunks are written
    /\ wpc = "flush"
    /\ wpc' = "ended"
    /\ UNCHANGED <<ring, callbackVars, recordVars, main, sawEnd>>
Flush ==
    /\ wpc = "flush"
    /\ file' = file \o chunk
    /\ wpc' = "ended"
    /\ UNCHANGED <<ring, callbackVars, total, counted, chunk, main, sawEnd>>

Writer == PopSample \/ PopEmpty \/ LookForShutdown \/ Flush

-----------------------------------------------------------------------------
(* The main thread, once the duration is over or Enter pressed *)

\* deactivate returns when no callback is under way, and none will be.
Deactivate ==
    /\ main = "recording" /\ frame = blockEnd
    /\ main' = "deactivated"
    /\ UNCHANGED <<ring, callbackVars, wpc, recordVars, sawEnd>>

StoreShutdown ==
    /\ main = "deactivated"
    /\ main' = "stopping"
    /\ UNCHANGED <<ring, callbackVars, wpc, recordVars, sawEnd>>

Join ==
    /\ main = "stopping" /\ wpc = "ended"
    /\ main' = "ended"
    /\ UNCHANGED <<ring, callbackVars, wpc, recordVars, sawEnd>>

Ended == main = "ended" /\ UNCHANGED probeVars

-----------------------------------------------------------------------------

ProbeNext ==
    \/ \E n \in BlockSizes : BeginBlock(n)
    \/ Callback \/ Writer
    \/ Deactivate \/ StoreShutdown \/ Join
    \/ Ended

ProbeSpec == ProbeInit /\ [][ProbeNext]_probeVars

\* The writer and, once it is to stop, the main thread keep running; nothing
\* makes JACK call or the user stop the recording.
ProbeFairSpec ==
    ProbeSpec /\ WF_probeVars(Writer) /\ WF_probeVars(StoreShutdown \/ Join)

-----------------------------------------------------------------------------
(* What a recording promises. *)

\* The stream of a sequence of frames: sample by sample, channel by channel.
Interleaved(frames) ==
    [k \in 1 .. Channels * Len(frames) |->
        <<frames[((k - 1) \div Channels) + 1], ((k - 1) % Channels) + 1>>]

\* What the writer has popped: it is in the file or still in the chunk.
Recorded == IF wpc = "ended" THEN file ELSE file \o chunk

\* No sample is counted on a channel it does not belong to, and the stream is
\* one of whole frames in the order of the clock, however full the ring gets
\* and however the writer's pops fall between the pushes of a frame: "a partial
\* push ... would desync the writer's channel-tracking for every sample after
\* it" (the callback).
ChannelsInStep ==
    /\ \A c \in 1 .. Channels : \A sample \in counted[c] : sample[2] = c
    /\ \A j, k \in DOMAIN whole : j < k => whole[j] < whole[k]
    /\ IsPrefix(Recorded \o ring, Interleaved(whole))

\* A recording that is stopped ends, and then no sample is unaccounted for: every
\* frame JACK delivered was pushed or dropped, the file and what is left in the
\* ring are the stream of those pushed, and the samples of the file are those
\* that are counted, each on its channel.  What is left in the ring was pushed
\* after the writer last found it empty and before the callback was stopped: the
\* writer looks at shutdown only later, and ends without looking at the ring
\* again.  Once it has found the ring empty after deactivation (the main thread:
\* "so the writer sees a final, unmoving ring buffer rather than racing new
\* pushes") the file holds everything.
Accounted ==
    /\ Range(whole) \union dropped = 1 .. frame - 1
    /\ file \o ring = Interleaved(whole)
    /\ \A c \in 1 .. Channels :
          counted[c] = {sample \in Range(file) : sample[2] = c}
    /\ sawEnd => file = Interleaved(whole)

StopYieldsRecording ==
    main = "deactivated" ~> main = "ended" /\ Accounted

=============================================================================
