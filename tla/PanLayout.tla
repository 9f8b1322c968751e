------------------------------ MODULE PanLayout ------------------------------
(***************************************************************************)
(* Which output channels a grain is heard on (src/src/pan.rs): how many    *)
(* channels a panning mode has, where the direct signal ends and the       *)
(* reverb bus begins, and which channels pan_gains writes for a grain.     *)
(* The gains themselves are real numbers and left out.                     *)
(*                                                                         *)
(* `out' is a slice: writing beyond its length ends the audio thread, and  *)
(* writing beyond the direct part puts a dry signal on the reverb bus.     *)
(***************************************************************************)
EXTENDS Integers

\* PanMode.  The command line admits these dimensions and reverb orders; only
\* Ambisonic looks at order, dims and reverb.
Kinds   == {"Mono", "Stereo", "Ambisonic"}
Reverbs == {"none", "mono", "first_order"}
PanModes == [kind : Kinds, order : Nat, dims : {2, 3}, reverb : Reverbs]

\* ambisonic_direct_channel_count
DirectChannels(order, dims) ==
    IF dims = 2 THEN 2 * order + 1 ELSE (order + 1) * (order + 1)

ReverbChannels(mode) ==
    CASE mode.reverb = "none"        -> 0
      [] mode.reverb = "mono"        -> 1
      [] mode.reverb = "first_order" -> DirectChannels(1, mode.dims)

\* PanMode::channel_count
ChannelCount(mode) ==
    CASE mode.kind = "Mono"      -> 1
      [] mode.kind = "Stereo"    -> 2
      [] mode.kind = "Ambisonic" ->
            DirectChannels(mode.order, mode.dims) + ReverbChannels(mode)

ChannelsOf(mode) == 0 .. ChannelCount(mode) - 1

\* encode_ambisonics: which of a slice's len channels it writes, [W, X, Y, (Z)];
\* higher orders are allotted channels and not encoded yet.
Encoded(order, dims, len) ==
    {c \in 0 .. len - 1 :
        \/ c = 0
        \/ order >= 1 /\ c \in {1, 2}
        \/ order >= 1 /\ c = 3 /\ dims = 3}

\* The part of pan_sample that feeds the reverb bus, which begins at `direct':
\* muted for sources nearer than the reference distance.
ReverbSend(mode, far) ==
    LET direct == DirectChannels(mode.order, mode.dims)
        bus    == CASE ~far \/ mode.reverb = "none" -> {}
                    [] far /\ mode.reverb = "mono" -> {0}
                    [] far /\ mode.reverb = "first_order" ->
                          Encoded(1, mode.dims, ReverbChannels(mode))
    IN  {direct + c : c \in bus}

\* pan_gains: the channels of a grain at distance 1 or more (far) or nearer.
PanChannels(mode, far) ==
    CASE mode.kind = "Mono"      -> {0}
      [] mode.kind = "Stereo"    -> {0, 1}
      [] mode.kind = "Ambisonic" ->
            Encoded(mode.order, mode.dims, DirectChannels(mode.order, mode.dims))
               \union ReverbSend(mode, far)

=============================================================================
