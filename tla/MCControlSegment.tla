-------------------------- MODULE MCControlSegment --------------------------
(***************************************************************************)
(* Instances of ControlSegment for TLC.                                    *)
(***************************************************************************)
EXTENDS ControlSegment

CONSTANTS s1, s2, c1

OneServer  == {s1}
TwoServers == {s1, s2}
OneClient  == {c1}

=============================================================================
