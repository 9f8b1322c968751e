---------------------------- MODULE MCSpscRing ----------------------------
(***************************************************************************)
(* Instances of SpscRing for TLC: a small ring whose counters wrap well    *)
(* within the run, used by one thread or, as the client library's          *)
(* documentation allows, by two.                                           *)
(***************************************************************************)
EXTENDS SpscRing

CONSTANTS client, otherThread

OneThread  == {client}
TwoThreads == {client, otherThread}

=============================================================================
