---------------------------- MODULE BoundedFifo ----------------------------
(***************************************************************************)
(* What each of the two rings in the shared-memory segment promises: a     *)
(* first-in first-out buffer of at most Cap items, into which a push puts  *)
(* its item at one instant and from which a pop takes the oldest item at   *)
(* one instant.  A refused push and a pop of an empty ring change nothing. *)
(***************************************************************************)
EXTENDS Naturals, Sequences

CONSTANTS Cap

VARIABLES buffer, delivered

vars == <<buffer, delivered>>

Init == buffer = <<>> /\ delivered = <<>>

Put ==
    /\ Len(buffer) < Cap
    /\ Len(buffer') = Len(buffer) + 1
    /\ buffer' = Append(buffer, buffer'[Len(buffer) + 1])
    /\ UNCHANGED delivered

Take ==
    /\ buffer # <<>>
    /\ delivered' = Append(delivered, Head(buffer))
    /\ buffer' = Tail(buffer)

Next == Put \/ Take

Spec == Init /\ [][Next]_vars

=============================================================================
