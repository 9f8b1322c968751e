------------------------------ MODULE MCEngine ------------------------------
(***************************************************************************)
(* Instances of Engine for TLC: a careful client on a frame clock that may *)
(* skip, and one that reuses ids while the clock runs freely or the        *)
(* transport may be set back.                                              *)
(***************************************************************************)
EXTENDS Engine

Careful   == [uniqueIds |-> TRUE,  drifts |-> {0, 2}]
Careless  == [uniqueIds |-> FALSE, drifts |-> {0}]
Relocated == [uniqueIds |-> FALSE, drifts |-> {-3, 0}]

AnyWorld == {Careful, Careless, Relocated}

\* Six channels: W, X, Y and a reverb bus of three.
FirstOrder == [kind |-> "Ambisonic", order |-> 1, dims |-> 2, reverb |-> "first_order"]

=============================================================================
