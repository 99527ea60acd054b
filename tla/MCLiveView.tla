----------------------------- MODULE MCLiveView -----------------------------
(* Instances of LiveView for TLC. *)
EXTENDS LiveView

CONSTANTS r1, r2

One == {r1}
Two == {r1, r2}

\* Two faults with two generations made, one with all three.
Bounded == faults > 0 \/ Unused # {}

=============================================================================
