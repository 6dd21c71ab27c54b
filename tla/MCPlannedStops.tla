--------------------------- MODULE MCPlannedStops ---------------------------
(* One clerk: the requests come one at a time, and each of them may be cut *)
(* off at any await and followed by the others.                            *)
EXTENDS PlannedStops

CONSTANT c1

OneClerk == {c1}
=============================================================================
