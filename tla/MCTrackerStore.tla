--------------------------- MODULE MCTrackerStore ---------------------------
(* TrackerStore with model values for TLC. *)
EXTENDS TrackerStore

CONSTANTS t1, t2, c1, c2
=============================================================================
