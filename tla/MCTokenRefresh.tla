--------------------------- MODULE MCTokenRefresh ---------------------------
(* TokenRefresh with model values for TLC. *)
EXTENDS TokenRefresh

CONSTANTS w1, w2
=============================================================================
