--------------------------- MODULE MCInterconnect ---------------------------
(* Two caches that share a memory. *)
EXTENDS Interconnect, TLC

CONSTANTS c0, c1, a0, a1

=============================================================================
