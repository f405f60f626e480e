---------------------------- MODULE MCRowOpPath ----------------------------
(* Two rows of one line each, and all programs of three instructions. *)
EXTENDS RowOpPath

CONSTANTS r0, r1

=============================================================================
