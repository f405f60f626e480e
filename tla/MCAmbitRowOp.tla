---------------------------- MODULE MCAmbitRowOp ----------------------------
(* Three rows, so that dest, src1 and src2 may be distinct or alias; row      *)
(* operations work on each column alone, so one column shows all of them.     *)
EXTENDS AmbitRowOp

CONSTANTS w0, w1, w2

=============================================================================
