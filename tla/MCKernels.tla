----------------------------- MODULE MCKernels -----------------------------
(* Lengths 2, 3 and 4 take every branch on the parity of col_length; bit      *)
(* counts of up to 7 rows recurse into both halves.                           *)
EXTENDS Kernels
=============================================================================
