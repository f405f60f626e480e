---------------------------- MODULE MCDRAMTiming ----------------------------
(* A small device for DRAMTiming, with the proportions of a real one. *)
EXTENDS FRFCFS

CONSTANTS k0, k1, w0, w1

\* The banks are in one bank group, so that they are interchangeable.
OneGroup == [b \in Banks |-> 0]

\* Banks of one group are alike, and so are the data rows.
Symmetry == Permutations(Banks) \cup Permutations(Rows)

=============================================================================
