----------------------------- MODULE AmbitRowOp -----------------------------
(***************************************************************************)
(* The command sequences that doDRAMAccess issues for a row operation      *)
(* (gem5/src/mem/dram_ctrl.cc), run on the subarray of a bank.             *)
(***************************************************************************)
EXTENDS Subarray

CONSTANTS Rows, RowOps,
          Row0     \* the row 0 that ROWAAP names as a placeholder

ASSUME RowOpAssumption ==
  /\ Row0 \in Rows
  /\ RowOps \subseteq {"ROWAND", "ROWOR", "ROWNOT", "ROWXOR", "ROWAP", "ROWAAP"}

VARIABLES
  pkt,     \* the row operation in progress, if any
  todo     \* its commands that are still to be issued

vars == <<mem, cells, pkt, todo>>

----------------------------------------------------------------------------
(* The commands of a row operation *)

NoPkt        == [op |-> "none"]
RowOpPayload == [op : RowOps, dest : Rows, src1 : Rows, src2 : Rows]

\* The third command of an exclusive or clears both of the cells that the two
\* majorities after it use.
ForgetsT3 == AAP(C_0, B_T2)  \* mutant
clearForXor == AAP(C_0, B_T2_T3)

rowOpCommands(p) ==
  CASE p.op = "ROWAND" ->
         <<AAP(D(p.src1), B_T0), AAP(D(p.src2), B_T1), AAP(C_0, B_T2),
           AAP(B_T0_T1_T2, D(p.dest))>>
    [] p.op = "ROWOR" ->
         <<AAP(D(p.src1), B_T0), AAP(D(p.src2), B_T1), AAP(C_1, B_T2),
           AAP(B_T0_T1_T2, D(p.dest))>>
    [] p.op = "ROWNOT" ->
         <<AAP(D(p.src1), B_DCC0N), AAP(B_DCC0, D(p.dest))>>
    [] p.op = "ROWXOR" ->
         <<AAP(D(p.src1), B_DCC0N_T0), AAP(D(p.src2), B_DCC1N_T1), clearForXor,
           AP(B_DCC0_T1_T2), AP(B_DCC1_T0_T3), AAP(C_1, B_T2),
           AAP(B_T0_T1_T2, D(p.dest))>>
    [] p.op = "ROWAP" -> <<AP(B_T0_T1_T2)>>
    [] p.op = "ROWAAP" -> <<AAP(D(Row0), D(Row0))>>

----------------------------------------------------------------------------
(* The bank *)

\* A row operation starts once the bank is free.
Start(p) ==
  /\ pkt = NoPkt
  /\ pkt' = p
  /\ todo' = rowOpCommands(p)
  /\ UNCHANGED <<mem, cells>>

\* apBank or aapBank.
Command ==
  /\ todo # <<>>
  /\ stored(Head(todo), sensed(Head(todo)[1]))
  /\ todo' = Tail(todo)
  /\ pkt' = IF todo' = <<>> THEN NoPkt ELSE pkt

\* An ordinary write to the bank, between two row operations.
Write(r, value) ==
  /\ pkt = NoPkt
  /\ mem' = [mem EXCEPT ![r] = value]
  /\ UNCHANGED <<cells, pkt, todo>>

\* The B-group holds anything at first.
Init ==
  /\ mem \in [Rows -> Row] /\ cells \in [Cells -> Row]
  /\ pkt = NoPkt /\ todo = <<>>

Next ==
  \/ \E p \in RowOpPayload : Start(p)
  \/ Command
  \/ \E r \in Rows, v \in Row : Write(r, v)

Spec == Init /\ [][Next]_vars

----------------------------------------------------------------------------
(* Properties *)

\* On the data rows a row operation is one atomic step, the one that
\* AbstractMemory::access takes (abstract_mem.cc:337-379): no command but the
\* last changes a data row, and the last writes the right result, whichever of
\* dest, src1 and src2 are the same row and whatever the B-group held before.
FunctionalMemory == INSTANCE RowOpMem
ComputesRowOp == FunctionalMemory!Spec

=============================================================================
