----------------------------- MODULE RowOpMem -----------------------------
(***************************************************************************)
(* What a row operation does to memory: AbstractMemory::access             *)
(* (gem5/src/mem/abstract_mem.cc) computes it in one step, on whole rows.  *)
(***************************************************************************)
CONSTANTS Rows, Columns, RowOps

VARIABLES
  mem,   \* the contents of the data rows
  pkt    \* the row operation in progress, if any

vars == <<mem, pkt>>

Row == [Columns -> BOOLEAN]

\* One bit column of the loop over the row.  The activation primitives do
\* nothing to the memory.
ComputesNothing == {"ROWAP", "ROWAAP"}
bit(op, a, b) ==
  CASE op = "ROWAND" -> a /\ b
    [] op = "ROWOR"  -> a \/ b
    [] op = "ROWNOT" -> ~a
    [] op = "ROWXOR" -> (a \/ b) /\ ~(a /\ b)

NoPkt   == [op |-> "none"]
RowOpPayload == [op : RowOps, dest : Rows, src1 : Rows, src2 : Rows]

\* A row operation reaches the memory.
receive(p) == pkt = NoPkt /\ pkt' = p /\ UNCHANGED mem

access ==
  /\ pkt # NoPkt /\ pkt' = NoPkt
  /\ mem' = IF pkt.op \in ComputesNothing THEN mem
            ELSE [mem EXCEPT ![pkt.dest] =
                   [c \in Columns |-> bit(pkt.op, mem[pkt.src1][c], mem[pkt.src2][c])]]

\* An ordinary write.
write(r, value) ==
  pkt = NoPkt /\ mem' = [mem EXCEPT ![r] = value] /\ UNCHANGED pkt

Init == mem \in [Rows -> Row] /\ pkt = NoPkt

Next ==
  \/ \E p \in RowOpPayload : receive(p)
  \/ access
  \/ \E r \in Rows, v \in Row : write(r, v)

Spec == Init /\ [][Next]_vars

=============================================================================
