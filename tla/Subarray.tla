------------------------------ MODULE Subarray ------------------------------
(***************************************************************************)
(* The subarray of a DRAM bank in which row operations compute: the data   *)
(* rows, the constant rows C_0 and C_1, and the B-group, whose designated  *)
(* cells are reached through wordlines that open up to three at a time     *)
(* (gem5/src/mem/dram_ctrl.hh, class Bank; microworkloads/mimdram.h).  The *)
(* array itself is outside the program: opening cells drives their         *)
(* bitlines to the majority, which is restored into every open cell,       *)
(* negated through the N wordlines.                                        *)
(***************************************************************************)
EXTENDS Naturals, Sequences, FiniteSets

CONSTANT Columns

VARIABLES
  mem,     \* the data rows
  cells    \* the cells of the B-group

Row   == [Columns -> BOOLEAN]
Cells == {"T0", "T1", "T2", "T3", "DCC0", "DCC1"}

----------------------------------------------------------------------------
(* Wordlines: what an activation opens *)

\* The designated cells plain, and those opened through their negated wordline.
B(plain, negated) == [kind |-> "B", plain |-> plain, negated |-> negated]
C(value)          == [kind |-> "C", value |-> value]
D(row)            == [kind |-> "D", row |-> row]

B_T0         == B({"T0"}, {})
B_T1         == B({"T1"}, {})
B_T2         == B({"T2"}, {})
B_T3         == B({"T3"}, {})
B_DCC0       == B({"DCC0"}, {})
B_DCC0N      == B({}, {"DCC0"})
B_DCC1       == B({"DCC1"}, {})
B_DCC1N      == B({}, {"DCC1"})
B_DCC0N_T0   == B({"T0"}, {"DCC0"})
B_DCC1N_T1   == B({"T1"}, {"DCC1"})
B_T2_T3      == B({"T2", "T3"}, {})
B_T0_T3      == B({"T0", "T3"}, {})
B_T0_T1_T2   == B({"T0", "T1", "T2"}, {})
B_T1_T2_T3   == B({"T1", "T2", "T3"}, {})
B_DCC0_T1_T2 == B({"DCC0", "T1", "T2"}, {})
B_DCC1_T0_T3 == B({"DCC1", "T0", "T3"}, {})
C_0 == C(FALSE)
C_1 == C(TRUE)

\* The two commands: activate, activate, precharge and activate, precharge.
AAP(first, second) == <<first, second>>
AP(wordline)       == <<wordline>>

----------------------------------------------------------------------------
(* The array *)

\* What the sense amplifiers settle on for the cells that a first activation
\* opens: their majority.
sensed(w) ==
  [c \in Columns |->
     CASE w.kind = "D" -> mem[w.row][c]
       [] w.kind = "C" -> w.value
       [] w.kind = "B" ->
            LET ones == Cardinality({x \in w.plain : cells[x][c]}) +
                        Cardinality({x \in w.negated : ~cells[x][c]})
            IN  2 * ones > Cardinality(w.plain) + Cardinality(w.negated)]

\* The sensed row is stored in every cell that the command opens.
Opened(cmd, kind) == {i \in DOMAIN cmd : cmd[i].kind = kind}
stored(cmd, v) ==
  /\ LET rows == {cmd[i].row : i \in Opened(cmd, "D")}
     IN  mem' = [r \in DOMAIN mem |-> IF r \in rows THEN v ELSE mem[r]]
  /\ cells' = [x \in Cells |->
       IF \E i \in Opened(cmd, "B") : x \in cmd[i].plain THEN v
       ELSE IF \E i \in Opened(cmd, "B") : x \in cmd[i].negated
              THEN [c \in Columns |-> ~v[c]]
       ELSE cells[x]]

=============================================================================
