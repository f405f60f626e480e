-------------------------- MODULE AmbitRowOpProofs --------------------------
(***************************************************************************)
(* The command sequences of the row operations compute what the functional *)
(* memory computes: AmbitRowOp implements RowOpMem.  The proof runs each   *)
(* sequence symbolically.  The invariant says, for each command, what the  *)
(* cells of the B-group hold when it and the ones after it are left.       *)
(***************************************************************************)
EXTENDS AmbitRowOp, TLAPS, FiniteSetTheorems

\* Rows of bits: the complement, a constant, the majority of three.
Neg(v) == [c \in Columns |-> ~v[c]]
Const(b) == [c \in Columns |-> b]
Maj(u, v, w) ==
  [c \in Columns |-> (u[c] /\ v[c]) \/ (u[c] /\ w[c]) \/ (v[c] /\ w[c])]

\* The data rows and the cells hold rows.
Types == mem \in [Rows -> Row] /\ cells \in [Cells -> Row]

----------------------------------------------------------------------------
(* What a command senses *)

\* Issuing the first command of a sequence leaves the ones after it.
LEMMA Issue1 ==
  ASSUME NEW a, todo = <<a>>, Command
  PROVE  stored(a, sensed(a[1])) /\ todo' = <<>>
<1>1. Head(<<a>>) = a /\ Tail(<<a>>) = <<>>
  BY SMT
<1>2. Head(todo) = a /\ Tail(todo) = <<>>
  BY <1>1, Zenon
<1> QED BY <1>2, Zenon DEF Command

LEMMA Issue2 ==
  ASSUME NEW a, NEW b, todo = <<a, b>>, Command
  PROVE  stored(a, sensed(a[1])) /\ todo' = <<b>>
<1>1. Head(<<a, b>>) = a /\ Tail(<<a, b>>) = <<b>>
  BY SMT
<1>2. Head(todo) = a /\ Tail(todo) = <<b>>
  BY <1>1, Zenon
<1> QED BY <1>2, Zenon DEF Command

LEMMA Issue3 ==
  ASSUME NEW a, NEW b, NEW c, todo = <<a, b, c>>, Command
  PROVE  stored(a, sensed(a[1])) /\ todo' = <<b, c>>
<1>1. Head(<<a, b, c>>) = a /\ Tail(<<a, b, c>>) = <<b, c>>
  BY SMT
<1>2. Head(todo) = a /\ Tail(todo) = <<b, c>>
  BY <1>1, Zenon
<1> QED BY <1>2, Zenon DEF Command

LEMMA Issue4 ==
  ASSUME NEW a, NEW b, NEW c, NEW d, todo = <<a, b, c, d>>, Command
  PROVE  stored(a, sensed(a[1])) /\ todo' = <<b, c, d>>
<1>1. Head(<<a, b, c, d>>) = a /\ Tail(<<a, b, c, d>>) = <<b, c, d>>
  BY SMT
<1>2. Head(todo) = a /\ Tail(todo) = <<b, c, d>>
  BY <1>1, Zenon
<1> QED BY <1>2, Zenon DEF Command

LEMMA Issue5 ==
  ASSUME NEW a, NEW b, NEW c, NEW d, NEW e, todo = <<a, b, c, d, e>>, Command
  PROVE  stored(a, sensed(a[1])) /\ todo' = <<b, c, d, e>>
<1>1. Head(<<a, b, c, d, e>>) = a /\ Tail(<<a, b, c, d, e>>) = <<b, c, d, e>>
  BY SMT
<1>2. Head(todo) = a /\ Tail(todo) = <<b, c, d, e>>
  BY <1>1, Zenon
<1> QED BY <1>2, Zenon DEF Command

LEMMA Issue6 ==
  ASSUME NEW a, NEW b, NEW c, NEW d, NEW e, NEW f, todo = <<a, b, c, d, e, f>>, Command
  PROVE  stored(a, sensed(a[1])) /\ todo' = <<b, c, d, e, f>>
<1>1. Head(<<a, b, c, d, e, f>>) = a /\ Tail(<<a, b, c, d, e, f>>) = <<b, c, d, e, f>>
  BY SMT
<1>2. Head(todo) = a /\ Tail(todo) = <<b, c, d, e, f>>
  BY <1>1, Zenon
<1> QED BY <1>2, Zenon DEF Command

LEMMA Issue7 ==
  ASSUME NEW a, NEW b, NEW c, NEW d, NEW e, NEW f, NEW g, todo = <<a, b, c, d, e, f, g>>, Command
  PROVE  stored(a, sensed(a[1])) /\ todo' = <<b, c, d, e, f, g>>
<1>1. Head(<<a, b, c, d, e, f, g>>) = a /\ Tail(<<a, b, c, d, e, f, g>>) = <<b, c, d, e, f, g>>
  BY SMT
<1>2. Head(todo) = a /\ Tail(todo) = <<b, c, d, e, f, g>>
  BY <1>1, Zenon
<1> QED BY <1>2, Zenon DEF Command

\* A first activation of a data row senses the row.
LEMMA SenseRow ==
  ASSUME Types, NEW r \in Rows
  PROVE  sensed(D(r)) = mem[r]
BY DEF Types, Row, sensed, D

\* A first activation of C_0 or C_1 senses the constant.
LEMMA SenseConst ==
  ASSUME NEW b \in BOOLEAN
  PROVE  sensed(C(b)) = Const(b)
BY DEF sensed, C, Const

\* A first activation of one cell senses the cell.
LEMMA SenseOne ==
  ASSUME Types, NEW x \in Cells
  PROVE  sensed(B({x}, {})) = cells[x]
<1>1. ASSUME NEW c \in Columns
      PROVE  (2 * (Cardinality({y \in {x} : cells[y][c]}) + Cardinality({y \in {} : ~cells[y][c]}))
                > Cardinality({x}) + Cardinality({})) <=> cells[x][c]
  <2>1. Cardinality({y \in {} : ~cells[y][c]}) = 0 /\ Cardinality({}) = 0
    <3>1. {y \in {} : ~cells[y][c]} = {}
      OBVIOUS
    <3> QED BY <3>1, FS_EmptySet
  <2>2. Cardinality({x}) = 1
    BY FS_Singleton
  <2>3. cells[x][c] \in BOOLEAN
    BY DEF Types, Row
  <2>4. CASE cells[x][c]
    <3>1. {y \in {x} : cells[y][c]} = {x}
      BY <2>4
    <3> QED BY <2>1, <2>2, <2>3, <2>4, <3>1
  <2>5. CASE ~cells[x][c]
    <3>1. {y \in {x} : cells[y][c]} = {}
      BY <2>5
    <3> QED BY <2>1, <2>2, <2>3, <2>5, <3>1
  <2> QED BY <2>4, <2>5
<1>2. sensed(B({x}, {})) = [c \in Columns |->
         2 * (Cardinality({y \in {x} : cells[y][c]}) + Cardinality({y \in {} : ~cells[y][c]}))
                > Cardinality({x}) + Cardinality({})]
  BY DEF sensed, B
<1>3. ASSUME NEW c \in Columns PROVE sensed(B({x}, {}))[c] = cells[x][c]
  <2>1. cells[x][c] \in BOOLEAN
    BY DEF Types, Row
  <2>2. sensed(B({x}, {}))[c] =
          (2 * (Cardinality({y \in {x} : cells[y][c]}) + Cardinality({y \in {} : ~cells[y][c]}))
                > Cardinality({x}) + Cardinality({}))
    BY <1>2, Zenon
  <2> QED BY <1>1, <2>1, <2>2
<1>4. cells[x] = [c \in Columns |-> cells[x][c]]
  BY DEF Types, Row
<1> HIDE DEF sensed
<1>5. sensed(B({x}, {})) = [c \in Columns |-> sensed(B({x}, {}))[c]]
  BY <1>2
<1> QED BY <1>3, <1>4, <1>5, Zenon

\* A triple-row activation senses the majority of its three cells.
LEMMA SenseThree ==
  ASSUME Types, NEW a \in Cells, NEW b \in Cells, NEW d \in Cells, a # b, a # d, b # d
  PROVE  sensed(B({a, b, d}, {})) = Maj(cells[a], cells[b], cells[d])
<1>0. /\ Cardinality({}) = 0
      /\ Cardinality({a}) = 1 /\ Cardinality({b}) = 1 /\ Cardinality({d}) = 1
      /\ Cardinality({a, b}) = 2 /\ Cardinality({a, d}) = 2 /\ Cardinality({b, d}) = 2
      /\ Cardinality({a, b, d}) = 3
  <2>1. Cardinality({}) = 0
    BY FS_EmptySet
  <2>2. \A x : Cardinality({x}) = 1 /\ IsFiniteSet({x})
    BY FS_Singleton, Zenon
  <2>3. ASSUME NEW x, NEW y, x # y PROVE Cardinality({x, y}) = 2 /\ IsFiniteSet({x, y})
    <3>1. {x, y} = {x} \cup {y} /\ y \notin {x}
      BY <2>3
    <3>2. Cardinality({x}) = 1 /\ IsFiniteSet({x})
      BY <2>2, Zenon
    <3>3. IsFiniteSet({x} \cup {y}) /\ Cardinality({x} \cup {y}) = 1 + 1
      BY <3>1, <3>2, FS_AddElement
    <3> QED BY <3>1, <3>3
  <2>4. {a, b, d} = {a, b} \cup {d} /\ d \notin {a, b}
    OBVIOUS
  <2>5. Cardinality({a, b, d}) = 3
    <3>1. Cardinality({a, b}) = 2 /\ IsFiniteSet({a, b})
      BY <2>3, Zenon
    <3>2. Cardinality({a, b} \cup {d}) = 2 + 1
      BY <2>4, <3>1, FS_AddElement
    <3> QED BY <2>4, <3>2
  <2>6. Cardinality({a}) = 1 /\ Cardinality({b}) = 1 /\ Cardinality({d}) = 1
    BY <2>2, Zenon
  <2>7. Cardinality({a, b}) = 2 /\ Cardinality({a, d}) = 2 /\ Cardinality({b, d}) = 2
    BY <2>3, Zenon
  <2> QED BY <2>1, <2>5, <2>6, <2>7, Zenon
<1> DEFINE ones(c) == Cardinality({y \in {a, b, d} : cells[y][c]})
<1>1. ASSUME NEW c \in Columns
      PROVE  2 * (ones(c) + Cardinality({y \in {} : ~cells[y][c]}))
               > Cardinality({a, b, d}) + Cardinality({})
             <=> Maj(cells[a], cells[b], cells[d])[c]
  <2>1. Cardinality({y \in {} : ~cells[y][c]}) = 0
    <3>1. {y \in {} : ~cells[y][c]} = {}
      OBVIOUS
    <3> QED BY <1>0, <3>1
  <2>2. Maj(cells[a], cells[b], cells[d])[c] <=>
          (cells[a][c] /\ cells[b][c]) \/ (cells[a][c] /\ cells[d][c]) \/ (cells[b][c] /\ cells[d][c])
    BY Zenon DEF Maj
  <2>3. CASE cells[a][c] /\ cells[b][c] /\ cells[d][c]
    <3>1. {y \in {a, b, d} : cells[y][c]} = {a, b, d}
      BY <2>3
    <3>2. ones(c) = 3
      BY <1>0, <3>1, Zenon
    <3> HIDE DEF ones
    <3> QED BY <1>0, <2>1, <2>2, <2>3, <3>2
  <2>4. CASE cells[a][c] /\ cells[b][c] /\ ~cells[d][c]
    <3>1. {y \in {a, b, d} : cells[y][c]} = {a, b}
      BY <2>4, Zenon
    <3>2. ones(c) = 2
      BY <1>0, <3>1, Zenon
    <3> HIDE DEF ones
    <3> QED BY <1>0, <2>1, <2>2, <2>4, <3>2
  <2>5. CASE cells[a][c] /\ ~cells[b][c] /\ cells[d][c]
    <3>1. {y \in {a, b, d} : cells[y][c]} = {a, d}
      BY <2>5
    <3>2. ones(c) = 2
      BY <1>0, <3>1, Zenon
    <3> HIDE DEF ones
    <3> QED BY <1>0, <2>1, <2>2, <2>5, <3>2
  <2>6. CASE cells[a][c] /\ ~cells[b][c] /\ ~cells[d][c]
    <3>1. {y \in {a, b, d} : cells[y][c]} = {a}
      BY <2>6
    <3>2. ones(c) = 1
      BY <1>0, <3>1, Zenon
    <3> HIDE DEF ones
    <3> QED BY <1>0, <2>1, <2>2, <2>6, <3>2
  <2>7. CASE ~cells[a][c] /\ cells[b][c] /\ cells[d][c]
    <3>1. {y \in {a, b, d} : cells[y][c]} = {b, d}
      BY <2>7
    <3>2. ones(c) = 2
      BY <1>0, <3>1, Zenon
    <3> HIDE DEF ones
    <3> QED BY <1>0, <2>1, <2>2, <2>7, <3>2
  <2>8. CASE ~cells[a][c] /\ cells[b][c] /\ ~cells[d][c]
    <3>1. {y \in {a, b, d} : cells[y][c]} = {b}
      BY <2>8
    <3>2. ones(c) = 1
      BY <1>0, <3>1, Zenon
    <3> HIDE DEF ones
    <3> QED BY <1>0, <2>1, <2>2, <2>8, <3>2
  <2>9. CASE ~cells[a][c] /\ ~cells[b][c] /\ cells[d][c]
    <3>1. {y \in {a, b, d} : cells[y][c]} = {d}
      BY <2>9
    <3>2. ones(c) = 1
      BY <1>0, <3>1, Zenon
    <3> HIDE DEF ones
    <3> QED BY <1>0, <2>1, <2>2, <2>9, <3>2
  <2>10. CASE ~cells[a][c] /\ ~cells[b][c] /\ ~cells[d][c]
    <3>1. {y \in {a, b, d} : cells[y][c]} = {}
      BY <2>10
    <3>2. ones(c) = 0
      BY <1>0, <3>1, Zenon
    <3> HIDE DEF ones
    <3> QED BY <1>0, <2>1, <2>2, <2>10, <3>2
  <2> QED BY <2>1, <2>3, <2>4, <2>5, <2>6, <2>7, <2>8, <2>9, <2>10, Zenon
<1>2. sensed(B({a, b, d}, {})) = [c \in Columns |->
         2 * (ones(c) + Cardinality({y \in {} : ~cells[y][c]}))
           > Cardinality({a, b, d}) + Cardinality({})]
  BY DEF sensed, B
<1>3. ASSUME NEW c \in Columns
      PROVE  sensed(B({a, b, d}, {}))[c] = Maj(cells[a], cells[b], cells[d])[c]
  <2>1. Maj(cells[a], cells[b], cells[d])[c] \in BOOLEAN
    BY Zenon DEF Maj
  <2>2. sensed(B({a, b, d}, {}))[c] =
          (2 * (ones(c) + Cardinality({y \in {} : ~cells[y][c]}))
             > Cardinality({a, b, d}) + Cardinality({}))
    BY <1>2, Zenon
  <2>3. (2 * (ones(c) + Cardinality({y \in {} : ~cells[y][c]}))
             > Cardinality({a, b, d}) + Cardinality({})) \in BOOLEAN
    OBVIOUS
  <2>4. Maj(cells[a], cells[b], cells[d])[c] <=>
          (2 * (ones(c) + Cardinality({y \in {} : ~cells[y][c]}))
             > Cardinality({a, b, d}) + Cardinality({}))
    BY <1>1, Zenon
  <2> HIDE DEF ones
  <2> QED BY <2>1, <2>2, <2>3, <2>4, Zenon
<1>4. Maj(cells[a], cells[b], cells[d])
        = [c \in Columns |-> Maj(cells[a], cells[b], cells[d])[c]]
  BY Zenon DEF Maj
<1>5. sensed(B({a, b, d}, {})) = [c \in Columns |-> sensed(B({a, b, d}, {}))[c]]
  BY <1>2, Zenon
<1> QED BY <1>3, <1>4, <1>5, Zenon

----------------------------------------------------------------------------
(* What a command stores *)

\* AAP from a data row to the B-group: the sensed row is restored into its row
\* and stored in the opened cells, negated in those of the N wordlines.
LEMMA StoreFromRow ==
  ASSUME Types, NEW r \in Rows, NEW P, NEW N, NEW v, v = mem[r],
         stored(AAP(D(r), B(P, N)), v)
  PROVE  /\ mem' = mem
         /\ cells' = [x \in Cells |-> IF x \in P THEN v
                                      ELSE IF x \in N THEN Neg(v) ELSE cells[x]]
<1> DEFINE cmd == AAP(D(r), B(P, N))
<1>1. Opened(cmd, "D") = {1} /\ Opened(cmd, "B") = {2}
  BY DEF Opened, AAP, D, B
<1>2. cmd[1].row = r /\ cmd[2].plain = P /\ cmd[2].negated = N
  BY DEF AAP, D, B
<1> HIDE DEF cmd
<1>3. {cmd[i].row : i \in Opened(cmd, "D")} = {r}
  BY <1>1, <1>2
<1>4. mem' = [q \in DOMAIN mem |-> IF q \in {r} THEN v ELSE mem[q]]
  BY <1>3, Zenon DEF stored, cmd
<1>5. mem' = mem
  BY <1>4 DEF Types
<1>6. cells' = [x \in Cells |->
        IF \E i \in {2} : x \in cmd[i].plain THEN v
        ELSE IF \E i \in {2} : x \in cmd[i].negated THEN [c \in Columns |-> ~v[c]]
        ELSE cells[x]]
  BY <1>1, Zenon DEF stored, cmd
<1> QED BY <1>2, <1>5, <1>6 DEF Neg

\* AAP from a constant row to the B-group changes the opened cells only.
LEMMA StoreFromConst ==
  ASSUME Types, NEW b, NEW P, NEW N, NEW v, stored(AAP(C(b), B(P, N)), v)
  PROVE  /\ mem' = mem
         /\ cells' = [x \in Cells |-> IF x \in P THEN v
                                      ELSE IF x \in N THEN Neg(v) ELSE cells[x]]
<1> DEFINE cmd == AAP(C(b), B(P, N))
<1>1. Opened(cmd, "D") = {} /\ Opened(cmd, "B") = {2}
  BY DEF Opened, AAP, C, B
<1>2. cmd[2].plain = P /\ cmd[2].negated = N
  BY DEF AAP, C, B
<1> HIDE DEF cmd
<1>3. {cmd[i].row : i \in Opened(cmd, "D")} = {}
  BY <1>1
<1>4. mem' = [q \in DOMAIN mem |-> IF q \in {} THEN v ELSE mem[q]]
  BY <1>3, Zenon DEF stored, cmd
<1>5. mem' = mem
  BY <1>4 DEF Types
<1>6. cells' = [x \in Cells |->
        IF \E i \in {2} : x \in cmd[i].plain THEN v
        ELSE IF \E i \in {2} : x \in cmd[i].negated THEN [c \in Columns |-> ~v[c]]
        ELSE cells[x]]
  BY <1>1, Zenon DEF stored, cmd
<1> QED BY <1>2, <1>5, <1>6 DEF Neg

\* AP of cells of the B-group stores what it sensed in each of them.
LEMMA StoreInCells ==
  ASSUME Types, NEW P, NEW v, stored(AP(B(P, {})), v)
  PROVE  /\ mem' = mem
         /\ cells' = [x \in Cells |-> IF x \in P THEN v ELSE cells[x]]
<1> DEFINE cmd == AP(B(P, {}))
<1>1. Opened(cmd, "D") = {} /\ Opened(cmd, "B") = {1}
  BY DEF Opened, AP, B
<1>2. cmd[1].plain = P /\ cmd[1].negated = {}
  BY DEF AP, B
<1> HIDE DEF cmd
<1>3. {cmd[i].row : i \in Opened(cmd, "D")} = {}
  BY <1>1
<1>4. mem' = [q \in DOMAIN mem |-> IF q \in {} THEN v ELSE mem[q]]
  BY <1>3, Zenon DEF stored, cmd
<1>5. mem' = mem
  BY <1>4 DEF Types
<1>6. cells' = [x \in Cells |->
        IF \E i \in {1} : x \in cmd[i].plain THEN v
        ELSE IF \E i \in {1} : x \in cmd[i].negated THEN [c \in Columns |-> ~v[c]]
        ELSE cells[x]]
  BY <1>1, Zenon DEF stored, cmd
<1> QED BY <1>2, <1>5, <1>6

\* AAP from the B-group to a data row writes that row and no other.
LEMMA StoreInRow ==
  ASSUME Types, NEW d \in Rows, NEW P, NEW v, stored(AAP(B(P, {}), D(d)), v)
  PROVE  /\ mem' = [mem EXCEPT ![d] = v]
         /\ cells' = [x \in Cells |-> IF x \in P THEN v ELSE cells[x]]
<1> DEFINE cmd == AAP(B(P, {}), D(d))
<1>1. Opened(cmd, "D") = {2} /\ Opened(cmd, "B") = {1}
  BY DEF Opened, AAP, D, B
<1>2. cmd[1].plain = P /\ cmd[1].negated = {} /\ cmd[2].row = d
  BY Zenon DEF AAP, D, B
<1> HIDE DEF cmd
<1>3. {cmd[i].row : i \in Opened(cmd, "D")} = {d}
  BY <1>1, <1>2
<1>4. mem' = [q \in DOMAIN mem |-> IF q \in {d} THEN v ELSE mem[q]]
  BY <1>3, Zenon DEF stored, cmd
<1>5. mem' = [mem EXCEPT ![d] = v]
  BY <1>4, Zenon DEF Types
<1>6. cells' = [x \in Cells |->
        IF \E i \in {1} : x \in cmd[i].plain THEN v
        ELSE IF \E i \in {1} : x \in cmd[i].negated THEN [c \in Columns |-> ~v[c]]
        ELSE cells[x]]
  BY <1>1, Zenon DEF stored, cmd
<1> QED BY <1>2, <1>5, <1>6

\* The cells opened plain hold v, those opened negated its complement, no other
\* cell changes.
Loaded(v, P, N) ==
  \A x \in Cells : cells'[x] = IF x \in P THEN v
                               ELSE IF x \in N THEN Neg(v) ELSE cells[x]

\* What aapBank does when it copies a data row to the B-group.
LEMMA LoadRow ==
  ASSUME Types, NEW r \in Rows, NEW P, NEW N,
         stored(AAP(D(r), B(P, N)), sensed(AAP(D(r), B(P, N))[1]))
  PROVE  /\ mem' = mem /\ Types'
         /\ Loaded(mem[r], P, N)
<1>1. stored(AAP(D(r), B(P, N)), mem[r])
  BY SenseRow, Zenon DEF AAP
<1>2. /\ mem' = mem
      /\ cells' = [x \in Cells |-> IF x \in P THEN mem[r]
                                   ELSE IF x \in N THEN Neg(mem[r]) ELSE cells[x]]
  BY <1>1, StoreFromRow
<1>3. mem[r] \in Row /\ Neg(mem[r]) \in Row
  BY DEF Types, Row, Neg
<1> QED BY <1>2, <1>3, Zenon DEF Types, Loaded

\* What aapBank does when it copies a constant row to the B-group.
LEMMA LoadConst ==
  ASSUME Types, NEW b \in BOOLEAN, NEW P,
         stored(AAP(C(b), B(P, {})), sensed(AAP(C(b), B(P, {}))[1]))
  PROVE  /\ mem' = mem /\ Types'
         /\ \A x \in Cells : cells'[x] = IF x \in P THEN Const(b) ELSE cells[x]
<1>1. stored(AAP(C(b), B(P, {})), Const(b))
  BY SenseConst, Zenon DEF AAP
<1>2. /\ mem' = mem
      /\ cells' = [x \in Cells |-> IF x \in P THEN Const(b)
                                   ELSE IF x \in {} THEN Neg(Const(b)) ELSE cells[x]]
  BY <1>1, StoreFromConst
<1>3. Const(b) \in Row
  BY Zenon DEF Row, Const
<1> QED BY <1>2, <1>3 DEF Types

\* What apBank does with three cells.
LEMMA Combine ==
  ASSUME Types, NEW a \in Cells, NEW b \in Cells, NEW d \in Cells, a # b, a # d, b # d,
         stored(AP(B({a, b, d}, {})), sensed(AP(B({a, b, d}, {}))[1]))
  PROVE  /\ mem' = mem /\ Types'
         /\ \A x \in Cells : cells'[x] = IF x \in {a, b, d}
                                        THEN Maj(cells[a], cells[b], cells[d]) ELSE cells[x]
<1> DEFINE v == Maj(cells[a], cells[b], cells[d])
<1>1. stored(AP(B({a, b, d}, {})), v)
  BY SenseThree, Zenon DEF AP
<1>2. v \in Row
  BY DEF Row, Maj
<1> HIDE DEF v
<1>3. /\ mem' = mem
      /\ cells' = [x \in Cells |-> IF x \in {a, b, d} THEN v ELSE cells[x]]
  BY <1>1, StoreInCells
<1>4. /\ mem' = mem /\ Types'
      /\ \A x \in Cells : cells'[x] = IF x \in {a, b, d} THEN v ELSE cells[x]
  BY <1>2, <1>3, Zenon DEF Types
<1> QED BY <1>4, Zenon DEF v

\* What aapBank does when it copies the majority of three cells to a data row.
LEMMA StoreMajority ==
  ASSUME Types, NEW a \in Cells, NEW b \in Cells, NEW d \in Cells, a # b, a # d, b # d,
         NEW r \in Rows,
         stored(AAP(B({a, b, d}, {}), D(r)), sensed(AAP(B({a, b, d}, {}), D(r))[1]))
  PROVE  mem' = [mem EXCEPT ![r] = Maj(cells[a], cells[b], cells[d])] /\ Types'
<1> DEFINE v == Maj(cells[a], cells[b], cells[d])
<1>1. stored(AAP(B({a, b, d}, {}), D(r)), v)
  BY SenseThree, Zenon DEF AAP
<1>2. v \in Row
  BY DEF Row, Maj
<1> HIDE DEF v
<1>3. /\ mem' = [mem EXCEPT ![r] = v]
      /\ cells' = [x \in Cells |-> IF x \in {a, b, d} THEN v ELSE cells[x]]
  BY <1>1, StoreInRow
<1>4. Types'
  BY <1>2, <1>3 DEF Types
<1> QED BY <1>3, <1>4, Zenon DEF v

\* The three cells of B12 are different designated cells.
LEMMA FirstTrio ==
  /\ "T0" \in Cells /\ "T1" \in Cells /\ "T2" \in Cells
  /\ "T0" # "T1" /\ "T0" # "T2" /\ "T1" # "T2"
BY DEF Cells

\* What apBank does with the three cells of B12.
LEMMA CombineTrio ==
  ASSUME Types, stored(AP(B_T0_T1_T2), sensed(AP(B_T0_T1_T2)[1]))
  PROVE  mem' = mem /\ Types'
<1>1. stored(AP(B({"T0", "T1", "T2"}, {})), sensed(AP(B({"T0", "T1", "T2"}, {}))[1]))
  BY Zenon DEF B_T0_T1_T2
<1> QED BY <1>1, FirstTrio, Combine, Zenon

\* What aapBank does when it copies their majority to a data row.
LEMMA StoreTrio ==
  ASSUME Types, NEW r \in Rows,
         stored(AAP(B_T0_T1_T2, D(r)), sensed(AAP(B_T0_T1_T2, D(r))[1]))
  PROVE  mem' = [mem EXCEPT ![r] = Maj(cells["T0"], cells["T1"], cells["T2"])] /\ Types'
<1>1. stored(AAP(B({"T0", "T1", "T2"}, {}), D(r)),
             sensed(AAP(B({"T0", "T1", "T2"}, {}), D(r))[1]))
  BY Zenon DEF B_T0_T1_T2
<1> QED BY <1>1, FirstTrio, StoreMajority, Zenon

\* What aapBank does when it copies one cell to a data row.
LEMMA StoreCell ==
  ASSUME Types, NEW a \in Cells, NEW r \in Rows,
         stored(AAP(B({a}, {}), D(r)), sensed(AAP(B({a}, {}), D(r))[1]))
  PROVE  mem' = [mem EXCEPT ![r] = cells[a]] /\ Types'
<1>1. stored(AAP(B({a}, {}), D(r)), cells[a])
  BY SenseOne, Zenon DEF AAP
<1>2. cells[a] \in Row
  BY DEF Types
<1>3. /\ mem' = [mem EXCEPT ![r] = cells[a]]
      /\ cells' = [x \in Cells |-> IF x \in {a} THEN cells[a] ELSE cells[x]]
  BY <1>1, StoreInRow
<1>4. Types'
  BY <1>2, <1>3 DEF Types
<1> QED BY <1>3, <1>4

\* The AAP of a row onto itself that stands for ROWAAP leaves the memory alone.
LEMMA Placeholder ==
  ASSUME Types, NEW r \in Rows,
         stored(AAP(D(r), D(r)), sensed(AAP(D(r), D(r))[1]))
  PROVE  mem' = mem /\ Types'
<1> DEFINE cmd == AAP(D(r), D(r))
<1>1. stored(cmd, mem[r])
  BY SenseRow, Zenon DEF AAP
<1>2. Opened(cmd, "D") = {1, 2} /\ Opened(cmd, "B") = {}
  BY DEF Opened, AAP, D
<1>3. cmd[1].row = r /\ cmd[2].row = r
  BY Zenon DEF AAP, D
<1> HIDE DEF cmd
<1>4. {cmd[i].row : i \in Opened(cmd, "D")} = {r}
  BY <1>2, <1>3
<1>5. mem' = [q \in DOMAIN mem |-> IF q \in {r} THEN mem[r] ELSE mem[q]]
  BY <1>1, <1>4, Zenon DEF stored
<1>6. mem' = mem
  BY <1>5 DEF Types
<1>7. cells' = [x \in Cells |->
        IF \E i \in {} : x \in cmd[i].plain THEN mem[r]
        ELSE IF \E i \in {} : x \in cmd[i].negated THEN [c \in Columns |-> ~mem[r][c]]
        ELSE cells[x]]
  BY <1>1, <1>2, Zenon DEF stored
<1>8. cells' = cells
  BY <1>7, Zenon DEF Types
<1> QED BY <1>6, <1>8 DEF Types

----------------------------------------------------------------------------
(* The invariant: what the cells hold when the commands todo are left *)

\* The bits of u that v does not have.
OneOnly(u, v) == [c \in Columns |-> u[c] /\ ~v[c]]

\* ROWAND and ROWOR, with the constant b.
InMaj(p, b) ==
  LET A == mem[p.src1]
      E == mem[p.src2]
      last == AAP(B_T0_T1_T2, D(p.dest))
  IN  \/ todo = <<AAP(D(p.src1), B_T0), AAP(D(p.src2), B_T1), AAP(C(b), B_T2), last>>
      \/ /\ todo = <<AAP(D(p.src2), B_T1), AAP(C(b), B_T2), last>>
         /\ cells["T0"] = A
      \/ /\ todo = <<AAP(C(b), B_T2), last>>
         /\ cells["T0"] = A /\ cells["T1"] = E
      \/ /\ todo = <<last>>
         /\ cells["T0"] = A /\ cells["T1"] = E /\ cells["T2"] = Const(b)

\* ROWNOT.
InNot(p) ==
  \/ todo = <<AAP(D(p.src1), B_DCC0N), AAP(B_DCC0, D(p.dest))>>
  \/ todo = <<AAP(B_DCC0, D(p.dest))>> /\ cells["DCC0"] = Neg(mem[p.src1])

\* ROWXOR.
InXor(p) ==
  LET A == mem[p.src1]
      E == mem[p.src2]
      c2 == AAP(D(p.src2), B_DCC1N_T1)
      c3 == AAP(C_0, B_T2_T3)
      c4 == AP(B_DCC0_T1_T2)
      c5 == AP(B_DCC1_T0_T3)
      c6 == AAP(C_1, B_T2)
      c7 == AAP(B_T0_T1_T2, D(p.dest))
  IN  \/ todo = <<AAP(D(p.src1), B_DCC0N_T0), c2, c3, c4, c5, c6, c7>>
      \/ /\ todo = <<c2, c3, c4, c5, c6, c7>>
         /\ cells["T0"] = A /\ cells["DCC0"] = Neg(A)
      \/ /\ todo = <<c3, c4, c5, c6, c7>>
         /\ cells["T0"] = A /\ cells["DCC0"] = Neg(A)
         /\ cells["T1"] = E /\ cells["DCC1"] = Neg(E)
      \/ /\ todo = <<c4, c5, c6, c7>>
         /\ cells["T0"] = A /\ cells["DCC0"] = Neg(A)
         /\ cells["T1"] = E /\ cells["DCC1"] = Neg(E)
         /\ cells["T2"] = Const(FALSE) /\ cells["T3"] = Const(FALSE)
      \/ /\ todo = <<c5, c6, c7>>
         /\ cells["T0"] = A /\ cells["T1"] = OneOnly(E, A)
         /\ cells["DCC1"] = Neg(E) /\ cells["T3"] = Const(FALSE)
      \/ /\ todo = <<c6, c7>>
         /\ cells["T0"] = OneOnly(A, E) /\ cells["T1"] = OneOnly(E, A)
      \/ /\ todo = <<c7>>
         /\ cells["T0"] = OneOnly(A, E) /\ cells["T1"] = OneOnly(E, A)
         /\ cells["T2"] = Const(TRUE)

\* The row operation p is at one of its commands.
Progress(p) ==
  \/ p.op = "ROWAND" /\ InMaj(p, FALSE)
  \/ p.op = "ROWOR" /\ InMaj(p, TRUE)
  \/ p.op = "ROWNOT" /\ InNot(p)
  \/ p.op = "ROWXOR" /\ InXor(p)
  \/ p.op = "ROWAP" /\ todo = <<AP(B_T0_T1_T2)>>
  \/ p.op = "ROWAAP" /\ todo = <<AAP(D(Row0), D(Row0))>>

\* The inductive invariant.
Inv ==
  /\ Types
  /\ \/ pkt = NoPkt /\ todo = <<>>
     \/ \E p \in RowOpPayload : pkt = p /\ Progress(p)

\* A row operation starts with all of its commands to be issued.
LEMMA StartsRight ==
  ASSUME NEW p \in RowOpPayload, Types, UNCHANGED <<mem, cells>>, todo' = rowOpCommands(p)
  PROVE  Progress(p)'
<1>0. p.op \in RowOps
  BY DEF RowOpPayload
<1>1. CASE p.op = "ROWAND"
  <2>1. rowOpCommands(p) = <<AAP(D(p.src1), B_T0), AAP(D(p.src2), B_T1), AAP(C_0, B_T2),
           AAP(B_T0_T1_T2, D(p.dest))>>
    BY <1>1, Zenon DEF rowOpCommands
  <2> QED BY <1>1, <2>1, Zenon DEF Progress, InMaj, C_0
<1>2. CASE p.op = "ROWOR"
  <2>1. rowOpCommands(p) = <<AAP(D(p.src1), B_T0), AAP(D(p.src2), B_T1), AAP(C_1, B_T2),
           AAP(B_T0_T1_T2, D(p.dest))>>
    BY <1>2, Zenon DEF rowOpCommands
  <2> QED BY <1>2, <2>1, Zenon DEF Progress, InMaj, C_1
<1>3. CASE p.op = "ROWNOT"
  <2>1. rowOpCommands(p) = <<AAP(D(p.src1), B_DCC0N), AAP(B_DCC0, D(p.dest))>>
    BY <1>3, Zenon DEF rowOpCommands
  <2> QED BY <1>3, <2>1, Zenon DEF Progress, InNot
<1>4. CASE p.op = "ROWXOR"
  <2>1. rowOpCommands(p) = <<AAP(D(p.src1), B_DCC0N_T0), AAP(D(p.src2), B_DCC1N_T1),
           AAP(C_0, B_T2_T3), AP(B_DCC0_T1_T2), AP(B_DCC1_T0_T3), AAP(C_1, B_T2),
           AAP(B_T0_T1_T2, D(p.dest))>>
    BY <1>4, Zenon DEF rowOpCommands, clearForXor
  <2> QED BY <1>4, <2>1, Zenon DEF Progress, InXor
<1>5. CASE p.op = "ROWAP"
  <2>1. rowOpCommands(p) = <<AP(B_T0_T1_T2)>>
    BY <1>5, Zenon DEF rowOpCommands
  <2> QED BY <1>5, <2>1, Zenon DEF Progress
<1>6. CASE p.op = "ROWAAP"
  <2>1. rowOpCommands(p) = <<AAP(D(Row0), D(Row0))>>
    BY <1>6, Zenon DEF rowOpCommands
  <2> QED BY <1>6, <2>1, Zenon DEF Progress
<1> QED BY <1>0, <1>1, <1>2, <1>3, <1>4, <1>5, <1>6, RowOpAssumption, Zenon

\* A command of ROWAND (b = FALSE) or ROWOR (b = TRUE) leads to the next stage, or
\* it is the last and writes the majority of the operands and b.
LEMMA MajStep ==
  ASSUME Types, NEW p \in RowOpPayload, NEW b \in BOOLEAN, InMaj(p, b), Command
  PROVE  /\ Types'
         /\ \/ mem' = mem /\ todo' # <<>> /\ InMaj(p, b)'
            \/ /\ todo' = <<>>
               /\ mem' = [mem EXCEPT ![p.dest] = Maj(mem[p.src1], mem[p.src2], Const(b))]
<1> DEFINE last == AAP(B_T0_T1_T2, D(p.dest))
           c1 == AAP(D(p.src1), B_T0)
           c2 == AAP(D(p.src2), B_T1)
           c3 == AAP(C(b), B_T2)
<1>0. p.src1 \in Rows /\ p.src2 \in Rows /\ p.dest \in Rows
  BY DEF RowOpPayload
<1> HIDE DEF last, c1, c2, c3
<1>1. CASE todo = <<c1, c2, c3, last>>
  <2>1. stored(c1, sensed(c1[1])) /\ todo' = <<c2, c3, last>>
    BY <1>1, Issue4, Zenon
  <2>2. mem' = mem /\ Types' /\ cells'["T0"] = mem[p.src1]
    <3>1. /\ mem' = mem /\ Types'
          /\ Loaded(mem[p.src1], {"T0"}, {})
      BY <1>0, <2>1, LoadRow, Zenon DEF c1, B_T0
    <3> QED BY <3>1, Zenon DEF Cells, Loaded
  <2>3. todo' # <<>>
    BY <2>1, Zenon
  <2> QED BY <2>1, <2>2, <2>3, Zenon DEF InMaj, last, c2, c3
<1>2. CASE todo = <<c2, c3, last>> /\ cells["T0"] = mem[p.src1]
  <2>1. stored(c2, sensed(c2[1])) /\ todo' = <<c3, last>>
    BY <1>2, Issue3, Zenon
  <2>2. mem' = mem /\ Types' /\ cells'["T0"] = mem[p.src1] /\ cells'["T1"] = mem[p.src2]
    <3>1. /\ mem' = mem /\ Types'
          /\ Loaded(mem[p.src2], {"T1"}, {})
      BY <1>0, <2>1, LoadRow, Zenon DEF c2, B_T1
    <3> QED BY <1>2, <3>1, Zenon DEF Cells, Loaded
  <2>3. todo' # <<>>
    BY <2>1
  <2> QED BY <2>1, <2>2, <2>3, Zenon DEF InMaj, last, c3
<1>3. CASE todo = <<c3, last>> /\ cells["T0"] = mem[p.src1] /\ cells["T1"] = mem[p.src2]
  <2>1. stored(c3, sensed(c3[1])) /\ todo' = <<last>>
    BY <1>3, Issue2, Zenon
  <2>2. /\ mem' = mem /\ Types' /\ cells'["T0"] = mem[p.src1] /\ cells'["T1"] = mem[p.src2]
        /\ cells'["T2"] = Const(b)
    <3>1. /\ mem' = mem /\ Types'
          /\ \A x \in Cells : cells'[x] = IF x \in {"T2"} THEN Const(b) ELSE cells[x]
      BY <2>1, LoadConst, Zenon DEF c3, B_T2
    <3> QED BY <1>3, <3>1, Zenon DEF Cells
  <2>3. todo' # <<>>
    BY <2>1, Zenon
  <2> QED BY <2>1, <2>2, <2>3, Zenon DEF InMaj, last
<1>4. CASE /\ todo = <<last>> /\ cells["T0"] = mem[p.src1] /\ cells["T1"] = mem[p.src2]
           /\ cells["T2"] = Const(b)
  <2>1. stored(last, sensed(last[1])) /\ todo' = <<>>
    BY <1>4, Issue1, Zenon
  <2>2. mem' = [mem EXCEPT ![p.dest] = Maj(cells["T0"], cells["T1"], cells["T2"])] /\ Types'
    BY <1>0, <2>1, StoreTrio, Zenon DEF last
  <2> QED BY <1>4, <2>1, <2>2, Zenon
<1> QED BY <1>1, <1>2, <1>3, <1>4, Zenon DEF InMaj, last, c1, c2, c3

\* The same for ROWNOT, which writes the complement.
LEMMA NotStep ==
  ASSUME Types, NEW p \in RowOpPayload, InNot(p), Command
  PROVE  /\ Types'
         /\ \/ mem' = mem /\ todo' # <<>> /\ InNot(p)'
            \/ todo' = <<>> /\ mem' = [mem EXCEPT ![p.dest] = Neg(mem[p.src1])]
<1> DEFINE c1 == AAP(D(p.src1), B_DCC0N)
           c2 == AAP(B_DCC0, D(p.dest))
<1>0. p.src1 \in Rows /\ p.dest \in Rows
  BY Zenon DEF RowOpPayload
<1> HIDE DEF c1, c2
<1>1. CASE todo = <<c1, c2>>
  <2>1. stored(c1, sensed(c1[1])) /\ todo' = <<c2>>
    BY <1>1, Issue2, Zenon
  <2>2. mem' = mem /\ Types' /\ cells'["DCC0"] = Neg(mem[p.src1])
    <3>1. /\ mem' = mem /\ Types'
          /\ Loaded(mem[p.src1], {}, {"DCC0"})
      BY <1>0, <2>1, LoadRow, Zenon DEF c1, B_DCC0N
    <3> QED BY <3>1, Zenon DEF Cells, Loaded
  <2>3. todo' # <<>>
    BY <2>1, Zenon
  <2> QED BY <2>1, <2>2, <2>3, Zenon DEF InNot, c2
<1>2. CASE todo = <<c2>> /\ cells["DCC0"] = Neg(mem[p.src1])
  <2>1. stored(c2, sensed(c2[1])) /\ todo' = <<>>
    BY <1>2, Issue1, Zenon
  <2>2. mem' = [mem EXCEPT ![p.dest] = cells["DCC0"]] /\ Types'
    BY <1>0, <2>1, StoreCell, Zenon DEF c2, B_DCC0, Cells
  <2> QED BY <1>2, <2>1, <2>2, Zenon
<1> QED BY <1>1, <1>2, Zenon DEF InNot, c1, c2

\* The Boolean operations that the majorities of the sequences compute.
LEMMA Majorities ==
  ASSUME NEW u \in Row, NEW v \in Row
  PROVE  /\ Maj(Neg(u), v, Const(FALSE)) = OneOnly(v, u)
         /\ Maj(OneOnly(u, v), OneOnly(v, u), Const(TRUE))
              = [c \in Columns |-> (u[c] \/ v[c]) /\ ~(u[c] /\ v[c])]
         /\ Maj(u, v, Const(FALSE)) = [c \in Columns |-> u[c] /\ v[c]]
         /\ Maj(u, v, Const(TRUE)) = [c \in Columns |-> u[c] \/ v[c]]
BY Zenon DEF Row, Maj, Neg, Const, OneOnly

\* The same for ROWXOR.  The two triple-row activations in the middle leave the
\* bits that only one of the operands has in T0 and T1.
LEMMA XorStep ==
  ASSUME Types, NEW p \in RowOpPayload, InXor(p), Command
  PROVE  /\ Types'
         /\ \/ mem' = mem /\ todo' # <<>> /\ InXor(p)'
            \/ /\ todo' = <<>>
               /\ mem' = [mem EXCEPT ![p.dest] =
                    Maj(OneOnly(mem[p.src1], mem[p.src2]), OneOnly(mem[p.src2], mem[p.src1]),
                        Const(TRUE))]
<1> DEFINE A  == mem[p.src1]
           E  == mem[p.src2]
           c1 == AAP(D(p.src1), B_DCC0N_T0)
           c2 == AAP(D(p.src2), B_DCC1N_T1)
           c3 == AAP(C_0, B_T2_T3)
           c4 == AP(B_DCC0_T1_T2)
           c5 == AP(B_DCC1_T0_T3)
           c6 == AAP(C_1, B_T2)
           c7 == AAP(B_T0_T1_T2, D(p.dest))
<1>0. p.src1 \in Rows /\ p.src2 \in Rows /\ p.dest \in Rows
  BY Zenon DEF RowOpPayload
<1>a. A \in Row /\ E \in Row
  BY <1>0, Zenon DEF Types
<1> HIDE DEF A, E, c1, c2, c3, c4, c5, c6, c7
<1>1. CASE todo = <<c1, c2, c3, c4, c5, c6, c7>>
  <2>1. stored(c1, sensed(c1[1])) /\ todo' = <<c2, c3, c4, c5, c6, c7>>
    BY <1>1, Issue7, Zenon
  <2>2. mem' = mem /\ Types' /\ cells'["T0"] = A /\ cells'["DCC0"] = Neg(A)
    <3>1. /\ mem' = mem /\ Types'
          /\ Loaded(mem[p.src1], {"T0"}, {"DCC0"})
      BY <1>0, <2>1, LoadRow, Zenon DEF c1, B_DCC0N_T0
    <3> QED BY <3>1, Zenon DEF Cells, A, Loaded
  <2>3. todo' # <<>>
    BY <2>1
  <2> QED BY <2>1, <2>2, <2>3, Zenon DEF InXor, A, c2, c3, c4, c5, c6, c7
<1>2. CASE /\ todo = <<c2, c3, c4, c5, c6, c7>>
           /\ cells["T0"] = A /\ cells["DCC0"] = Neg(A)
  <2>1. stored(c2, sensed(c2[1])) /\ todo' = <<c3, c4, c5, c6, c7>>
    BY <1>2, Issue6, Zenon
  <2>2. /\ mem' = mem /\ Types' /\ cells'["T0"] = A /\ cells'["DCC0"] = Neg(A)
        /\ cells'["T1"] = E /\ cells'["DCC1"] = Neg(E)
    <3>1. /\ mem' = mem /\ Types'
          /\ Loaded(mem[p.src2], {"T1"}, {"DCC1"})
      BY <1>0, <2>1, LoadRow, Zenon DEF c2, B_DCC1N_T1
    <3> QED BY <1>2, <3>1, Zenon DEF Cells, E, Loaded
  <2>3. todo' # <<>>
    BY <2>1
  <2> QED BY <2>1, <2>2, <2>3, Zenon DEF InXor, A, E, c3, c4, c5, c6, c7
<1>3. CASE /\ todo = <<c3, c4, c5, c6, c7>>
           /\ cells["T0"] = A /\ cells["DCC0"] = Neg(A)
           /\ cells["T1"] = E /\ cells["DCC1"] = Neg(E)
  <2>1. stored(c3, sensed(c3[1])) /\ todo' = <<c4, c5, c6, c7>>
    BY <1>3, Issue5, Zenon
  <2>2. /\ mem' = mem /\ Types' /\ cells'["T0"] = A /\ cells'["DCC0"] = Neg(A)
        /\ cells'["T1"] = E /\ cells'["DCC1"] = Neg(E)
        /\ cells'["T2"] = Const(FALSE) /\ cells'["T3"] = Const(FALSE)
    <3>1. /\ mem' = mem /\ Types'
          /\ \A x \in Cells : cells'[x] = IF x \in {"T2", "T3"} THEN Const(FALSE) ELSE cells[x]
      BY <2>1, LoadConst, Zenon DEF c3, C_0, B_T2_T3
    <3> QED BY <1>3, <3>1, Zenon DEF Cells
  <2>3. todo' # <<>>
    BY <2>1, Zenon
  <2> QED BY <2>1, <2>2, <2>3, Zenon DEF InXor, A, E, c4, c5, c6, c7
<1>4. CASE /\ todo = <<c4, c5, c6, c7>>
           /\ cells["T0"] = A /\ cells["DCC0"] = Neg(A)
           /\ cells["T1"] = E /\ cells["DCC1"] = Neg(E)
           /\ cells["T2"] = Const(FALSE) /\ cells["T3"] = Const(FALSE)
  <2>1. stored(c4, sensed(c4[1])) /\ todo' = <<c5, c6, c7>>
    BY <1>4, Issue4, Zenon
  <2>2. /\ mem' = mem /\ Types' /\ cells'["T0"] = A /\ cells'["T1"] = Maj(Neg(A), E, Const(FALSE))
        /\ cells'["DCC1"] = Neg(E) /\ cells'["T3"] = Const(FALSE)
    <3>1. {"DCC0", "T1", "T2"} \subseteq Cells
      BY Zenon DEF Cells
    <3>2. /\ mem' = mem /\ Types'
          /\ \A x \in Cells : cells'[x] = IF x \in {"DCC0", "T1", "T2"}
               THEN Maj(cells["DCC0"], cells["T1"], cells["T2"]) ELSE cells[x]
      BY <2>1, <3>1, Combine DEF c4, B_DCC0_T1_T2
    <3> QED BY <1>4, <3>2, Zenon DEF Cells
  <2>3. todo' # <<>>
    BY <2>1
  <2>4. cells'["T1"] = OneOnly(E, A)
    BY <1>a, <2>2, Majorities, Zenon
  <2> QED BY <2>1, <2>2, <2>3, <2>4, Zenon DEF InXor, A, E, c5, c6, c7
<1>5. CASE /\ todo = <<c5, c6, c7>>
           /\ cells["T0"] = A /\ cells["T1"] = OneOnly(E, A)
           /\ cells["DCC1"] = Neg(E) /\ cells["T3"] = Const(FALSE)
  <2>1. stored(c5, sensed(c5[1])) /\ todo' = <<c6, c7>>
    BY <1>5, Issue3, Zenon
  <2>2. /\ mem' = mem /\ Types' /\ cells'["T0"] = Maj(Neg(E), A, Const(FALSE))
        /\ cells'["T1"] = OneOnly(E, A)
    <3>1. {"DCC1", "T0", "T3"} \subseteq Cells
      BY DEF Cells
    <3>2. /\ mem' = mem /\ Types'
          /\ \A x \in Cells : cells'[x] = IF x \in {"DCC1", "T0", "T3"}
               THEN Maj(cells["DCC1"], cells["T0"], cells["T3"]) ELSE cells[x]
      BY <2>1, <3>1, Combine DEF c5, B_DCC1_T0_T3
    <3> QED BY <1>5, <3>2, Zenon DEF Cells
  <2>3. todo' # <<>>
    BY <2>1, Zenon
  <2>4. cells'["T0"] = OneOnly(A, E)
    BY <1>a, <2>2, Majorities, Zenon
  <2> QED BY <2>1, <2>2, <2>3, <2>4, Zenon DEF InXor, A, E, c6, c7
<1>6. CASE /\ todo = <<c6, c7>>
           /\ cells["T0"] = OneOnly(A, E) /\ cells["T1"] = OneOnly(E, A)
  <2>1. stored(c6, sensed(c6[1])) /\ todo' = <<c7>>
    BY <1>6, Issue2, Zenon
  <2>2. /\ mem' = mem /\ Types' /\ cells'["T0"] = OneOnly(A, E)
        /\ cells'["T1"] = OneOnly(E, A) /\ cells'["T2"] = Const(TRUE)
    BY <1>6, <2>1, LoadConst, Zenon DEF c6, C_1, B_T2, Cells
  <2>3. todo' # <<>>
    BY <2>1
  <2> QED BY <2>1, <2>2, <2>3, Zenon DEF InXor, A, E, c7
<1>7. CASE /\ todo = <<c7>>
           /\ cells["T0"] = OneOnly(A, E) /\ cells["T1"] = OneOnly(E, A)
           /\ cells["T2"] = Const(TRUE)
  <2>1. stored(c7, sensed(c7[1])) /\ todo' = <<>>
    BY <1>7, Issue1, Zenon
  <2>2. mem' = [mem EXCEPT ![p.dest] = Maj(cells["T0"], cells["T1"], cells["T2"])] /\ Types'
    BY <1>0, <2>1, StoreTrio, Zenon DEF c7
  <2> QED BY <1>7, <2>1, <2>2, Zenon DEF A, E
<1> QED BY <1>1, <1>2, <1>3, <1>4, <1>5, <1>6, <1>7, Zenon
        DEF InXor, A, E, c1, c2, c3, c4, c5, c6, c7

\* Every command but the last leaves the data rows as they are, and the last does
\* what AbstractMemory::access does.
LEMMA CommandStep ==
  ASSUME Types, NEW p \in RowOpPayload, pkt = p, Progress(p), Command
  PROVE  /\ Types'
         /\ \/ mem' = mem /\ pkt' = p /\ Progress(p)'
            \/ todo' = <<>> /\ pkt' = NoPkt /\ FunctionalMemory!access
<1>0. /\ p.op \in RowOps /\ p.src1 \in Rows /\ p.src2 \in Rows
      /\ mem[p.src1] \in Row /\ mem[p.src2] \in Row
  BY Zenon DEF RowOpPayload, Types
<1>1. p # NoPkt /\ NoPkt = FunctionalMemory!NoPkt
  BY <1>0, RowOpAssumption DEF NoPkt, FunctionalMemory!NoPkt
<1>2. (todo' # <<>> => pkt' = p) /\ (todo' = <<>> => pkt' = NoPkt)
  BY Zenon DEF Command
<1> DEFINE result == [c \in Columns |->
             FunctionalMemory!bit(p.op, mem[p.src1][c], mem[p.src2][c])]
<1>3. ASSUME p.op \notin {"ROWAP", "ROWAAP"}, todo' = <<>>,
             mem' = [mem EXCEPT ![p.dest] = result]
      PROVE  FunctionalMemory!access
  BY <1>1, <1>2, <1>3, Zenon DEF FunctionalMemory!access, FunctionalMemory!ComputesNothing
<1>4. ASSUME p.op \in {"ROWAP", "ROWAAP"}, todo' = <<>>, mem' = mem
      PROVE  FunctionalMemory!access
  BY <1>1, <1>2, <1>4, Zenon DEF FunctionalMemory!access, FunctionalMemory!ComputesNothing
<1>5. CASE p.op = "ROWAND" /\ InMaj(p, FALSE)
  <2>1. result = Maj(mem[p.src1], mem[p.src2], Const(FALSE))
    <3>1. result = [c \in Columns |-> mem[p.src1][c] /\ mem[p.src2][c]]
      BY <1>5, Zenon DEF FunctionalMemory!bit
    <3>2. Maj(mem[p.src1], mem[p.src2], Const(FALSE))
            = [c \in Columns |-> mem[p.src1][c] /\ mem[p.src2][c]]
      BY <1>0, Majorities, ZenonT(30)
    <3> QED BY <3>1, <3>2, Zenon
  <2> HIDE DEF result
  <2>2. Types' /\ \/ mem' = mem /\ todo' # <<>> /\ InMaj(p, FALSE)'
                  \/ todo' = <<>> /\ mem' = [mem EXCEPT ![p.dest] = result]
    BY <1>5, <2>1, MajStep, Zenon
  <2>3. p.op \notin {"ROWAP", "ROWAAP"}
    BY <1>5, Zenon
  <2> QED BY <1>2, <1>3, <1>5, <2>2, <2>3, Zenon DEF Progress
<1>6. CASE p.op = "ROWOR" /\ InMaj(p, TRUE)
  <2>1. result = Maj(mem[p.src1], mem[p.src2], Const(TRUE))
    <3>1. result = [c \in Columns |-> mem[p.src1][c] \/ mem[p.src2][c]]
      BY <1>6, Zenon DEF FunctionalMemory!bit
    <3>2. Maj(mem[p.src1], mem[p.src2], Const(TRUE))
            = [c \in Columns |-> mem[p.src1][c] \/ mem[p.src2][c]]
      BY <1>0, Majorities, ZenonT(30)
    <3> QED BY <3>1, <3>2, Zenon
  <2> HIDE DEF result
  <2>2. Types' /\ \/ mem' = mem /\ todo' # <<>> /\ InMaj(p, TRUE)'
                  \/ todo' = <<>> /\ mem' = [mem EXCEPT ![p.dest] = result]
    BY <1>6, <2>1, MajStep, Zenon
  <2>3. p.op \notin {"ROWAP", "ROWAAP"}
    BY <1>6, Zenon
  <2> QED BY <1>2, <1>3, <1>6, <2>2, <2>3, Zenon DEF Progress
<1>7. CASE p.op = "ROWNOT" /\ InNot(p)
  <2>1. result = Neg(mem[p.src1])
    BY <1>7, Zenon DEF FunctionalMemory!bit, Neg
  <2> HIDE DEF result
  <2>2. Types' /\ \/ mem' = mem /\ todo' # <<>> /\ InNot(p)'
                  \/ todo' = <<>> /\ mem' = [mem EXCEPT ![p.dest] = result]
    BY <1>7, <2>1, NotStep, Zenon
  <2>3. p.op \notin {"ROWAP", "ROWAAP"}
    BY <1>7, Zenon
  <2> QED BY <1>2, <1>3, <1>7, <2>2, <2>3, Zenon DEF Progress
<1>8. CASE p.op = "ROWXOR" /\ InXor(p)
  <2>1. result = Maj(OneOnly(mem[p.src1], mem[p.src2]),
                     OneOnly(mem[p.src2], mem[p.src1]), Const(TRUE))
    <3>1. result = [c \in Columns |-> (mem[p.src1][c] \/ mem[p.src2][c]) /\ ~(mem[p.src1][c] /\ mem[p.src2][c])]
      BY <1>8, Zenon DEF FunctionalMemory!bit
    <3>2. Maj(OneOnly(mem[p.src1], mem[p.src2]),
                     OneOnly(mem[p.src2], mem[p.src1]), Const(TRUE))
            = [c \in Columns |-> (mem[p.src1][c] \/ mem[p.src2][c]) /\ ~(mem[p.src1][c] /\ mem[p.src2][c])]
      BY <1>0, Majorities, ZenonT(30)
    <3> QED BY <3>1, <3>2, Zenon
  <2> HIDE DEF result
  <2>2. Types' /\ \/ mem' = mem /\ todo' # <<>> /\ InXor(p)'
                  \/ todo' = <<>> /\ mem' = [mem EXCEPT ![p.dest] = result]
    BY <1>8, <2>1, XorStep, Zenon
  <2>3. p.op \notin {"ROWAP", "ROWAAP"}
    BY <1>8, Zenon
  <2> QED BY <1>2, <1>3, <1>8, <2>2, <2>3, Zenon DEF Progress
<1>9. CASE p.op = "ROWAP" /\ todo = <<AP(B_T0_T1_T2)>>
  <2>1. stored(AP(B_T0_T1_T2), sensed(AP(B_T0_T1_T2)[1])) /\ todo' = <<>>
    BY <1>9, Issue1, Zenon
  <2>2. mem' = mem /\ Types'
    BY <2>1, CombineTrio, Zenon
  <2> QED BY <1>2, <1>4, <1>9, <2>1, <2>2, Zenon
<1>10. CASE p.op = "ROWAAP" /\ todo = <<AAP(D(Row0), D(Row0))>>
  <2>1. stored(AAP(D(Row0), D(Row0)), sensed(AAP(D(Row0), D(Row0))[1])) /\ todo' = <<>>
    BY <1>10, Issue1, Zenon
  <2>2. mem' = mem /\ Types'
    BY <2>1, Placeholder, RowOpAssumption, Zenon
  <2> QED BY <1>2, <1>4, <1>10, <2>1, <2>2, Zenon
<1> QED BY <1>5, <1>6, <1>7, <1>8, <1>9, <1>10, Zenon DEF Progress

\* A step that changes nothing stays in the stage.
LEMMA Stutters ==
  ASSUME NEW p \in RowOpPayload, Progress(p), mem' = mem, cells' = cells, todo' = todo
  PROVE  Progress(p)'
<1>1. CASE p.op = "ROWAND" /\ InMaj(p, FALSE)
  BY <1>1, Zenon DEF Progress, InMaj
<1>2. CASE p.op = "ROWOR" /\ InMaj(p, TRUE)
  BY <1>2, Zenon DEF Progress, InMaj
<1>3. CASE p.op = "ROWNOT" /\ InNot(p)
  BY <1>3, Zenon DEF Progress, InNot
<1>4. CASE p.op = "ROWXOR" /\ InXor(p)
  BY <1>4, Zenon DEF Progress, InXor
<1>5. CASE p.op = "ROWAP" /\ todo = <<AP(B_T0_T1_T2)>>
  <2>1. todo' = <<AP(B_T0_T1_T2)>>
    BY <1>5, Zenon
  <2> QED BY <1>5, <2>1, Zenon DEF Progress
<1>6. CASE p.op = "ROWAAP" /\ todo = <<AAP(D(Row0), D(Row0))>>
  <2>1. todo' = <<AAP(D(Row0), D(Row0))>>
    BY <1>6, Zenon
  <2> QED BY <1>6, <2>1, Zenon DEF Progress
<1> QED BY <1>1, <1>2, <1>3, <1>4, <1>5, <1>6, Zenon DEF Progress

\* Between two commands of a row operation the B-group holds what the commands
\* still to be issued rely on (doDRAMAccess, dram_ctrl.cc), for any number of rows
\* and columns, any contents and any aliasing of the operands.
THEOREM RowOpInvariant == Spec => []Inv
<1>1. Init => Inv
  BY Zenon DEF Init, Inv, Types
<1>2. Inv /\ [Next]_vars => Inv'
  <2> SUFFICES ASSUME Inv, [Next]_vars PROVE Inv'
    BY Zenon
  <2>1. ASSUME NEW p \in RowOpPayload, Start(p) PROVE Inv'
    <3>1. Types' /\ pkt' = p
      BY <2>1, Zenon DEF Start, Inv, Types
    <3>2. Progress(p)'
      BY <2>1, StartsRight, Zenon DEF Start, Inv
    <3> QED BY <3>1, <3>2, Zenon DEF Inv
  <2>2. CASE Command
    <3>1. PICK p \in RowOpPayload : pkt = p /\ Progress(p)
      BY <2>2, Zenon DEF Command, Inv
    <3>2. CASE mem' = mem /\ pkt' = p /\ Progress(p)'
      BY <2>2, <3>1, <3>2, CommandStep, Zenon DEF Inv
    <3>3. CASE todo' = <<>> /\ pkt' = NoPkt
      BY <2>2, <3>1, <3>3, CommandStep, Zenon DEF Inv
    <3> QED BY <2>2, <3>1, <3>2, <3>3, CommandStep, Zenon DEF Inv
  <2>3. ASSUME NEW r \in Rows, NEW v \in Row, Write(r, v) PROVE Inv'
    <3>1. pkt # NoPkt \/ todo = <<>>
      <4>1. ASSUME NEW p \in RowOpPayload PROVE p # NoPkt
        BY RowOpAssumption DEF RowOpPayload, NoPkt
      <4> QED BY <4>1, Zenon DEF Inv
    <3> QED BY <2>3, <3>1, Zenon DEF Write, Inv, Types
  <2>4. CASE UNCHANGED vars
    <3>1. mem' = mem /\ cells' = cells /\ todo' = todo /\ pkt' = pkt
      BY <2>4, Zenon DEF vars
    <3>2. CASE pkt = NoPkt /\ todo = <<>>
      BY <3>1, <3>2, Zenon DEF Inv, Types
    <3>3. ASSUME NEW p \in RowOpPayload, pkt = p, Progress(p) PROVE Inv'
      <4>1. Progress(p)'
        BY <3>1, <3>3, Stutters, Zenon
      <4> QED BY <3>1, <3>3, <4>1, Zenon DEF Inv, Types
    <3> QED BY <3>2, <3>3, Zenon DEF Inv
  <2> QED BY <2>1, <2>2, <2>3, <2>4, Zenon DEF Next
<1> QED BY <1>1, <1>2, PTL DEF Spec

\* For any number of rows and columns, the commands of every row operation
\* (doDRAMAccess, dram_ctrl.cc) change the data rows in one step, the one that
\* AbstractMemory::access takes (abstract_mem.cc:337-379).
THEOREM RowOpsComputed == Spec => ComputesRowOp
<1>1. Init => FunctionalMemory!Init
  BY Zenon DEF Init, FunctionalMemory!Init, NoPkt, FunctionalMemory!NoPkt, Row, FunctionalMemory!Row
<1>2. Inv /\ [Next]_vars => [FunctionalMemory!Next]_(FunctionalMemory!vars)
  <2> SUFFICES ASSUME Inv, [Next]_vars
               PROVE  FunctionalMemory!Next \/ UNCHANGED FunctionalMemory!vars
    BY Zenon
  <2>0. NoPkt = FunctionalMemory!NoPkt
    BY Zenon DEF NoPkt, FunctionalMemory!NoPkt
  <2>1. ASSUME NEW p \in RowOpPayload, Start(p) PROVE FunctionalMemory!Next
    BY <2>0, <2>1, Zenon DEF Start, FunctionalMemory!Next, FunctionalMemory!receive,
         RowOpPayload, FunctionalMemory!RowOpPayload
  <2>2. ASSUME Command PROVE FunctionalMemory!Next \/ UNCHANGED FunctionalMemory!vars
    <3>1. PICK p \in RowOpPayload : pkt = p /\ Progress(p)
      BY <2>2, Zenon DEF Command, Inv
    <3>2. (mem' = mem /\ pkt' = pkt) \/ FunctionalMemory!access
      BY <2>2, <3>1, CommandStep, Zenon DEF Inv
    <3> QED BY <3>2, Zenon DEF FunctionalMemory!Next, FunctionalMemory!vars
  <2>3. ASSUME NEW r \in Rows, NEW v \in Row, Write(r, v) PROVE FunctionalMemory!Next
    BY <2>0, <2>3, Zenon DEF Write, FunctionalMemory!Next, FunctionalMemory!write,
         Row, FunctionalMemory!Row
  <2>4. CASE UNCHANGED vars
    BY <2>4, Zenon DEF vars, FunctionalMemory!vars
  <2> QED BY <2>1, <2>2, <2>3, <2>4, Zenon DEF Next
<1> QED BY <1>1, <1>2, RowOpInvariant, PTL DEF Spec, ComputesRowOp, FunctionalMemory!Spec

=============================================================================
