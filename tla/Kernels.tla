------------------------------- MODULE Kernels -------------------------------
(***************************************************************************)
(* The bit-serial kernels (microworkloads/NN_name-plus.c): programs of AAP *)
(* and AP commands on the subarray.  Operand bit j of every value lies in  *)
(* row j of an array of rows, so that one column of the subarray computes  *)
(* one value.  Loops over the rows of a vector only repeat a command for   *)
(* other columns and are left out; the loop that runs the kernel twice is  *)
(* kept, because the second pass starts from what the first one left.      *)
(***************************************************************************)
EXTENDS Subarray, Integers, SequencesExt

CONSTANTS
  Programs,       \* the kernels to run
  Lengths,        \* their values of col_length
  CountLengths    \* the values of col_length for the bit counts

VARIABLES
  main,     \* the program, its arguments and the operands it was given
  iter,     \* passes over the kernel that are complete
  pc        \* the next command of this pass

vars == <<main, iter, pc, mem, cells>>

\* The rows of the program's arrays.
vals1(j)   == D(<<"vals1", j>>)
vals2(j)   == D(<<"vals2", j>>)
output(j)  == D(<<"output", j>>)
carries(j) == D(<<"carries", j>>)
rest(j)    == D(<<"rest", j>>)
tmp(j)     == D(<<"tmp", j>>)
s          == D(<<"s", 0>>)      \* the selection bits, sign or m of a kernel

AAP_VECTORS(dst, src) == AAP(src, dst)
AP_VECTOR(dst)        == AP(dst)

\* for (j = from; j < to; j += step) Body(j)
For(from, to, step, Body(_)) ==
  FlattenSeq([i \in 1 .. ((to - from + step - 1) \div step) |->
                Body(from + (i - 1) * step)])

----------------------------------------------------------------------------
(* Steps that several kernels share *)

\* Sum of v1, v2 and the carry in B_DCC1, which becomes the carry out.
KeepsCarryIn(v1, v2, out) ==  \* mutant
  <<AAP_VECTORS(B_T0_T1_T2, B_DCC1), AAP_VECTORS(B_T2_T3, v1),
    AAP_VECTORS(B_DCC1, v2), AP_VECTOR(B_DCC1_T0_T3),
    AAP_VECTORS(B_T0_T3, B_DCC1), AP_VECTOR(B_T0_T1_T2),
    AAP_VECTORS(B_T1, v2), AAP_VECTORS(out, B_T1_T2_T3)>>
addBit(v1, v2, out) ==
  <<AAP_VECTORS(B_T0_T1_T2, B_DCC1), AAP_VECTORS(B_T2_T3, v1),
    AAP_VECTORS(B_DCC1, v2), AP_VECTOR(B_DCC1_T0_T3),
    AAP_VECTORS(B_T0_T3, B_DCC1N), AP_VECTOR(B_T0_T1_T2),
    AAP_VECTORS(B_T1, v2), AAP_VECTORS(out, B_T1_T2_T3)>>

\* Sum of v1, the negation of v2 and the carry in B_DCC0.
subBit(v1, v2, out) ==
  <<AAP_VECTORS(B_T0_T1_T2, B_DCC0), AAP_VECTORS(B_T2_T3, v1),
    AAP_VECTORS(B_DCC1N, v2), AAP_VECTORS(B_DCC0, B_DCC1_T0_T3),
    AAP_VECTORS(B_T0_T3, B_DCC1N), AP_VECTOR(B_T0_T1_T2),
    AAP_VECTORS(B_DCC1N, v2), AAP_VECTORS(out, B_DCC1_T0_T3)>>

\* B_T2 = bit > other, or what it was when the two are equal.
greaterBit(bit, other) ==
  <<AAP_VECTORS(B_T1, bit), AAP_VECTORS(B_DCC0N, other), AP_VECTOR(B_DCC0_T1_T2)>>

\* out = s ? v1 : v2
selectBit(v1, v2, out) ==
  <<AAP_VECTORS(B_DCC0N_T0, s), AAP_VECTORS(B_DCC1N_T1, C_1),
    AAP_VECTORS(B_T3, v1), AAP_VECTORS(B_T2, v2), AP_VECTOR(B_T0_T1_T2),
    AAP_VECTORS(B_T3, B_DCC0_T1_T2), AAP_VECTORS(out, B_DCC1_T0_T3)>>

\* out = v1 and v2
andBit(v1, v2, out) ==
  <<AAP_VECTORS(B_T0, v1), AAP_VECTORS(B_T1, v2), AAP_VECTORS(B_T2, C_0),
    AAP_VECTORS(out, B_T0_T1_T2)>>

\* B_T3 joined with two more bits: C_0 makes it a conjunction, C_1 a disjunction.
reduceBits(constant, v1, v2) ==
  <<AAP_VECTORS(B_T0_T1_T2, constant), AAP_VECTORS(B_DCC1, v1),
    AAP_VECTORS(B_T2, B_DCC1_T0_T3), AAP_VECTORS(B_DCC0, v2),
    AAP_VECTORS(B_T3, B_DCC0_T1_T2)>>

----------------------------------------------------------------------------
(* The kernels *)

addition(n) ==
  <<AAP_VECTORS(B_DCC1, C_0)>> \o
  For(0, n, 1, LAMBDA j : addBit(vals1(j), vals2(j), output(j)))

subtraction(n) ==
  <<AAP_VECTORS(B_DCC0, C_1)>> \o
  For(0, n, 1, LAMBDA j : subBit(vals1(j), vals2(j), output(j)))

greater(n) ==
  <<AAP_VECTORS(B_T2, C_0)>> \o
  For(0, n, 1, LAMBDA j : greaterBit(vals1(j), vals2(j))) \o
  <<AAP_VECTORS(output(0), B_T2)>>

greater_equal(n) ==
  <<AAP_VECTORS(B_T2, C_1)>> \o
  For(0, n, 1, LAMBDA j : greaterBit(vals1(j), vals2(j))) \o
  <<AAP_VECTORS(output(0), B_T2)>>

equal(n) ==
  <<AAP_VECTORS(B_T2_T3, C_1)>> \o
  For(0, n, 1, LAMBDA j :
    <<AAP_VECTORS(B_DCC0N_T0, vals1(j)), AAP_VECTORS(B_DCC1N_T1, vals2(j)),
      AP_VECTOR(B_DCC0_T1_T2), AP_VECTOR(B_DCC1_T0_T3)>>) \o
  <<AAP_VECTORS(B_T1, C_0), AAP_VECTORS(output(0), B_T0_T1_T2)>>

min(n) ==
  <<AAP_VECTORS(B_T2, C_0)>> \o
  For(0, n, 1, LAMBDA j :
    <<AAP_VECTORS(B_DCC0N, vals1(j)), AAP_VECTORS(B_T1, vals2(j)),
      AP_VECTOR(B_DCC0_T1_T2)>>) \o
  <<AAP_VECTORS(s, B_T2)>> \o
  For(0, n, 1, LAMBDA j : selectBit(vals1(j), vals2(j), output(j)))

max(n) ==
  <<AAP_VECTORS(B_T2, C_0)>> \o
  For(0, n, 1, LAMBDA j : greaterBit(vals1(j), vals2(j))) \o
  <<AAP_VECTORS(s, B_T2)>> \o
  For(0, n, 1, LAMBDA j : selectBit(vals1(j), vals2(j), output(j)))

if_then_else(n) ==
  For(0, n, 1, LAMBDA j : selectBit(vals1(j), vals2(j), output(j)))

xor_reduction(n) ==
  <<AAP_VECTORS(B_DCC1N_T1, IF n % 2 = 0 THEN C_0 ELSE vals1(0))>> \o
  For(n % 2, n - 1, 2, LAMBDA j :
    <<AAP_VECTORS(B_DCC0N_T0, vals1(j)), AAP_VECTORS(B_T2, vals1(j + 1)),
      AAP_VECTORS(B_T3, B_DCC0_T1_T2), AAP_VECTORS(B_T2, B_DCC1_T0_T3),
      AAP_VECTORS(B_DCC0N, vals1(j + 1)), AAP_VECTORS(B_DCC1N, B_DCC0_T1_T2)>>) \o
  <<AAP_VECTORS(output(0), B_T1)>>

and_reduction(n) ==
  <<AAP_VECTORS(B_T3, IF n % 2 = 0 THEN C_1 ELSE vals1(0))>> \o
  For(n % 2, n - 1, 2, LAMBDA j : reduceBits(C_0, vals1(j), vals1(j + 1))) \o
  <<AAP_VECTORS(output(0), B_T3)>>

or_reduction(n) ==
  <<AAP_VECTORS(B_T3, IF n % 2 = 0 THEN C_0 ELSE vals1(0))>> \o
  For(n % 2, n - 1, 2, LAMBDA j : reduceBits(C_1, vals1(j), vals1(j + 1))) \o
  <<AAP_VECTORS(output(0), B_T3)>>

greater_equal_0(n) ==
  <<AAP_VECTORS(B_DCC0N, vals1(n - 1)), AAP_VECTORS(output(0), B_DCC0)>>

\* The loop ends at the most significant bit, which has the index n - 1.
ForgetsNegation(n) ==  \* mutant
  <<AAP_VECTORS(B_T3, IF n % 2 = 1 THEN C_0 ELSE vals1(0))>> \o
  For(1 - (n % 2), n - 2, 2, LAMBDA j : reduceBits(C_1, vals1(j), vals1(j + 1))) \o
  <<AAP_VECTORS(B_DCC1, vals1(n - 1)), AAP_VECTORS(B_T0, C_0),
    AAP_VECTORS(output(0), B_DCC1_T0_T3)>>
greater_than_0(n) ==
  <<AAP_VECTORS(B_T3, IF n % 2 = 1 THEN C_0 ELSE vals1(0))>> \o
  For(1 - (n % 2), n - 2, 2, LAMBDA j : reduceBits(C_1, vals1(j), vals1(j + 1))) \o
  <<AAP_VECTORS(B_DCC1N, vals1(n - 1)), AAP_VECTORS(B_T0, C_0),
    AAP_VECTORS(output(0), B_DCC1_T0_T3)>>

abs(n) ==
  LET sign == vals1(n - 1) IN
  <<AAP_VECTORS(B_T0, sign), AAP_VECTORS(carries(0), B_T0)>> \o
  For(0, n - 1, 1, LAMBDA j :
    <<AAP_VECTORS(B_T3, C_0), AAP_VECTORS(B_DCC1N, vals1(j)),
      AAP_VECTORS(carries(j + 1), B_DCC1_T0_T3)>>) \o
  For(0, n, 1, LAMBDA j :
    <<AAP_VECTORS(B_DCC0N_T0, sign), AAP_VECTORS(B_DCC1N_T1, carries(j)),
      AAP_VECTORS(B_T3, vals1(j)), AAP_VECTORS(B_T3, B_DCC0_T1_T2),
      AAP_VECTORS(B_T2, B_DCC1_T0_T3), AAP_VECTORS(B_DCC0N, vals1(j)),
      AAP_VECTORS(output(j), B_DCC0_T1_T2)>>)

\* The last command clears the sign of the operand, not that of the output.
relu(n) ==
  LET msb == vals1(n - 1) IN
  <<AAP_VECTORS(B_DCC0N, msb), AAP_VECTORS(s, B_DCC0)>> \o
  For(0, n - 2, 2, LAMBDA j :
    <<AAP_VECTORS(B_T0_T1_T2, s), AAP_VECTORS(B_T2_T3, C_0),
      AAP_VECTORS(B_DCC0, vals1(j)), AAP_VECTORS(output(j), B_DCC0_T1_T2),
      AAP_VECTORS(B_DCC1, vals1(j + 1)), AAP_VECTORS(output(j + 1), B_DCC1_T0_T3)>>) \o
  (IF n % 2 = 0
     THEN <<AAP_VECTORS(B_T0, s), AAP_VECTORS(B_T1, C_0), AAP_VECTORS(B_T2, vals1(n - 2)),
            AAP_VECTORS(output(n - 2), B_T0_T1_T2)>>
     ELSE <<>>) \o
  <<AAP_VECTORS(msb, C_0)>>

hasBit(c, j)  == (c \div 2^j) % 2 = 1
multConst(n)  == 1431655765 % 2^n      \* 0x55555555

multu_by_const(n) ==
  LET c     == multConst(n)
      first == CHOOSE j \in 0 .. n - 1 : hasBit(c, j) /\ \A i \in 0 .. j - 1 : ~hasBit(c, i)
  IN  IF c = 0 THEN For(0, 2 * n, 1, LAMBDA j : <<AAP_VECTORS(output(j), C_0)>>)
      ELSE For(0, first, 1, LAMBDA j : <<AAP_VECTORS(output(j), C_0)>>) \o
           For(0, n, 1, LAMBDA k : <<AAP_VECTORS(output(first + k), vals1(k))>>) \o
           <<AAP_VECTORS(output(first + n), C_0)>> \o
           For(first + 1, n, 1, LAMBDA j :
             IF hasBit(c, j)
               THEN <<AAP_VECTORS(B_DCC1, C_0)>> \o
                    For(0, n, 1, LAMBDA k :
                      addBit(output(j + k), vals1(k), output(j + k))) \o
                    <<AAP_VECTORS(output(j + n), B_DCC1)>>
               ELSE <<AAP_VECTORS(output(j + n), C_0)>>)

multu(n) ==
  For(0, n, 1, LAMBDA k : andBit(vals1(0), vals2(k), output(k))) \o
  <<AAP_VECTORS(output(n), C_0)>> \o
  For(1, n, 1, LAMBDA j :
    <<AAP_VECTORS(B_DCC1, C_0)>> \o
    For(0, n, 1, LAMBDA k :
      <<AAP_VECTORS(B_T0, vals1(j)), AAP_VECTORS(B_T1, vals2(k)), AAP_VECTORS(B_T2, C_0),
        AP_VECTOR(B_T0_T1_T2), AAP_VECTORS(B_T2_T3, B_DCC1),
        AAP_VECTORS(B_DCC1, output(j + k)), AP_VECTOR(B_DCC1_T0_T3),
        AAP_VECTORS(B_T0_T3, B_DCC1N), AP_VECTOR(B_T0_T1_T2),
        AAP_VECTORS(B_T1, output(j + k)), AAP_VECTORS(output(j + k), B_T1_T2_T3)>>) \o
    <<AAP_VECTORS(output(j + n), B_DCC1)>>)

\* Step 2 of a division: s = the rest is at least vals2, shifted by j.
restAtLeast(n, j) ==
  <<AAP_VECTORS(B_T1, C_1)>> \o
  For(0, n - j, 1, LAMBDA k :
    <<AAP_VECTORS(B_T2, rest(j + k)), AAP_VECTORS(B_DCC0N, vals2(k)),
      AP_VECTOR(B_DCC0_T1_T2)>>) \o
  For(n - j, n - 1, 2, LAMBDA k :
    <<AAP_VECTORS(B_T2_T3, C_0), AAP_VECTORS(B_DCC0N, vals2(k)),
      AAP_VECTORS(B_T0, B_DCC0_T1_T2), AAP_VECTORS(B_DCC1N, vals2(k + 1)),
      AAP_VECTORS(B_T1, B_DCC1_T0_T3)>>) \o
  (IF j % 2 = 1
     THEN <<AAP_VECTORS(B_T2, C_0), AAP_VECTORS(B_DCC0N, vals2(n - 1)),
            AAP_VECTORS(s, B_DCC0_T1_T2)>>
     ELSE <<AAP_VECTORS(s, B_T1)>>)

\* Step 4: tmp = s ? vals2 : 0.
subtrahend(n, j) ==
  For(0, n - j - 1, 2, LAMBDA k :
    <<AAP_VECTORS(B_T0_T1_T2, C_0), AAP_VECTORS(B_T2_T3, s),
      AAP_VECTORS(B_DCC0, vals2(k)), AAP_VECTORS(tmp(k), B_DCC0_T1_T2),
      AAP_VECTORS(B_DCC1, vals2(k + 1)), AAP_VECTORS(tmp(k + 1), B_DCC1_T0_T3)>>) \o
  (IF (n - j) % 2 = 1
     THEN <<AAP_VECTORS(B_T0, C_0), AAP_VECTORS(B_T1, s), AAP_VECTORS(B_T2, vals2(n - j - 1)),
            AAP_VECTORS(tmp(n - j - 1), B_T0_T1_T2)>>
     ELSE <<>>)

divu(n) ==
  For(0, n, 1, LAMBDA i :
    LET j == n - 1 - i IN
    <<AAP_VECTORS(B_T0, vals1(j)), AAP_VECTORS(rest(j), B_T0)>> \o
    restAtLeast(n, j) \o
    <<AAP_VECTORS(output(j), s)>> \o
    subtrahend(n, j) \o
    <<AAP_VECTORS(B_DCC0, C_1)>> \o
    For(0, n - j, 1, LAMBDA k : subBit(rest(j + k), tmp(k), rest(j + k))))

----------------------------------------------------------------------------
(* Counting the bits of a column *)

floor_log2[n \in Nat] == IF n = 0 THEN -1 ELSE 1 + floor_log2[n \div 2]

\* Or-ing n with its shifts sets every bit below the leading one; the last shift
\* drops one of them.
foo(n) == 2^floor_log2[n] - 1

spaceOf[n \in Nat] ==
  IF n <= 2 THEN n
  ELSE IF n = 3 THEN 2
  ELSE LET left == foo(n) IN
       Max({floor_log2[n] + 1,
            floor_log2[n] + spaceOf[n - 1 - left],
            spaceOf[left]})

ForgetsTheRightHalf(n) == IF n <= 2 THEN n ELSE floor_log2[n] + 1  \* mutant
necessary_space(n) == spaceOf[n]

\* The half adder and full adder of two or three input rows.
countThree(in, size, out) ==
  LET v3 == IF size = 2 THEN C_0 ELSE vals1(in + 2) IN
  <<AAP_VECTORS(B_T0_T1_T2, vals1(in)), AAP_VECTORS(B_T2_T3, vals1(in + 1)),
    AAP_VECTORS(B_DCC1, v3), AAP_VECTORS(output(out + 1), B_DCC1_T0_T3),
    AAP_VECTORS(B_T0_T3, B_DCC1N), AP_VECTOR(B_T0_T1_T2),
    AAP_VECTORS(B_T1, v3), AAP_VECTORS(output(out), B_T1_T2_T3)>>

\* The addition of the two counts, with a left-out input as the carry in: of b1
\* bits from row out, and of b2 bits above them.
addCounts(cIn, b1, b2, out) ==
  LET v2(i) == IF i < b2 THEN output(out + b1 + i) ELSE C_0 IN
  <<AAP_VECTORS(B_DCC1, cIn)>> \o
  For(0, b1, 1, LAMBDA i : addBit(output(out + i), v2(i), output(out + i))) \o
  <<AAP_VECTORS(output(out + b1), B_DCC1)>>

\* The faster version takes the carry in straight from the input and writes the
\* carry out inside the loop.
addCountsFaster(cIn, b1, b2, out) ==
  LET v2(i) == IF i < b2 THEN output(out + b1 + i) ELSE C_0 IN
  For(0, b1, 1, LAMBDA i :
    <<AAP_VECTORS(B_T0_T1_T2, IF i = 0 THEN cIn ELSE B_DCC1),
      AAP_VECTORS(B_T2_T3, output(out + i)), AAP_VECTORS(B_DCC1, v2(i)),
      IF i < b1 - 1 THEN AP_VECTOR(B_DCC1_T0_T3)
                    ELSE AAP_VECTORS(output(out + b1), B_DCC1_T0_T3),
      AAP_VECTORS(B_T0_T3, B_DCC1N), AP_VECTOR(B_T0_T1_T2),
      AAP_VECTORS(B_T1, v2(i)), AAP_VECTORS(output(out + i), B_T1_T2_T3)>>)

\* The commands that count input rows in .. in + size - 1 into output rows from
\* out, and the number of rows that the count takes.
bitcount[in \in Nat, size \in Nat, out \in Nat, faster \in BOOLEAN] ==
  CASE size = 0 -> [cmds |-> <<>>, bits |-> 0]
    [] size = 1 -> [cmds |-> <<AAP_VECTORS(output(out), vals1(in))>>, bits |-> 1]
    [] size \in {2, 3} -> [cmds |-> countThree(in, size, out), bits |-> 2]
    [] OTHER ->
         LET left == foo(size)
             one  == bitcount[in, left, out, faster]
             two  == bitcount[in + left, size - left - 1, out + one.bits, faster]
             cIn  == vals1(in + left)
         IN  [cmds |-> one.cmds \o two.cmds \o
                       (IF faster THEN addCountsFaster(cIn, one.bits, two.bits, out)
                                  ELSE addCounts(cIn, one.bits, two.bits, out)),
              bits |-> 1 + one.bits]

----------------------------------------------------------------------------
(* main of each program *)

Counts     == {"bitcount", "bitcount_faster"}
TwoOperand == {"addition", "subtraction", "min", "max", "multu", "divu", "greater",
               "greater_equal", "equal", "if_then_else"}
OneBit     == {"xor_reduction", "and_reduction", "or_reduction", "greater_equal_0",
               "greater_than_0", "greater", "greater_equal", "equal"}

\* The commands of one pass.
kernel(name, n) ==
  CASE name = "addition"        -> addition(n)
    [] name = "subtraction"     -> subtraction(n)
    [] name = "min"             -> min(n)
    [] name = "max"             -> max(n)
    [] name = "multu_by_const"  -> multu_by_const(n)
    [] name = "multu"           -> multu(n)
    [] name = "divu"            -> divu(n)
    [] name = "xor_reduction"   -> xor_reduction(n)
    [] name = "and_reduction"   -> and_reduction(n)
    [] name = "or_reduction"    -> or_reduction(n)
    [] name = "greater_equal_0" -> greater_equal_0(n)
    [] name = "greater_than_0"  -> greater_than_0(n)
    [] name = "greater"         -> greater(n)
    [] name = "greater_equal"   -> greater_equal(n)
    [] name = "equal"           -> equal(n)
    [] name = "abs"             -> abs(n)
    [] name = "relu"            -> relu(n)
    [] name = "if_then_else"    -> if_then_else(n)
    [] name = "bitcount"        -> bitcount[0, n, 0, FALSE].cmds
    [] name = "bitcount_faster" -> bitcount[0, n, 0, TRUE].cmds

\* Every program for every length, so that each is put together once.
Text == [name \in Programs |-> [n \in Lengths \cup CountLengths |-> kernel(name, n)]]
Code == Text[main.name][main.n]

\* The arrays that main allocates, and their rows.
Allocation(name, n) ==
  LET outputRows == CASE name \in Counts -> necessary_space(n)
                      [] name \in {"multu_by_const", "multu", "divu"} -> 2 * n
                      [] name \in OneBit -> 1
                      [] OTHER -> n
  IN  ({"vals1"} \X (0 .. n - 1)) \cup ({"output"} \X (0 .. outputRows - 1)) \cup
      (IF name \in TwoOperand THEN {"vals2"} \X (0 .. n - 1) ELSE {}) \cup
      (IF name = "abs" THEN {"carries"} \X (0 .. n - 1) ELSE {}) \cup
      (IF name = "divu" THEN {"rest", "tmp"} \X (0 .. n - 1) ELSE {}) \cup
      (IF name \in {"min", "max", "relu", "if_then_else", "divu"} THEN {<<"s", 0>>} ELSE {})

Operands(n) == 0 .. 2^n - 1

\* Rows are allocated and the operands drawn.  Memory that nothing has written
\* holds a bit `junk'.
Init ==
  \E name \in Programs : \E n \in IF name \in Counts THEN CountLengths ELSE Lengths :
    \E a \in Operands(n), b \in IF name \in TwoOperand THEN Operands(n) ELSE {0},
       sel, junk \in BOOLEAN :
      /\ name = "divu" => b # 0
      /\ name # "if_then_else" => sel = junk
      /\ main = [name |-> name, n |-> n, a |-> a, b |-> b, sel |-> sel]
      /\ mem = [r \in Allocation(name, n) |-> [c \in Columns |->
                  CASE r[1] = "vals1" -> hasBit(a, r[2])
                    [] r[1] = "vals2" -> hasBit(b, r[2])
                    [] r[1] = "s" -> sel
                    [] OTHER -> junk]]
      /\ cells = [x \in Cells |-> [c \in Columns |-> junk]]
      /\ iter = 0 /\ pc = 1

\* rowop_aap or rowop_ap.
Command ==
  /\ pc <= Len(Code)
  /\ stored(Code[pc], sensed(Code[pc][1]))
  /\ pc' = pc + 1
  /\ UNCHANGED <<main, iter>>

\* The pass is complete and the next one starts.
NextPass ==
  /\ pc > Len(Code) /\ iter = 0
  /\ iter' = 1 /\ pc' = 1
  /\ UNCHANGED <<main, mem, cells>>

Next == Command \/ NextPass

Spec == Init /\ [][Next]_vars

----------------------------------------------------------------------------
(* Properties *)

\* The number that rows 0 .. n - 1 of an array hold.
number(array, n) ==
  MapThenSumSet(LAMBDA j : IF mem[<<array, j>>][0] THEN 2^j ELSE 0, 0 .. n - 1)
bits(v, n)   == {j \in 0 .. n - 1 : hasBit(v, j)}
signed(v, n) == IF hasBit(v, n - 1) THEN v - 2^n ELSE v
truth(P)     == IF P THEN 1 ELSE 0

\* The baselines: what the processor computes for the same operands (for multu_by_const,
\* with the kernel's constant).  Two do not compare with zero: 35_greater_equal_0-baseline.c:11
\* asks whether an unsigned value is >= 0, and 36_greater_than_0-baseline.c:11 assigns 0.
Expected ==
  LET n == main.n  a == main.a  b == main.b IN
  CASE main.name = "addition"        -> (a + b) % 2^n
    [] main.name = "subtraction"     -> (a - b) % 2^n
    [] main.name = "min"             -> IF a < b THEN a ELSE b
    [] main.name = "max"             -> IF a > b THEN a ELSE b
    [] main.name = "multu_by_const"  -> multConst(n) * a
    [] main.name = "multu"           -> a * b
    [] main.name = "divu"            -> a \div b
    [] main.name = "xor_reduction"   -> Cardinality(bits(a, n)) % 2
    [] main.name = "and_reduction"   -> truth(bits(a, n) = 0 .. n - 1)
    [] main.name = "or_reduction"    -> truth(a # 0)
    [] main.name = "greater_equal_0" -> 1
    [] main.name = "greater_than_0"  -> 0
    [] main.name = "greater"         -> truth(a > b)
    [] main.name = "greater_equal"   -> truth(a >= b)
    [] main.name = "equal"           -> truth(a = b)
    [] main.name = "abs"             -> IF signed(a, n) >= 0 THEN a ELSE 2^n - a
    [] main.name = "relu"            -> IF signed(a, n) >= 0 THEN a ELSE 0
    [] main.name = "if_then_else"    -> IF main.sel THEN a ELSE b
    [] main.name \in Counts          -> Cardinality(bits(a, n))

ResultRows ==
  CASE main.name \in OneBit -> 1
    [] main.name \in {"multu_by_const", "multu"} -> 2 * main.n
    [] main.name \in Counts -> bitcount[0, main.n, 0, FALSE].bits
    [] main.name = "relu" -> main.n - 1
    [] OTHER -> main.n

PassDone == pc > Len(Code)

\* After each pass a kernel's output rows hold what its baseline program
\* (NN_name-baseline.c, ITERATE) computes from the operands that main drew,
\* whatever the rows and cells that nothing initialised held, and whatever the
\* first pass left for the second.  Excluded because the code departs from it: the
\* kernels of SelectsByBit, and abs, which loses v in the same way; the two kernels
\* whose baselines compute something else (ComparesWithZero); the second pass of relu,
\* which never writes the sign row of its output and clears that of its operand
\* (51_relu-plus.c:76); and a bit count of more than four rows, which takes row `left'
\* twice and the last row not at all (91_bitcount-plus.c:104-109).
Departs == {"min", "max", "if_then_else", "abs", "greater_equal_0", "greater_than_0"}
ComputesBaseline ==
  PassDone /\ main.name \notin Departs
           /\ (main.name = "relu" => iter = 0)
           /\ (main.name \in Counts => main.n <= 4)
    => number("output", ResultRows) = Expected

\* greater_equal_0 and greater_than_0 compare a value in two's complement with zero, after
\* either pass: "the or reduction of all bits except the msb" and "an AND between the
\* reduced bit and the negated msb" (36_greater_than_0-plus.c:38, 58).
ComparesWithZero ==
  PassDone =>
    /\ main.name = "greater_equal_0" =>
         number("output", 1) = truth(signed(main.a, main.n) >= 0)
    /\ main.name = "greater_than_0" =>
         number("output", 1) = truth(signed(main.a, main.n) > 0)

\* Where s is 1 the output is vals1, elsewhere it is vals2 (60_if_then_else-plus.c:42,
\* "Compute output = s ? vals1 : vals2"; the same line is in min and max).
SelectsByBit ==
  PassDone /\ main.name \in {"min", "max", "if_then_else"} =>
    number("output", main.n) = IF mem[<<"s", 0>>][0] THEN main.a ELSE main.b

\* A command opens only rows that main allocated: the loops that take two bits at
\* a time, the doubled output of a product and the partial counts that bitcount
\* stacks above each other stay inside their arrays.
WithinAllocation ==
  ~PassDone =>
    \A i \in Opened(Code[pc], "D") : Code[pc][i].row \in DOMAIN mem

=============================================================================
