------------------------- MODULE Afei3Access_proofs -------------------------
(***************************************************************************)
(* The order of the pixels of an FE-I3, for any number of double columns   *)
(* and rows, any set of enabled columns and any series of calls.           *)
(*                                                                         *)
(* The library has one formula for the position of a pixel, which counts   *)
(* the active columns in front of it, and two for the pixel of a position, *)
(* which count those behind.  They are inverse to each other because the   *)
(* active columns come in pairs: with an even number of them the parity of *)
(* the one count gives that of the other.                                  *)
(***************************************************************************)
EXTENDS Afei3Access, FiniteSetTheorems, TLAPS

Fields == {"cmd", "glob", "pix", "feaddress", "febroadcast", "stream", "cachekey", "pos"}

\* The object has its fields, and enabled are columns that are there.
ObjectOK(d) == DOMAIN d = Fields /\ d.glob.cols \subseteq 0..DoubleCols - 1

-----------------------------------------------------------------------------
(* Numbers.                                                                *)

LEMMA InRow ==
    ASSUME NEW k \in Nat, NEW r \in 0..Rows - 1
    PROVE  /\ (k * Rows + r) \div Rows = k /\ (k * Rows + r) % Rows = r
<1> DEFINE p == k * Rows + r
           q == p \div Rows
<1>1. Rows \in Nat /\ Rows > 0 /\ k * Rows \in Nat /\ p \in Nat
  BY SizeAssumption
<1>2. q \in Nat /\ p % Rows \in 0..Rows - 1 /\ p = (q * Rows) + (p % Rows)
  <2> HIDE DEF p
  <2> QED
    BY <1>1
<1>3. q * Rows < (k + 1) * Rows /\ k * Rows < (q + 1) * Rows
  <2>1. (k + 1) * Rows = k * Rows + Rows /\ (q + 1) * Rows = q * Rows + Rows
    BY <1>1, <1>2
  <2>2. q * Rows \in Nat
    BY <1>1, <1>2
  <2>3. q * Rows <= p /\ p < q * Rows + Rows /\ k * Rows <= p /\ p < k * Rows + Rows
    <3>1. p % Rows >= 0 /\ p % Rows < Rows /\ p % Rows \in Nat
      BY <1>1, <1>2
    <3> HIDE DEF q
    <3>2. q * Rows <= p /\ p < q * Rows + Rows
      <4> HIDE DEF p
      <4> QED
        BY <1>1, <1>2, <2>2, <3>1
    <3> QED
      BY <1>1, <3>2
  <2> HIDE DEF q, p
  <2> QED
    BY <1>1, <1>2, <2>1, <2>2, <2>3
<1> HIDE DEF q
<1>4. ASSUME NEW a \in Nat, NEW b \in Nat, a * Rows < b * Rows PROVE a < b
  <2>1. ASSUME b <= a PROVE b * Rows <= a * Rows
    BY <1>1, <2>1
  <2> QED
    BY <1>1, <1>4, <2>1
<1>5. q = k
  <2>1. q < k + 1
    BY <1>2, <1>3, <1>4
  <2>2. k < q + 1
    BY <1>2, <1>3, <1>4
  <2> QED
    BY <1>2, <2>1, <2>2
<1> QED
  BY <1>1, <1>2, <1>5 DEF q

-----------------------------------------------------------------------------
(* Counting the active columns.                                            *)

LEMMA Counted ==
    ASSUME NEW S, IsFiniteSet(S), NEW T, NEW f \in Bijection(S, T)
    PROVE  IsFiniteSet(T) /\ Cardinality(T) = Cardinality(S)
<1>1. ExistsBijection(S, T)
  BY DEF ExistsBijection
<1> QED
  BY <1>1, FS_Bijection

\* Each enabled double column gives two.
LEMMA ColumnsInPairs ==
    ASSUME NEW d, ObjectOK(d)
    PROVE  /\ IsFiniteSet(getActivePixCols(d)) /\ getActivePixCols(d) \subseteq Nat
           /\ Cardinality(getActivePixCols(d)) = getActivePixColCount(d)
           /\ Cardinality(d.glob.cols) \in Nat
<1> DEFINE cols == d.glob.cols
           even == {2 * c : c \in cols}
           odd == {2 * c + 1 : c \in cols}
           left == [c \in cols |-> 2 * c]
           right == [c \in cols |-> 2 * c + 1]
<1>1. cols \subseteq 0..DoubleCols - 1 /\ DoubleCols \in Nat
  BY SizeAssumption DEF ObjectOK
<1>2. IsFiniteSet(cols) /\ Cardinality(cols) \in Nat
  <2>1. IsFiniteSet(0..DoubleCols - 1)
    BY <1>1, FS_Interval
  <2> QED
    BY <1>1, <2>1, FS_Subset, FS_CardinalityType
<1> HIDE DEF cols
<1>3. left \in Bijection(cols, even) /\ right \in Bijection(cols, odd)
  <2>1. left \in Injection(cols, even) /\ right \in Injection(cols, odd)
    BY <1>1 DEF Injection, IsInjective
  <2>2. left \in Surjection(cols, even) /\ right \in Surjection(cols, odd)
    BY <1>1 DEF Surjection
  <2> QED
    BY <2>1, <2>2 DEF Bijection
<1>4. /\ IsFiniteSet(even) /\ Cardinality(even) = Cardinality(cols)
      /\ IsFiniteSet(odd) /\ Cardinality(odd) = Cardinality(cols)
  <2> HIDE DEF even, odd, left, right
  <2> QED
    BY <1>2, <1>3, Counted
<1>5. getActivePixCols(d) = even \cup odd
  <2>1. ASSUME NEW col \in Cols, col \div 2 \in cols PROVE col \in even \cup odd
    <3>1. col \in Nat /\ (col = 2 * (col \div 2) \/ col = 2 * (col \div 2) + 1)
      BY <1>1 DEF Cols
    <3> QED
      BY <2>1, <3>1
  <2>2. ASSUME NEW c \in cols
        PROVE  /\ 2 * c \in Cols /\ 2 * c + 1 \in Cols
               /\ (2 * c) \div 2 = c /\ (2 * c + 1) \div 2 = c
    BY <1>1, <2>2 DEF Cols
  <2> QED
    BY <2>1, <2>2 DEF getActivePixCols, cols
<1>6. even \cap odd = {}
  <2> SUFFICES ASSUME NEW a \in cols, NEW b \in cols, 2 * a = 2 * b + 1 PROVE FALSE
    OBVIOUS
  <2> QED
    BY <1>1
<1>7. IsFiniteSet(even \cup odd) /\ Cardinality(even \cup odd) = 2 * Cardinality(cols)
  <2> HIDE DEF even, odd
  <2> QED
    BY <1>2, <1>4, <1>6, FS_Union, FS_EmptySet
<1>8. getActivePixCols(d) \subseteq Nat
  BY <1>1 DEF getActivePixCols, Cols
<1> QED
  BY <1>2, <1>5, <1>7, <1>8 DEF getActivePixColCount, cols

Before(S, col) == {c \in S : c < col}
Behind(S, col) == {c \in S : c > col}

\* A column, those before it and those behind it are all.
LEMMA BeforeAndBehind ==
    ASSUME NEW S, IsFiniteSet(S), S \subseteq Nat, NEW col \in S
    PROVE  /\ Cardinality(Before(S, col)) \in Nat /\ Cardinality(Behind(S, col)) \in Nat
           /\ Cardinality(Before(S, col)) + Cardinality(Behind(S, col)) + 1 = Cardinality(S)
<1> DEFINE B == Before(S, col)
           H == Behind(S, col)
<1>1. /\ B \subseteq S /\ H \subseteq S /\ B \cap H = {} /\ col \notin B \cup H
      /\ S = (B \cup H) \cup {col}
  <2>1. \A c \in S : (c \in B <=> c < col) /\ (c \in H <=> c > col)
    BY DEF Before, Behind
  <2>2. B \subseteq S /\ H \subseteq S
    BY DEF Before, Behind
  <2> HIDE DEF B, H
  <2>3. \A c \in S : c \in Nat /\ (c < col \/ c = col \/ c > col) /\ ~(c < col /\ c > col)
    OBVIOUS
  <2>4. ~(col < col) /\ ~(col > col)
    OBVIOUS
  <2> QED
    BY <2>1, <2>2, <2>3, <2>4
<1> HIDE DEF B, H
<1>2. /\ IsFiniteSet(B) /\ Cardinality(B) \in Nat
      /\ IsFiniteSet(H) /\ Cardinality(H) \in Nat
  BY <1>1, FS_Subset, FS_CardinalityType
<1>3. IsFiniteSet(B \cup H) /\ Cardinality(B \cup H) = Cardinality(B) + Cardinality(H)
  <2>1. Cardinality(B \cap H) = 0
    BY <1>1, FS_EmptySet
  <2>2. IsFiniteSet(B \cup H) /\ Cardinality(B \cup H) = Cardinality(B) + Cardinality(H) - Cardinality(B \cap H)
    BY <1>2, FS_Union
  <2> QED
    BY <1>2, <2>1, <2>2
<1>4. Cardinality(S) = Cardinality(B \cup H) + 1
  BY <1>1, <1>3, FS_AddElement
<1> QED
  BY <1>2, <1>3, <1>4 DEF B, H

\* How many are behind it tells which column it is.
LEMMA BehindTells ==
    ASSUME NEW S, IsFiniteSet(S), S \subseteq Nat, NEW a \in S, NEW b \in S,
           Cardinality(Behind(S, a)) = Cardinality(Behind(S, b))
    PROVE  a = b
<1>1. ASSUME NEW x \in S, NEW y \in S, x < y,
             Cardinality(Behind(S, x)) = Cardinality(Behind(S, y))
      PROVE FALSE
  <2>1. Behind(S, y) \subseteq Behind(S, x) /\ y \in Behind(S, x) /\ y \notin Behind(S, y)
    <3>1. x \in Nat /\ y \in Nat /\ ~(y > y)
      OBVIOUS
    <3>2. ASSUME NEW c \in S, c > y PROVE c > x
      BY <1>1, <3>1, <3>2
    <3> QED
      BY <1>1, <3>1, <3>2 DEF Behind
  <2>2. IsFiniteSet(Behind(S, x))
    BY FS_Subset DEF Behind
  <2>3. Behind(S, y) = Behind(S, x)
    BY <1>1, <2>1, <2>2, FS_Subset
  <2> QED
    BY <2>1, <2>3
<1>2. a \in Nat /\ b \in Nat
  OBVIOUS
<1> QED
  BY <1>1, <1>2

-----------------------------------------------------------------------------
(* The two directions of the order.                                        *)
LEMMA OrderAndBack ==
    ASSUME NEW d, ObjectOK(d), NEW col \in getActivePixCols(d), NEW row \in RowNumbers
    PROVE  LET position == getPixRegPositionFromCoords(d, col, row)
           IN  /\ position \in 0..Rows * getActivePixColCount(d) - 1
               /\ getPixColFromPixRegPosition(d, position) = col
               /\ getPixRowFromPixRegPosition(position) = row
<1> DEFINE A == getActivePixCols(d)
           N == getActivePixColCount(d)
           before == Cardinality(Before(A, col))
           behind == Cardinality(Behind(A, col))
           position == getPixRegPositionFromCoords(d, col, row)
           inRow == IF before % 2 = 0 THEN Rows - 1 - row ELSE row
<1>1. IsFiniteSet(A) /\ A \subseteq Nat /\ Cardinality(A) = N
      /\ N = 2 * Cardinality(d.glob.cols) /\ Cardinality(d.glob.cols) \in Nat
  BY ColumnsInPairs DEF getActivePixColCount
<1>2. before \in Nat /\ behind \in Nat /\ before + behind + 1 = N
  BY <1>1, BeforeAndBehind
<1>3. Rows \in Nat \ {0} /\ row \in 0..Rows - 1 /\ inRow \in 0..Rows - 1
  BY SizeAssumption DEF RowNumbers
<1>4. position = behind * Rows + inRow
  <2>1. position = IF before % 2 = 0 THEN (N - before) * Rows - row - 1
                   ELSE (N - before - 1) * Rows + row
    BY DEF getPixRegPositionFromCoords, Before
  <2>2. N - before = behind + 1 /\ N - before - 1 = behind
    BY <1>1, <1>2
  <2>3. (behind + 1) * Rows = behind * Rows + Rows /\ behind * Rows \in Nat
    BY <1>2, <1>3
  <2> HIDE DEF position, before, behind, N
  <2>4. (N - before) * Rows = behind * Rows + Rows /\ (N - before - 1) * Rows = behind * Rows
    BY <2>2, <2>3
  <2>5. CASE before % 2 = 0
    <3>1. position = (N - before) * Rows - row - 1 /\ inRow = Rows - 1 - row
      BY <2>1, <2>5
    <3> HIDE DEF inRow
    <3> QED
      BY <1>3, <2>3, <2>4, <3>1
  <2>6. CASE before % 2 # 0
    <3>1. position = (N - before - 1) * Rows + row /\ inRow = row
      BY <2>1, <2>6
    <3> HIDE DEF inRow
    <3> QED
      BY <2>4, <3>1
  <2> QED
    BY <2>5, <2>6
<1> HIDE DEF position, before, behind, N
<1>5. position \div Rows = behind /\ position % Rows = inRow
  BY <1>2, <1>3, <1>4, InRow
<1>6. position \in 0..Rows * N - 1
  <2>1. Rows * N = behind * Rows + Rows + before * Rows /\ before * Rows \in Nat
        /\ behind * Rows \in Nat
    BY <1>2, <1>3
  <2> QED
    BY <1>3, <1>4, <2>1
<1>7. getPixColFromPixRegPosition(d, position) = col
  <2>1. position \div Rows < Cardinality(A) /\ position \div Rows \in Nat
    BY <1>1, <1>2, <1>5
  <2>2. ~(position \div Rows >= Cardinality(A))
    BY <1>1, <1>2, <2>1
  <2>3. getPixColFromPixRegPosition(d, position)
          = CHOOSE c \in A : Cardinality(Behind(A, c)) = position \div Rows
    BY <2>2 DEF getPixColFromPixRegPosition, Behind
  <2>4. Cardinality(Behind(A, col)) = position \div Rows
    BY <1>5 DEF behind
  <2> HIDE DEF A
  <2>5. \A c \in A : Cardinality(Behind(A, c)) = position \div Rows => c = col
    BY <1>1, <2>4, BehindTells DEF A
  <2> QED
    BY <2>3, <2>4, <2>5 DEF A
<1>8. getPixRowFromPixRegPosition(position) = row
  <2>1. behind % 2 = 0 <=> before % 2 # 0
    BY <1>1, <1>2
  <2>2. getPixRowFromPixRegPosition(position) = IF behind % 2 = 0 THEN inRow ELSE Rows - inRow - 1
    BY <1>5 DEF getPixRowFromPixRegPosition
  <2> QED
    BY <1>3, <2>1, <2>2
<1> QED
  BY <1>6, <1>7, <1>8 DEF position, N

-----------------------------------------------------------------------------
(* The object through the calls: only SetColumns changes the columns.      *)
LEMMA Updated ==
    ASSUME NEW d, ObjectOK(d)
    PROVE  ObjectOK(updatePixRegPosCache(d))
  BY DEF ObjectOK, updatePixRegPosCache, Fields

LEMMA InitObject == Init => ObjectOK(data)
  BY DEF Init, ObjectOK, Fields

LEMMA StepKeepsObject ==
    ASSUME ObjectOK(data), [Next]_vars
    PROVE  ObjectOK(data)'
<1>1. ASSUME NEW cols \in SUBSET (0..DoubleCols - 1), NEW rest, SetColumns(cols, rest)
      PROVE  ObjectOK(data)'
  BY <1>1 DEF SetColumns, Edit, ObjectOK, Fields
<1>2. ASSUME NEW item, NEW col, NEW row, NEW bits, SetPixel(item, col, row, bits)
      PROVE  ObjectOK(data)'
  BY <1>2 DEF SetPixel, Edit, setPixRegValue, ObjectOK, Fields
<1>3. ASSUME NEW address, NEW broadcast, SetTarget(address, broadcast) PROVE ObjectOK(data)'
  BY <1>3 DEF SetTarget, Edit, setDefault, ObjectOK, Fields
<1>4. ASSUME NEW item, AssemblePix(item) PROVE ObjectOK(data)'
  <2>1. ObjectOK(assemblePixReg(data, item, data))
    BY DEF assemblePixReg, ObjectOK, Fields
  <2> QED
    BY <1>4, <2>1, Updated DEF AssemblePix, Edit
<1>5. CASE AssembleGlob
  BY <1>5 DEF AssembleGlob, Edit, assembleGlobReg, ObjectOK, Fields
<1>6. CASE ConfigureGlobReg \/ ShiftIntoPixReg \/ ShiftIntoGlobReg \/ LatchGlobReg \/ ReadGlobReg
  <2>1. data' = data
    BY <1>6 DEF ConfigureGlobReg, ShiftIntoPixReg, ShiftIntoGlobReg, LatchGlobReg, ReadGlobReg, Call
  <2> QED
    BY <2>1
<1>7. CASE ConfigurePixReg \/ ConfigureFE
  <2>1. data' \in {data, updatePixRegPosCache(data)}
    BY <1>7 DEF ConfigurePixReg, ConfigureFE, Call
  <2> QED
    BY <2>1, Updated
<1>8. ASSUME NEW item,
             \/ ConfigurePixRegItem(item) \/ ShiftItemIntoPixReg(item)
             \/ LatchPixReg(item) \/ InsertPixRegData(item) \/ ReadPixReg(item)
      PROVE  ObjectOK(data)'
  <2>1. data' \in {data, updatePixRegPosCache(data)}
    BY <1>8 DEF ConfigurePixRegItem, ShiftItemIntoPixReg, LatchPixReg, InsertPixRegData, ReadPixReg, Call
  <2> QED
    BY <2>1, Updated
<1>9. ASSUME NEW item, Disassemble(item) PROVE ObjectOK(data)'
  BY <1>9 DEF Disassemble, disassemblePixReg, ObjectOK, Fields
<1>10. CASE UNCHANGED vars
  BY <1>10 DEF vars
<1> QED
  BY <1>1, <1>2, <1>3, <1>4, <1>5, <1>6, <1>7, <1>8, <1>9, <1>10 DEF Next

\* Column and row of a position are the ones it was computed from, for every set of
\* enabled double columns a series of calls can leave, every number of them and of rows
\* (getPixRegPositionFromCoords, getPixColFromPixRegPosition, getPixRowFromPixRegPosition).
THEOREM PositionsAreInverse == Spec => []PositionsInvert
<1>1. ObjectOK(data) => PositionsInvert
  <2> SUFFICES ASSUME ObjectOK(data), NEW col \in getActivePixCols(data), NEW row \in RowNumbers
               PROVE  LET position == getPixRegPositionFromCoords(data, col, row)
                      IN  /\ position \in 0..Rows * getActivePixColCount(data) - 1
                          /\ getPixColFromPixRegPosition(data, position) = col
                          /\ getPixRowFromPixRegPosition(position) = row
    BY DEF PositionsInvert
  <2> QED
    BY OrderAndBack
<1> QED
  BY <1>1, InitObject, StepKeepsObject, PTL DEF Spec
=============================================================================
