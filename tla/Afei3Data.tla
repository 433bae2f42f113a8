----------------------------- MODULE Afei3Data -----------------------------
(***************************************************************************)
(* The configuration of an FE-I3 (TMrfData_AFEI3), as functions from the   *)
(* object to the object after the call. The object is a record:            *)
(*   cmd     the command register: address, broadcast and the commands on; *)
(*   glob    the global register: the double columns with EnableCol set,   *)
(*           and the rest of it as one bit;                                *)
(*   pix     the pixel register: item -> column -> row -> bit;             *)
(*   feaddress, febroadcast   the defaults clearCommandReg() restores;     *)
(*   cachekey, pos   the cache: the active columns it was computed for,    *)
(*           and the position of every pixel in the pixel register;        *)
(*   stream  the TMrfData: the command in its first 29 bits, and the data  *)
(*           behind it as a sequence of bits.                              *)
(* Where the bits of the registers are is the matter of ChipLayouts.       *)
(***************************************************************************)
EXTENDS Integers, Sequences, FiniteSets

CONSTANTS
    DoubleCols,  \* double columns: 9
    Rows,        \* logpixrows: 160
    PixItems,    \* items of a pixel
    Groups       \* "TDAC", "FDAC": item -> the items of one bit it stands for

ASSUME SizeAssumption == DoubleCols \in Nat \ {0} /\ Rows \in Nat \ {0}

Cols == 0..2 * DoubleCols - 1
RowNumbers == 0..Rows - 1

NoCommand == [address |-> 0, broadcast |-> FALSE, on |-> {}]
Cleared == [cmd |-> NoCommand, data |-> <<>>]

clearDataStream(d) == [d EXCEPT !.stream = Cleared]
clearCommandReg(d) ==
    [d EXCEPT !.cmd = [address |-> d.feaddress, broadcast |-> d.febroadcast, on |-> {}]]
setDefault(d, address, broadcast) ==
    [d EXCEPT !.feaddress = address, !.febroadcast = broadcast,
              !.cmd.address = address, !.cmd.broadcast = broadcast]
setCommandRegValue(d, commands) == [d EXCEPT !.cmd.on = @ \cup commands]

ItemsOf(item) == IF item \in DOMAIN Groups THEN Groups[item] ELSE {item}

\* The bits of a value are spread over the items of a group.
setPixRegValue(d, item, col, row, bits) ==
    [d EXCEPT !.pix = [i \in PixItems |->
        IF i \in ItemsOf(item) THEN [@[i] EXCEPT ![col][row] = i \in bits] ELSE @[i]]]

-----------------------------------------------------------------------------
(***************************************************************************)
(* The order of the pixels in the stream.                                  *)
(***************************************************************************)
getActivePixCols(d) == {col \in Cols : col \div 2 \in d.glob.cols}
getActivePixColCount(d) == 2 * Cardinality(d.glob.cols)

\* Mutated: all columns go the same way.
getPixRegPositionFromCoords_OneWay(d, col, row) ==
    LET relcolpos == Cardinality({c \in getActivePixCols(d) : c < col})
    IN  (getActivePixColCount(d) - relcolpos - 1) * Rows + row

\* The active columns from the last to the first, one upwards, one downwards.
getPixRegPositionFromCoords(d, col, row) ==
    LET relcolpos == Cardinality({c \in getActivePixCols(d) : c < col})
    IN  IF relcolpos % 2 = 0 THEN (getActivePixColCount(d) - relcolpos) * Rows - row - 1
        ELSE (getActivePixColCount(d) - relcolpos - 1) * Rows + row

getPixColFromPixRegPosition(d, position) ==
    LET active == getActivePixCols(d)
    IN  IF position \div Rows >= Cardinality(active) THEN 0
        ELSE CHOOSE col \in active :
                Cardinality({c \in active : c > col}) = position \div Rows

getPixRowFromPixRegPosition(position) ==
    IF (position \div Rows) % 2 = 0 THEN position % Rows ELSE Rows - (position % Rows) - 1

\* Mutated: the cache is taken to be right when as many columns are active.
updatePixRegPosCache_Count(d) ==
    IF Cardinality(d.cachekey) = getActivePixColCount(d) THEN d
    ELSE [d EXCEPT !.cachekey = getActivePixCols(d),
                   !.pos = [col \in Cols |-> [row \in RowNumbers |->
                       IF col \in getActivePixCols(d)
                       THEN getPixRegPositionFromCoords(d, col, row) ELSE @[col][row]]]]

\* The positions are computed again when other columns are active.
updatePixRegPosCache(d) ==
    IF d.cachekey = getActivePixCols(d) THEN d
    ELSE [d EXCEPT !.cachekey = getActivePixCols(d),
                   !.pos = [col \in Cols |-> [row \in RowNumbers |->
                       IF col \in getActivePixCols(d)
                       THEN getPixRegPositionFromCoords(d, col, row) ELSE @[col][row]]]]

-----------------------------------------------------------------------------
(***************************************************************************)
(* Assembly.                                                               *)
(***************************************************************************)
assembleCommandReg(d) == [d EXCEPT !.stream.cmd = d.cmd]

GlobLength == DoubleCols + 1
GlobBits(glob) == [p \in 1..GlobLength |-> IF p = 1 THEN glob.rest ELSE p - 2 \in glob.cols]

\* A stream that is longer keeps what is behind the register.
assembleGlobReg(d) ==
    [d EXCEPT !.stream.data = GlobBits(d.glob) \o SubSeq(@, GlobLength + 1, Len(@))]

\* The stream gets the length of the active columns of rhs; the pixels of rhs
\* are put at their positions one after the other, so that of two pixels with
\* one position the later stays.
assemblePixReg(d, item, rhs) ==
    LET from == updatePixRegPosCache(rhs)
        At(p) == {x \in getActivePixCols(from) \X RowNumbers : from.pos[x[1]][x[2]] = p - 1}
        Later(x, y) == x[1] > y[1] \/ (x[1] = y[1] /\ x[2] >= y[2])
        Bit(p, old) ==
            IF At(p) = {} THEN p <= Len(old) /\ old[p]
            ELSE LET x == CHOOSE z \in At(p) : \A y \in At(p) : Later(z, y)
                 IN  from.pix[item][x[1]][x[2]]
    IN  [d EXCEPT !.stream.data = [p \in 1..Rows * getActivePixColCount(from) |-> Bit(p, @)]]

\* The bits go to the columns from the first to the last, all upwards.
disassemblePixReg(d, active, item, bits) ==
    LET Block(col) == Cardinality({c \in active : c < col})
    IN  [d EXCEPT !.pix[item] = [col \in Cols |->
            IF col \in active THEN [row \in RowNumbers |-> bits[Block(col) * Rows + row + 1]]
            ELSE @[col]]]
=============================================================================
