---------------------------- MODULE PixelColumns ----------------------------
(***************************************************************************)
(* The pixel configuration of a Topix (TMrfData_TpxPixel): the items of    *)
(* every pixel, and the stream of one column with a word per pixel. The    *)
(* columns are of two lengths, one stream serves all.                      *)
(***************************************************************************)
EXTENDS ChipLayouts

CONSTANTS
    longrowcount,   \* 128
    shortrowcount,  \* 32
    MaxSet          \* bound: pixels that are configured

VARIABLES
    pixregs,   \* column -> row -> item -> value
    stream,
    last       \* history: the column of the stream, or NoCol

vars == <<pixregs, stream, last>>

Cols == 0..3   \* topix::colcount
NoCol == -1
getNumRows(col) == IF col < 2 THEN longrowcount ELSE shortrowcount
Items == DOMAIN TpxPixel.items
Unset == [item \in Items |-> {}]

Init ==
    /\ pixregs = [col \in Cols |-> [row \in 0..getNumRows(col) - 1 |-> Unset]]
    /\ stream = EmptyStream /\ last = NoCol

Configured == {p \in Cols \X (0..longrowcount - 1) :
                  p[2] < getNumRows(p[1]) /\ pixregs[p[1]][p[2]] # Unset}

setPixConf(col, row, item, value) ==
    /\ pixregs' = [pixregs EXCEPT ![col][row][item] = value]
    /\ last' = NoCol /\ UNCHANGED stream
    /\ Cardinality(Configured \cup {<<col, row>>}) <= MaxSet

\* Mutated: the stream of the column before is not cleared.
assembleCol_Kept(s, col) ==
    FoldSet(LAMBDA row, t : WithItems(TpxPixel, t, pixregs[col][row], row),
            IF s.reglengthwords < getNumRows(col) THEN setNumWords(s, getNumRows(col)) ELSE s,
            0..getNumRows(col) - 1)

assembleCol(s, col) ==
    FoldSet(LAMBDA row, t : WithItems(TpxPixel, t, pixregs[col][row], row),
            setNumWords(clearDataStream(s), getNumRows(col)), 0..getNumRows(col) - 1)

AssembleCol(col) == stream' = assembleCol(stream, col) /\ last' = col /\ UNCHANGED pixregs

Next ==
    \/ \E col \in Cols : \E row \in 0..getNumRows(col) - 1 :
         \E item \in {"TDAC", "SensorType"} :
            \E value \in {{}, 0..TpxPixel.items[item].length - 1} : setPixConf(col, row, item, value)
    \/ \E col \in Cols : AssembleCol(col)

Spec == Init /\ [][Next]_vars

-----------------------------------------------------------------------------
\* The stream of a column is one word per pixel of this column, in the order of
\* the rows, with the bits of the items of this pixel and no others, whichever
\* columns were assembled before (assembleCol).
ColumnIsItsPixels ==
    last \in Cols =>
        /\ stream.reglengthwords = getNumRows(last)
        /\ \A row \in 0..getNumRows(last) - 1 :
               stream.regdata[row] =
                   UNION {{TpxPixel.items[item].position + b : b \in pixregs[last][row][item]} :
                             item \in Items}
=============================================================================
