----------------------------- MODULE HitStream -----------------------------
(***************************************************************************)
(* The data words of an FE-I3 (TMrfData_AFEI3Hits): a stream of words, each*)
(* a hit or an end of event, with or without a bit of parity.              *)
(***************************************************************************)
EXTENDS ConfItems

CONSTANTS
    Words,      \* the words the chip sends
    Rows,       \* rows of pixels: 160
    MaxWords    \* bound: words of the stream

VARIABLE stream
vars == <<stream>>

\* The words lie behind six bits of the readout board.
HitWords(table) == [Layout(table, TRUE) EXCEPT !.streamoffset = 6]
EOEWord(bit13) == HitWords(<<Item("Header", 0, 1), Item("BCID1", 1, 4), Item("Flag", 5, 8),
    Item(bit13, 13, 1), Item("L1ID", 14, 4), Item("BCID2", 18, 4), Item("Warn", 22, 4)>>)
HitWord == HitWords(<<Item("Header", 0, 1), Item("BCID", 1, 4), Item("Row", 5, 8),
    Item("Col", 13, 5), Item("TOT", 18, 8)>>)

HitWordP == HitWords(<<Item("Header", 0, 1), Item("BCID", 1, 4), Item("Row", 5, 8),
    Item("Col", 13, 5), Item("Parity", 18, 1), Item("TOT", 19, 7)>>)

IsEOE == [position |-> 5, length |-> 3]

getItemValue(layout, s, item, index) == getStreamConfItemValue(layout, s, item, index)
isEOEWord(s, index) == getItemValue(HitWord, s, IsEOE, index) = 0..IsEOE.length - 1
getDataType(s, index, parity) ==
    IF isEOEWord(s, index) THEN EOEWord(IF parity THEN "Parity" ELSE "Zero")
    ELSE IF parity THEN HitWordP ELSE HitWord

Receive(word) ==
    /\ stream.reglengthwords < MaxWords
    /\ stream' = appendWord(stream, word)

Init == stream = EmptyStream
Next == \E word \in Words : Receive(word)
Spec == Init /\ [][Next]_vars

-----------------------------------------------------------------------------
\* Put back to their places, the values of the items of a word are the word,
\* and each bit of it belongs to one item, whatever lies in front of it
\* (getDataType, getItemValue, the four tables).
ItemsAreTheWord ==
    \A index \in 0..stream.reglengthwords - 1, parity \in BOOLEAN :
        LET type == getDataType(stream, index, parity)
            placed(item) == {type.streamoffset + item.position + item.length - 1 - b :
                                b \in getItemValue(type, stream, item, index)}
        IN  /\ UNION {placed(type.items[name]) : name \in DOMAIN type.items}
                  = getWord(stream, index) \ (0..type.streamoffset - 1)
            /\ datastreamlength(type) = bitsinablock - type.streamoffset

\* The number of a set of bits.
Number(value) == FoldSet(LAMBDA b, sum : sum + 2^b, 0, value)

\* The hit of a pixel is not taken for an end of event, which has three ones
\* where a hit has the first bits of its row (isEOEWord).
PixelsAreHits ==
    \A index \in 0..stream.reglengthwords - 1 :
        Number(getItemValue(HitWord, stream, HitWord.items["Row"], index)) < Rows
            => ~isEOEWord(stream, index)
=============================================================================
