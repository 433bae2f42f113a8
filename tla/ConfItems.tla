----------------------------- MODULE ConfItems -----------------------------
(***************************************************************************)
(* Configuration items in a bit stream (TConfItem, TMrfDataAdvBase,        *)
(* TMrfDataAdv1D, TMrfDataAdv2D): an item is a place of so many bits, a    *)
(* class of the library is a table of items.                               *)
(*                                                                         *)
(* A layout is a record:                                                   *)
(*   items           name -> [position, length]; the two names of an item  *)
(*                   of a TMrfDataAdv2D are a pair;                        *)
(*   streamoffset, reverse, streamreverse   the defaults of the class;     *)
(*   clears          assemble() builds a new stream of so many words, or   *)
(*                   0: it writes into the stream there is, made longer if *)
(*                   it is shorter than _datastreamlength.                 *)
(* Values are sets of bit numbers, as in MrfData.                          *)
(***************************************************************************)
EXTENDS MrfData, Sequences, SequencesExt

Item(name, position, length) ==
    [name |-> name, position |-> position, length |-> length]

\* The map of a table of items.
ItemMap(table) ==
    [name \in {table[i].name : i \in DOMAIN table} |->
        LET row == CHOOSE r \in ToSet(table) : r.name = name
        IN  [position |-> row.position, length |-> row.length]]

Layout(table, reverse) ==
    [items |-> ItemMap(table), streamoffset |-> 0, reverse |-> reverse,
     streamreverse |-> FALSE, clears |-> 0]

datastreamlength(layout) ==
    FoldSet(LAMBDA name, sum : sum + layout.items[name].length, 0, DOMAIN layout.items)

\* A register that is written from its end ends at the offset.
registerlength(layout) ==
    IF layout.streamreverse THEN layout.streamoffset ELSE datastreamlength(layout)

\* Where an item starts, in unsigned arithmetic.
Place(layout, item, index) ==
    (index * bitsinablock + layout.streamoffset
        + (IF layout.streamreverse THEN -item.position - item.length ELSE item.position)) % U32

\* Mutated: a whole word is written, whatever the length of the item.
setStreamConfItemValue_Whole(layout, s, item, value, index) ==
    setBitBlock(s, Place(layout, item, index), bitsinablock, value, 0, layout.reverse)

setStreamConfItemValue(layout, s, item, value, index) ==
    setBitBlock(s, Place(layout, item, index), item.length, value, 0, layout.reverse)

getStreamConfItemValue(layout, s, item, index) ==
    getBitBlock(s, Place(layout, item, index), item.length, 0, layout.reverse)

AtLeast(s, length) == IF s.reglengthbits < length THEN setNumBits(s, length) ELSE s

\* Mutated: a stream that is too short stays so.
Prepared_Short(layout, s) ==
    IF layout.clears > 0 THEN setNumWords(clearDataStream(s), layout.clears) ELSE s

\* The stream assemble() starts from.
Prepared(layout, s) ==
    IF layout.clears > 0 THEN setNumWords(clearDataStream(s), layout.clears)
    ELSE AtLeast(s, registerlength(layout))

\* Every item is written, one after the other: all their bits, of which no two
\* have the same place (WireFormat in ConfigObject would see it).
WithItems(layout, s, values, index) ==
    LET bits == UNION {{<<name, i>> : i \in 0..layout.items[name].length - 1} :
                          name \in DOMAIN layout.items}
        at(b) == BlockPosition(Place(layout, layout.items[b[1]], index), b[2])
        One(b) == ValueBit(layout.items[b[1]].length, 0, layout.reverse, b[2]) \in values[b[1]]
        places == {at(b) : b \in bits}
        furthest == CHOOSE p \in places : p >= s.reglengthbits \/ \A q \in places : q < s.reglengthbits
    IN  setBits(s, places, {at(b) : b \in {c \in bits : One(c)}}, furthest)

assemble(layout, s, values) == WithItems(layout, Prepared(layout, s), values, 0)

disassemble(layout, s) ==
    [name \in DOMAIN layout.items |->
        getStreamConfItemValue(layout, s, layout.items[name], 0)]

\* What fits into an item: the lowest bits of the value.
Truncated(item, value) == value \cap (0..item.length - 1)

-----------------------------------------------------------------------------
(***************************************************************************)
(* What a table has to be like for an object of its class to work.         *)
(***************************************************************************)
\* The items have places of their own in the first "room" bits of a stream.
ItemsFit(layout, index, room) ==
    LET start(name) == Place(layout, layout.items[name], index)
        end(name) == start(name) + layout.items[name].length
    IN  /\ room \in 0..U32
        /\ \A name \in DOMAIN layout.items :
              /\ start(name) \in Nat /\ layout.items[name].length \in 0..bitsinablock
              /\ end(name) <= room
        /\ \A one, other \in DOMAIN layout.items :
              one = other \/ end(one) <= start(other) \/ end(other) <= start(one)

\* The length of the stream assemble() makes, if it was shorter before.
Room(layout) ==
    IF layout.clears > 0 THEN layout.clears * bitsinablock ELSE registerlength(layout)

ProperTable(layout) ==
    /\ layout.clears \in Nat /\ layout.reverse \in BOOLEAN /\ registerlength(layout) \in Nat
    /\ ItemsFit(layout, 0, Room(layout))
=============================================================================
