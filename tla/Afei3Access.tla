---------------------------- MODULE Afei3Access ----------------------------
(***************************************************************************)
(* The chip access layer of the FE-I3 (TMrfCal_AFEI3) on a board with      *)
(* several chips on one line. A call is the sequence of the streams it     *)
(* sends, each with a command register in front; the chips shift, latch    *)
(* and load as the command they got says, if the address is theirs or the  *)
(* stream is for all.                                                      *)
(*                                                                         *)
(* The chips are external: modelled from how the code uses them. A chip is *)
(*   gshift, glob   its global shift register and what it latched of it;   *)
(*   shift, latch   its pixel shift register and its pixels;               *)
(*   on             the commands of the stream it got last.                *)
(***************************************************************************)
EXTENDS Afei3Data, SequencesExt

CONSTANTS
    Addresses,         \* addresses of the chips
    InitialCaches,     \* what the members cachekey and pos may hold at first:
                       \* the constructor leaves them as they are
    EditedPixels,      \* bound: the pixels (column, row) the program changes
    MaxSteps           \* bound: calls and changes of the object

VARIABLES
    data,   \* the TMrfData_AFEI3 of the program
    chips,  \* address -> chip
    open,   \* the device is open
    last,   \* history: the last call and its item
    steps   \* calls and changes so far, up to MaxSteps

vars == <<data, chips, open, last, steps>>

-----------------------------------------------------------------------------
(***************************************************************************)
(* The chips.                                                              *)
(***************************************************************************)
ChainLength(cols) == Rows * 2 * Cardinality(cols)

\* The pixel at the end of which bit p of the chain arrives: through the
\* enabled columns from the last to the first, up one and down the next.
ChainPixel(cols, p) ==
    LET enabled == SetToSortSeq({col \in Cols : col \div 2 \in cols}, LAMBDA a, b : a > b)
        block == (p - 1) \div Rows
        step == (p - 1) % Rows
    IN  <<enabled[block + 1], IF block % 2 = 0 THEN step ELSE Rows - 1 - step>>

\* Shifting in: what was in the register first falls out at its end.
Shifted(register, bits, length) ==
    LET all == [p \in 1..length |-> FALSE] \o register \o bits
    IN  SubSeq(all, Len(all) - length + 1, Len(all))

PlaceOf(cols, pixel) == CHOOSE p \in 1..ChainLength(cols) : ChainPixel(cols, p) = pixel

Latched(chip, items) ==
    [item \in PixItems |->
        IF item \notin items THEN chip.latch[item]
        ELSE [col \in Cols |-> [row \in RowNumbers |->
                IF col \div 2 \in chip.glob.cols /\ Len(chip.shift) = ChainLength(chip.glob.cols)
                THEN chip.shift[PlaceOf(chip.glob.cols, <<col, row>>)]
                ELSE chip.latch[item][col][row]]]]

Loaded(chip, item) ==
    [p \in 1..ChainLength(chip.glob.cols) |->
        LET pixel == ChainPixel(chip.glob.cols, p) IN chip.latch[item][pixel[1]][pixel[2]]]

Obeys(chip, stream) ==
    LET on == stream.cmd.on
        items == on \cap PixItems
    IN  [chip EXCEPT
            !.on = on,
            !.gshift = IF "ClockGlobal" \in on THEN Shifted(@, stream.data, GlobLength)
                       ELSE IF "ReadGlobal" \in on THEN GlobBits(chip.glob) ELSE @,
            !.glob = IF "WriteGlobal" \in on
                     THEN [cols |-> {d \in 0..DoubleCols - 1 : chip.gshift[d + 2]},
                           rest |-> chip.gshift[1]]
                     ELSE @,
            !.shift = IF "ClockPixel" \notin on THEN @
                      ELSE IF "ReadPixel" \in on THEN Loaded(chip, CHOOSE i \in items : TRUE)
                      ELSE Shifted(@, stream.data, ChainLength(chip.glob.cols)),
            !.latch = IF "ReadPixel" \in on THEN @ ELSE Latched(chip, items)]

\* writeToChip() of every stream.
Sent(streams) ==
    IF open
    THEN FoldLeft(LAMBDA cs, stream : [a \in Addresses |->
                      IF stream.cmd.broadcast \/ stream.cmd.address = a
                      THEN Obeys(cs[a], stream) ELSE cs[a]],
                  chips, streams)
    ELSE chips

-----------------------------------------------------------------------------
(***************************************************************************)
(* The calls, as the streams they send.                                    *)
(***************************************************************************)
New(address, broadcast) ==
    [data EXCEPT !.cmd = [address |-> address, broadcast |-> broadcast, on |-> {}],
                 !.feaddress = address, !.febroadcast = broadcast, !.stream = Cleared]

\* A stream that is a command and nothing else.
Command(d, commands) ==
    assembleCommandReg(setCommandRegValue(clearCommandReg(clearDataStream(d)), commands)).stream

\* The copy of the object a call works with.
Copy(d) == setDefault(d, d.cmd.address, d.cmd.broadcast)

\* The stream of the copy is not cleared first.
configureGlobReg(d) ==
    LET tmp == setCommandRegValue(Copy(d), {"ClockGlobal"})
    IN  <<assembleGlobReg(assembleCommandReg(tmp)).stream,
          Command(tmp, {"WriteGlobal"}), Command(tmp, {})>>

WritePixels(d, item) ==
    LET tmp == setCommandRegValue(clearCommandReg(clearDataStream(Copy(d))), {"ClockPixel"})
    IN  assemblePixReg(assembleCommandReg(tmp), item, d).stream

configurePixReg(d) ==
    FlattenSeq([i \in 1..Cardinality(PixItems) |->
        LET item == SetToSeq(PixItems)[i]
        IN  <<WritePixels(d, item), Command(Copy(d), {item}), Command(Copy(d), {})>>])

configureFE(d) == configureGlobReg(d) \o configurePixReg(d)

latchPixReg(d, item) ==
    LET tmp == New(d.cmd.address, d.cmd.broadcast) IN <<Command(tmp, {item}), Command(tmp, {})>>

\* The stream of the object with another command in front.
shiftIntoPixReg(d) ==
    LET tmp == setCommandRegValue(clearCommandReg(Copy(d)), {"ClockPixel"})
    IN  <<assembleCommandReg(tmp).stream, Command(tmp, {})>>

insertPixRegData(d, item) == shiftIntoPixReg(d) \o latchPixReg(d, item)

shiftItemIntoPixReg(d, item) == <<WritePixels(d, item), Command(Copy(d), {})>>

\* Mutated: the bits are shifted in once for all items of a group.
configurePixRegItem_Once(d, item) ==
    LET items == SetToSeq(ItemsOf(item))
    IN  shiftItemIntoPixReg(d, items[1])
            \o FlattenSeq([i \in 1..Len(items) |-> latchPixReg(d, items[i])])

configurePixRegItem(d, item) ==
    FlattenSeq([i \in 1..Cardinality(ItemsOf(item)) |->
        LET one == SetToSeq(ItemsOf(item))[i]
        IN  shiftItemIntoPixReg(d, one) \o latchPixReg(d, one)])

\* The two bits appended to the third stream are the cycles of the clock.
readPixReg(d, item) ==
    LET tmp == New(d.cmd.address, d.cmd.broadcast)
        clocked == [Command(tmp, {"ReadPixel", item, "ClockPixel"}) EXCEPT !.data = <<FALSE, FALSE>>]
    IN  <<Command(tmp, {"ReadPixel"}), Command(tmp, {"ReadPixel", item}), clocked,
          Command(tmp, {"ReadPixel"}), Command(tmp, {})>>

shiftIntoGlobReg(d) ==
    LET tmp == setCommandRegValue([New(d.cmd.address, d.cmd.broadcast) EXCEPT !.stream = d.stream],
                                  {"ClockGlobal"})
    IN  <<assembleCommandReg(tmp).stream, Command(tmp, {})>>
latchGlobReg(d) ==
    LET tmp == New(d.cmd.address, d.cmd.broadcast)
    IN  <<Command(tmp, {"WriteGlobal"}), Command(tmp, {})>>
readGlobReg(d) ==
    LET tmp == New(d.cmd.address, d.cmd.broadcast)
    IN  <<Command(tmp, {"ReadGlobal"}), Command(tmp, {})>>

-----------------------------------------------------------------------------
NoPixels == [item \in PixItems |-> [col \in Cols |-> [row \in RowNumbers |-> FALSE]]]

Init ==
    /\ \E cache \in InitialCaches :
          data = [cmd |-> NoCommand, glob |-> [cols |-> {}, rest |-> FALSE], pix |-> NoPixels,
                  feaddress |-> 0, febroadcast |-> FALSE, stream |-> Cleared,
                  cachekey |-> cache.key,
                  pos |-> [col \in Cols |-> [row \in RowNumbers |-> cache.position]]]
    /\ chips = [a \in Addresses |->
                   [gshift |-> [p \in 1..GlobLength |-> FALSE],
                    glob |-> [cols |-> {}, rest |-> FALSE],
                    shift |-> <<>>, latch |-> NoPixels, on |-> {}]]
    /\ open \in BOOLEAN
    /\ last = <<"none">>
    /\ steps = 0

Done(name) == steps < MaxSteps /\ steps' = steps + 1 /\ last' = name

\* The program works on the object.
Edit(d) == Done(<<"edit">>) /\ data' = d /\ UNCHANGED <<chips, open>>

SetColumns(cols, rest) == Edit([data EXCEPT !.glob = [cols |-> cols, rest |-> rest]])
SetPixel(item, col, row, bits) == Edit(setPixRegValue(data, item, col, row, bits))
SetTarget(address, broadcast) == Edit(setDefault(data, address, broadcast))
AssemblePix(item) == Edit(updatePixRegPosCache(assemblePixReg(data, item, data)))
AssembleGlob == Edit(assembleGlobReg(data))

\* The program calls the access layer.
Call(name, streams, d) ==
    Done(name) /\ chips' = Sent(streams) /\ data' = d /\ UNCHANGED open

ConfigureGlobReg == Call(<<"configureGlobReg">>, configureGlobReg(data), data)
ConfigurePixReg ==
    LET d == IF open THEN updatePixRegPosCache(data) ELSE data
    IN  Call(<<"configurePixReg">>, configurePixReg(d), d)
ConfigureFE ==
    LET d == IF open THEN updatePixRegPosCache(data) ELSE data
    IN  Call(<<"configureFE">>, configureFE(d), d)
ConfigurePixRegItem(item) ==
    LET d == updatePixRegPosCache(data)
    IN  Call(<<"configurePixRegItem", item>>, configurePixRegItem(d, item), d)
InsertPixRegData(item) == Call(<<"insertPixRegData", item>>, insertPixRegData(data, item), data)
ShiftIntoPixReg == Call(<<"shiftIntoPixReg">>, shiftIntoPixReg(data), data)
ShiftItemIntoPixReg(item) ==
    LET d == updatePixRegPosCache(data)
    IN  Call(<<"shiftItemIntoPixReg", item>>, shiftItemIntoPixReg(d, item), d)
LatchPixReg(item) == Call(<<"latchPixReg", item>>, latchPixReg(data, item), data)
ReadPixReg(item) == Call(<<"readPixReg", item>>, readPixReg(data, item), data)
ShiftIntoGlobReg == Call(<<"shiftIntoGlobReg">>, shiftIntoGlobReg(data), data)
LatchGlobReg == Call(<<"latchGlobReg">>, latchGlobReg(data), data)
ReadGlobReg == Call(<<"readGlobReg">>, readGlobReg(data), data)

\* The program takes what comes out of the shift register of a chip, the bit
\* that went in first first, and disassembles it.
Disassemble(item) ==
    LET bits == chips[data.cmd.address].shift
    IN  /\ Len(bits) = Rows * getActivePixColCount(data) /\ bits # <<>>
        /\ data' = disassemblePixReg(data, getActivePixCols(data), item, bits)
        /\ Done(<<"disassemble", item>>) /\ UNCHANGED <<chips, open>>

Next ==
    \/ \E cols \in SUBSET (0..DoubleCols - 1), rest \in BOOLEAN : SetColumns(cols, rest)
    \/ \E item \in PixItems \cup DOMAIN Groups, pixel \in EditedPixels :
          \E bits \in {{}, ItemsOf(item)} : SetPixel(item, pixel[1], pixel[2], bits)
    \/ \E address \in Addresses, broadcast \in BOOLEAN : SetTarget(address, broadcast)
    \/ \E item \in PixItems : AssemblePix(item)
    \/ AssembleGlob
    \/ ConfigureGlobReg \/ ConfigurePixReg \/ ConfigureFE
    \/ \E item \in PixItems \cup DOMAIN Groups : ConfigurePixRegItem(item)
    \/ \E item \in PixItems :
          \/ ShiftItemIntoPixReg(item) \/ LatchPixReg(item) \/ InsertPixRegData(item)
          \/ ReadPixReg(item) \/ Disassemble(item)
    \/ ShiftIntoPixReg \/ ShiftIntoGlobReg \/ LatchGlobReg \/ ReadGlobReg

Spec == Init /\ [][Next]_vars

-----------------------------------------------------------------------------
Addressed(a) == data.cmd.broadcast \/ data.cmd.address = a

\* Column and row of a position are the ones it was computed from: the two
\* directions of the pixel order are inverse (getPixRegPositionFromCoords,
\* getPixColFromPixRegPosition, getPixRowFromPixRegPosition).
PositionsInvert ==
    \A col \in getActivePixCols(data), row \in RowNumbers :
        LET position == getPixRegPositionFromCoords(data, col, row)
        IN  /\ position \in 0..Rows * getActivePixColCount(data) - 1
            /\ getPixColFromPixRegPosition(data, position) = col
            /\ getPixRowFromPixRegPosition(position) = row

\* After a configuration every pixel of the enabled columns of an addressed
\* chip is as the object says, item by item, if the global registers match or
\* are configured too and the object has no older stream (configurePixReg,
\* configureFE, assemblePixReg and the cache of the positions).
PixelsAsAsked ==
    [][(/\ open
        /\ \/ last'[1] = "configurePixReg"
           \/ (last'[1] = "configureFE" /\ data.stream = Cleared)) =>
         \A a \in Addresses :
            Addressed(a) /\ (last'[1] = "configureFE" \/ chips[a].glob = data.glob) =>
                \A item \in PixItems, col \in getActivePixCols(data) :
                    chips'[a].latch[item][col] = data.pix[item][col]]_vars

\* Configuring one item leaves the others of all pixels alone, and sets this
\* one (configurePixRegItem, latchPixReg).
OneItemChanges ==
    [][open /\ last'[1] = "configurePixRegItem" =>
         \A a \in Addresses : \A item \in PixItems :
            IF item \notin ItemsOf(last'[2]) THEN chips'[a].latch[item] = chips[a].latch[item]
            ELSE Addressed(a) /\ chips[a].glob = data.glob =>
                    \A col \in getActivePixCols(data) :
                        chips'[a].latch[item][col] = data.pix[item][col]]_vars

\* A call reaches the chips the object is addressed to, and no others.
OthersUntouched ==
    [][\A a \in Addresses : ~Addressed(a) => chips'[a] = chips[a]]_vars

\* No command stays on in a chip when a call has returned: every call ends
\* with an empty command to the chips it has commanded.
NoCommandStaysOn == [][\A a \in Addresses : chips'[a].on = {}]_vars

\* A call changes what it was asked to and nothing else, neither another item of the
\* pixels nor another chip on the line, and it leaves no chip under a command.
OnlyTheAskedChanges == OneItemChanges /\ OthersUntouched /\ NoCommandStaysOn

\* The global register of a chip is updated with the values stored in data.
GlobalAsStored ==
    [][open /\ last'[1] = "configureGlobReg" =>
         \A a \in Addresses : Addressed(a) => chips'[a].glob = data.glob]_vars

\* The same of an object that has not been used for longer streams.
GlobalAsAsked ==
    [][open /\ last'[1] = "configureGlobReg" /\ Len(data.stream.data) <= GlobLength =>
         \A a \in Addresses : Addressed(a) => chips'[a].glob = data.glob]_vars

\* After a configuration the addressed chips hold what the object says.
ChipsAsAsked == PixelsAsAsked /\ GlobalAsAsked

\* disassemblePixReg() of what the chip returns are the pixels of the chip.
PixelsReadBack ==
    [][last'[1] = "disassemble" /\ last = <<"readPixReg", last'[2]>>
            /\ open /\ chips[data.cmd.address].glob = data.glob =>
         \A col \in getActivePixCols(data) :
            data'.pix[last'[2]][col] = chips[data.cmd.address].latch[last'[2]][col]]_vars

\* The count of active double columns.
CountsDoubleColumns == getActivePixColCount(data) = Cardinality(data.glob.cols)
=============================================================================
