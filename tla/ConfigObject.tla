---------------------------- MODULE ConfigObject ----------------------------
(***************************************************************************)
(* An object of one of the classes of ChipLayouts: the values of its items *)
(* and its bit stream, which assemble() and disassemble() turn into each   *)
(* other. The program sets values, assembles, sends the stream, replaces   *)
(* it by one that was read from a chip, disassembles.                      *)
(***************************************************************************)
EXTENDS ChipLayouts

CONSTANTS
    Classes,   \* the classes looked at
    MaxCalls   \* bound: calls of the program

VARIABLES
    class,     \* the class of the object
    values,    \* its items
    stream,    \* its TMrfData
    last,      \* history: the last call
    calls

vars == <<class, values, stream, last, calls>>

LayoutOf(name) ==
    CASE name = "LTC2620" -> LTC2620 [] name = "LTC2604" -> LTC2604
      [] name = "Chain2LTC2604" -> Chain2LTC2604 [] name = "DCMConf" -> DCMConf
      [] name = "TpxPixel" -> TpxPixel [] name = "Tpx3Pixel" -> Tpx3Pixel
      [] name = "TpxData" -> TpxData [] name = "Tpx3Data" -> Tpx3Data
      [] name = "Tpx3Command" -> Tpx3Command [] name = "Tpx3Config" -> Tpx3Config
      [] name = "TpxFlags" -> TpxFlags [] name = "Tpx3Flags" -> Tpx3Flags
      [] name = "AFEI3Command" -> AFEI3Command [] name = "AFEI3Global" -> AFEI3Global

layout == LayoutOf(class)

\* The lowest bit, all bits, and a bit that the item does not have.
Samples(item) == {{0}, 0..item.length - 1} \cup {{item.length} : x \in {item.length} \cap 0..bitsinablock - 1}

\* A stream of ones that was read: shorter than the class needs, or longer.
Foreign(length) ==
    LET s == setNumBits(EmptyStream, length)
    IN  setBits(s, 0..length - 1, 0..length - 1, length - 1)

Init ==
    /\ class \in Classes
    /\ values = [name \in DOMAIN LayoutOf(class).items |-> {}]
    /\ stream = EmptyStream /\ last = "new" /\ calls = 0

Call(name) == calls < MaxCalls /\ calls' = calls + 1 /\ last' = name /\ UNCHANGED class

\* setLocalItemValue: no range is checked.
SetLocal(name, value) ==
    /\ Call("set") /\ values' = [values EXCEPT ![name] = value] /\ UNCHANGED stream

\* setStreamItemValue: the stream alone.
SetStream(name, value) ==
    /\ Call("stream")
    /\ stream' = setStreamConfItemValue(layout, stream, layout.items[name], value, 0)
    /\ UNCHANGED values

Assemble ==
    /\ Call("assemble") /\ stream' = assemble(layout, stream, values) /\ UNCHANGED values

\* What a chip returns of the global register of the FE-I3 has no command in
\* front of it.
ReadLayout == IF class = "AFEI3Global" THEN AFEI3GlobalRead ELSE layout

Disassemble ==
    /\ Call("disassemble") /\ values' = disassemble(ReadLayout, stream) /\ UNCHANGED stream

Receive(length) == Call("receive") /\ stream' = Foreign(length) /\ UNCHANGED values

Next ==
    \/ \E name \in DOMAIN layout.items : \E value \in Samples(layout.items[name]) :
          SetLocal(name, value) \/ SetStream(name, value)
    \/ Assemble \/ Disassemble
    \/ \E length \in {registerlength(layout) - 1, registerlength(layout) + bitsinablock} :
          Receive(length)

Spec == Init /\ [][Next]_vars

-----------------------------------------------------------------------------
\* The bit of the register that a bit of an item is, and the place of a bit of
\* the register in the stream: the chips take the highest bit of a value of an
\* LTC first, and the registers of an FE-I3 with their last bit first.
Wire(table, item, b) ==
    IF table.streamreverse THEN table.streamoffset - 1 - (item.position + b)
    ELSE IF table.reverse THEN item.position + item.length - 1 - b
    ELSE item.position + b

\* What a chip keeps of a stream: the bits behind its command.
Kept(s, skip) ==
    LET kept == setNumBits(EmptyStream, s.reglengthbits - skip)
    IN  setBits(kept, 0..kept.reglengthbits - 1,
                {p \in 0..kept.reglengthbits - 1 : getBit(s, p + skip)}, 0)

\* Every bit of a stream assembled now is the bit of the one item that has its
\* place on the wire, whatever the stream was used for before and however
\* large the values are (assemble, setStreamConfItemValue, the tables).
WireFormat ==
    LET table == layout
        sent == assemble(table, stream, values)
    IN  /\ sent.reglengthbits >= registerlength(table)
        /\ \A name \in DOMAIN table.items : \A b \in 0..table.items[name].length - 1 :
               getBit(sent, Wire(table, table.items[name], b)) <=> b \in values[name]

\* disassemble() of what the chip keeps of an assembled stream returns the
\* values, cut to the lengths of their items.
RoundTrip ==
    LET table == layout
        sent == assemble(table, stream, values)
        prefix == IF class = "AFEI3Global" THEN command ELSE 0
    IN  disassemble(ReadLayout, Kept(sent, prefix))
            = [name \in DOMAIN values |-> Truncated(table.items[name], values[name])]

\* A value put into the stream changes no other item of it.
OthersKept ==
    last' = "stream" =>
        LET table == layout
            before == disassemble(table, stream)
            after == disassemble(table, stream')
        IN  \E name \in DOMAIN table.items : \A other \in DOMAIN table.items \ {name} :
                after[other] = before[other]
=============================================================================
