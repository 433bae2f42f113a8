------------------------------ MODULE DacWords ------------------------------
(***************************************************************************)
(* The words for the DAC chips (TMrfData_LTC with its classes for the      *)
(* LTC2620 and the LTC2604, TMrfData_ChainLTC for two LTC2604 in a chain): *)
(* the object keeps a value for every DAC next to the items of the word,   *)
(* assembleDAC() writes command, address and value of one DAC into the     *)
(* stream that is there.                                                   *)
(***************************************************************************)
EXTENDS ChipLayouts

CONSTANTS
    Chips,     \* the classes looked at
    MaxCalls   \* bound: calls of the program

VARIABLES
    chip,      \* the class of the object
    cmd,       \* value of the item "Command", for every chip of the chain
    dacs,      \* _ltcdacvalues: chip of the chain -> DAC -> value
    stream,    \* its TMrfData
    last,      \* history: the last call, with the DAC that was assembled
    calls

vars == <<chip, cmd, dacs, stream, last, calls>>

Table == CASE chip = "LTC2620" -> LTC2620 [] chip = "LTC2604" -> LTC2604
           [] chip = "Chain2LTC2604" -> Chain2LTC2604
Dacs == IF chip = "LTC2620" THEN 0..7 ELSE 0..3   \* also their addresses
ValueLength == IF chip = "LTC2620" THEN 12 ELSE 16
Links == IF chip = "Chain2LTC2604" THEN {0, 1} ELSE {0}
CommandItem(link) ==
    IF chip = "Chain2LTC2604" THEN <<IF link = 0 THEN "LTC1" ELSE "LTC2", "Command">> ELSE "Command"

\* The items of one DAC: _ltcdacaddress and _ltcdacvalues.
AddressItem(link) == [position |-> 32 * link + 12, length |-> 4]
ValueItem(link) == [position |-> 32 * link + 16, length |-> ValueLength]

BitsOf(number) == {b \in 0..3 : (number \div 2^b) % 2 = 1}

WithDac(s, dac, values, link) ==
    LET addressed == setStreamConfItemValue(Table, s, AddressItem(link), BitsOf(dac), 0)
    IN  setStreamConfItemValue(Table, addressed, ValueItem(link), values[link][dac], 0)

\* The commands of all chips, then the DAC of each.
assembleDAC(s, dac) ==
    LET commanded == FoldSet(LAMBDA link, t :
            setStreamConfItemValue(Table, t, Table.items[CommandItem(link)], cmd[link], 0),
            Prepared(Table, s), Links)
    IN  FoldSet(LAMBDA link, t : WithDac(t, dac, dacs, link), commanded, Links)

-----------------------------------------------------------------------------
Init ==
    /\ chip \in Chips
    /\ cmd = [link \in Links |-> {}]
    /\ dacs = [link \in Links |-> [dac \in Dacs |-> {}]]
    /\ stream = EmptyStream /\ last = <<"new">> /\ calls = 0

Call(what) == calls < MaxCalls /\ calls' = calls + 1 /\ last' = what /\ UNCHANGED chip

setCommand(link, command4) ==
    Call(<<"command">>) /\ cmd' = [cmd EXCEPT ![link] = command4] /\ UNCHANGED <<dacs, stream>>

setDACValue(link, dac, value) ==
    /\ Call(<<"value">>)
    /\ dacs' = [dacs EXCEPT ![link][dac] = value] /\ UNCHANGED <<cmd, stream>>

AssembleDAC(dac) ==
    Call(<<"assembleDAC", dac>>) /\ stream' = assembleDAC(stream, dac) /\ UNCHANGED <<cmd, dacs>>

\* The stream is filled with ones of another length.
Receive(length) ==
    /\ Call(<<"receive">>) /\ UNCHANGED <<cmd, dacs>>
    /\ stream' = setBits(setNumBits(EmptyStream, length), 0..length - 1, 0..length - 1, 0)

Next ==
    \/ \E link \in Links, command4 \in {{0, 1}, {2}} : setCommand(link, command4)
    \/ \E link \in Links, dac \in {1, 3}, value \in {{0}, {2, 20}, 0..ValueLength - 1} :
          setDACValue(link, dac, value)
    \/ \E dac \in Dacs : AssembleDAC(dac)
    \/ \E length \in {0, 20, 70} : Receive(length)

Spec == Init /\ [][Next]_vars

-----------------------------------------------------------------------------
(***************************************************************************)
(* The chip: 32 bits are shifted in, a byte that is ignored, then command, *)
(* address and value, each with its highest bit first.                     *)
(***************************************************************************)
Shifted(link, first, length) ==
    {b \in 0..length - 1 : getBit(stream, 32 * link + first + (length - 1 - b))}

\* Every chip of the chain gets the command and the address that were asked
\* for, and the value of this DAC cut to its width, whatever the object and
\* its stream were used for before (assembleDAC).
ChipSeesDac ==
    last[1] = "assembleDAC" => \A link \in Links :
        /\ Shifted(link, 8, 4) = cmd[link]
        /\ Shifted(link, 12, 4) = BitsOf(last[2])
        /\ Shifted(link, 16, ValueLength) = dacs[link][last[2]] \cap (0..ValueLength - 1)
=============================================================================
