----------------------------- MODULE MCChipData -----------------------------
(***************************************************************************)
(* The bits of the library: its streams, in words of 3 bits and up to 7    *)
(* bits long, so that most lengths end inside a word; and, in words of     *)
(* their real width, the classes built on the streams. The objects of a    *)
(* program share nothing, so a behaviour is the life of one of them.       *)
(***************************************************************************)
EXTENDS DataStream

CONSTANTS Asked, Losable, RA_START, RA_STEP    \* Mmcm

VARIABLES
    subject,                                   \* whose life it is
    stream, called, calls,                     \* shared by the classes
    class, values,                             \* ConfigObject
    chip, cmd, dacs,                           \* DacWords
    pixregs,                                   \* PixelColumns
    upper_lower, text, display,                \* LcdText
    open, divs, _frequency, items, board, clock, asked, lost   \* Mmcm

object == <<class, values>>
dac == <<chip, cmd, dacs>>
lcd == <<upper_lower, text, display>>
generator == <<open, divs, _frequency, items, board, clock, asked, lost>>

-----------------------------------------------------------------------------
(* Calls of the streams. *)
C(op, pos, n, val) ==
    [op |-> op, pos |-> pos, n |-> n, val |-> val, mask |-> {}, offset |-> 0,
     factor |-> 1, reverse |-> FALSE]

Resizing ==
    {C("setNumBits", 0, n, {}) : n \in {1, 4, 5, 7}}
        \cup {C("setNumWords", 0, n, {}) : n \in 1..2} \cup {C("clear", 0, 0, {})}

Bitwise == {C("setBit", p, 0, v) : p \in {0, 3, 7}, v \in {{}, {0}}}
              \cup {C("appendBit", 0, 0, v) : v \in {{}, {0}}}

Wordwise == {[C("setWord", p, 0, v) EXCEPT !.reverse = r] :
                p \in 0..2, v \in {{1}, {0, 2}}, r \in BOOLEAN}
              \cup {C("appendWord", 0, 0, {0, 1})}

Blocks == {[C("setBitBlock", p, 3, v) EXCEPT !.offset = o, !.reverse = r] :
             p \in {1, 4}, v \in {{0}, {1, 2}}, o \in 0..1, r \in BOOLEAN}
           \cup {C("importBinString", p, 2, {1}) : p \in {0, 4}}
           \cup {[C("get", 2, 3, {}) EXCEPT !.reverse = r] : r \in BOOLEAN}

Samples == {[C("resample", p, 0, {}) EXCEPT !.factor = f, !.reverse = r] :
              p \in 0..1, f \in 1..2, r \in BOOLEAN}
           \cup {[C("resample", 0, 1, {}) EXCEPT !.factor = 2]}

\* A mask that spares no bit, and one that spares the middle one.
Masked == {[C("setWordMasked", p, 0, {0, 1}) EXCEPT !.mask = m] : p \in 0..2, m \in {{0, 1, 2}, {0, 2}}}

AllCalls == Resizing \cup Bitwise \cup Wordwise \cup Blocks \cup Samples \cup Masked

-----------------------------------------------------------------------------
(* The classes, with words of 32 bits. *)
Classes == {"LTC2620", "LTC2604", "Chain2LTC2604", "DCMConf", "TpxPixel", "Tpx3Pixel",
            "TpxData", "Tpx3Data", "Tpx3Command", "Tpx3Config", "TpxFlags", "Tpx3Flags",
            "AFEI3Command"}
Objects == INSTANCE ConfigObject WITH
    bitsinablock <- 32, U32 <- 65536, Classes <- Classes, MaxCalls <- 2, last <- called

\* The global register of the FE-I3: 80 items in 231 bits.
Register == INSTANCE ConfigObject WITH
    bitsinablock <- 32, U32 <- 65536, Classes <- {"AFEI3Global"}, MaxCalls <- 1, last <- called

Dacs == INSTANCE DacWords WITH
    bitsinablock <- 32, U32 <- 65536, MaxCalls <- 4, last <- called,
    Chips <- {"LTC2620", "LTC2604", "Chain2LTC2604"}

Columns == INSTANCE PixelColumns WITH
    bitsinablock <- 32, U32 <- 65536, longrowcount <- 3, shortrowcount <- 1, MaxSet <- 2,
    last <- called

\* The tables are what the theorems about items ask for (ChipData_proofs).
ASSUME TablesAssumption ==
    /\ \A name \in Classes : Objects!ProperTable(Objects!LayoutOf(name))
    /\ Register!ProperTable(Register!LayoutOf("AFEI3Global"))
    /\ Register!ProperTable(Register!AFEI3GlobalRead)

\* A letter and a backslash, which the display does not have.
Lcd == INSTANCE LcdText WITH
    bitsinablock <- 32, U32 <- 65536, Chars <- {65, 92}, LineLength <- 2, MaxText <- 3

\* Words with one bit, with all bits, ends of events, and hits of rows 0x80,
\* 0x9f (the last one), 0xa0 and 0xdf; bit 11 of a word is the highest of a row.
RowBits(bits) == {6 + 5 + 7 - b : b \in bits}
SampleWords ==
    {{b} : b \in {5, 6, 7, 19, 23, 24, 25, 31}} \cup {{}, 0..31}
        \cup {RowBits(bits) : bits \in {{7}, {0, 1, 2, 3, 4, 7}, {5, 7}, {5, 6, 7}, {0, 1, 2, 3, 4, 6, 7}}}
Hits == INSTANCE HitStream WITH
    bitsinablock <- 32, U32 <- 65536, Words <- SampleWords, Rows <- 160, MaxWords <- 2

\* The search runs over all dividers the library tries. The values of its constants:
\* no frequency, one below and one above what the generator can do, and some between;
\* a board with the addresses of register_config.vhd.
Generator == INSTANCE Mmcm

-----------------------------------------------------------------------------
(* Who is not the subject does nothing. *)
NoObject == class = "none" /\ values = "none"
NoDac == chip = "none" /\ cmd = "none" /\ dacs = "none"
NoColumn == pixregs = "none"
NoLcd == upper_lower = "none" /\ text = "none" /\ display = "none"
NoGenerator ==
    /\ open = "none" /\ divs = "none" /\ _frequency = "none" /\ items = "none"
    /\ board = "none" /\ clock = "none" /\ asked = "none" /\ lost = "none"
NoStream == stream = "none"
NotCalled == called = "none" /\ calls = 0

DataInit ==
    /\ Init
    /\ \/ subject = "stream" /\ NoObject /\ NoDac /\ NoColumn /\ NoLcd /\ NoGenerator
            /\ NoStream /\ NotCalled
       \/ subject = "object" /\ Objects!Init /\ NoDac /\ NoColumn /\ NoLcd /\ NoGenerator
       \/ subject = "register" /\ Register!Init /\ NoDac /\ NoColumn /\ NoLcd /\ NoGenerator
       \/ subject = "dac" /\ Dacs!Init /\ NoObject /\ NoColumn /\ NoLcd /\ NoGenerator
       \/ subject = "column" /\ Columns!Init /\ calls = 0 /\ NoObject /\ NoDac /\ NoLcd /\ NoGenerator
       \/ subject = "lcd" /\ Lcd!Init /\ NotCalled /\ NoObject /\ NoDac /\ NoColumn /\ NoGenerator
       \/ subject = "hits" /\ Hits!Init /\ NotCalled /\ NoObject /\ NoDac /\ NoColumn /\ NoLcd
            /\ NoGenerator
       \/ subject = "generator" /\ Generator!Init /\ NoStream /\ NotCalled /\ NoObject /\ NoDac
            /\ NoColumn /\ NoLcd

DataNext ==
    /\ UNCHANGED subject
    /\ \/ subject = "stream" /\ Next
            /\ UNCHANGED <<object, dac, pixregs, lcd, generator, stream, called, calls>>
       \/ subject = "object" /\ Objects!Next /\ UNCHANGED <<vars, dac, pixregs, lcd, generator>>
       \/ subject = "register" /\ Register!Next /\ UNCHANGED <<vars, dac, pixregs, lcd, generator>>
       \/ subject = "dac" /\ Dacs!Next /\ UNCHANGED <<vars, object, pixregs, lcd, generator>>
       \/ subject = "column" /\ Columns!Next
            /\ UNCHANGED <<vars, calls, object, dac, lcd, generator>>
       \/ subject = "lcd" /\ Lcd!Next
            /\ UNCHANGED <<vars, called, calls, object, dac, pixregs, generator>>
       \/ subject = "hits" /\ Hits!Next
            /\ UNCHANGED <<vars, called, calls, object, dac, pixregs, lcd, generator>>
       \/ subject = "generator" /\ Generator!Next
            /\ UNCHANGED <<vars, stream, called, calls, object, dac, pixregs, lcd>>

all == <<vars, subject, stream, called, calls, object, dac, pixregs, lcd, generator>>
DataSpec == DataInit /\ [][DataNext]_all

-----------------------------------------------------------------------------
\* Whatever an object and its stream were used for before, a chip finds every
\* value in its place on the wire: the items of all classes (assemble), command,
\* address and value of a DAC (assembleDAC), the pixels of a column (assembleCol).
ValuesOnTheWire ==
    /\ subject = "object" => Objects!WireFormat
    /\ subject = "register" => Register!WireFormat
    /\ subject = "dac" => Dacs!ChipSeesDac
    /\ subject = "column" => Columns!ColumnIsItsPixels

\* What a chip keeps of a stream comes back as the values that were sent
\* (disassemble), and the words of hits are read item by item, all of them, a
\* pixel never as an end of event (getDataType).
ValuesReadBack ==
    /\ subject = "object" => Objects!RoundTrip
    /\ subject = "register" => Register!RoundTrip
    /\ subject = "hits" => Hits!ItemsAreTheWord /\ Hits!PixelsAreHits

\* A value put into a stream changes no other item of it, and a text on the
\* display no other place (setStreamItemValue, MrfData_LCD::assemble).
OnlyItsPlaceChanges ==
    [][/\ subject = "object" => Objects!OthersKept
       /\ subject = "lcd" => Lcd!LineShown]_all

\* The registers that are sent to the generator, whatever was asked for before,
\* make it run with the frequency that is returned (configMMCM).
RegistersAsReturned == subject = "generator" => Generator!RegistersAsReturned
=============================================================================
