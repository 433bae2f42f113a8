---------------------------- MODULE MCChipAccess ----------------------------
(***************************************************************************)
(* Programs that call the chip access layer: one that configures the two   *)
(* DACs of a Topix board, three for a Topix 3 board that use its control   *)
(* register, send streams, and send commands, and one that reads data out. *)
(* At most one exchange of a call goes wrong.                              *)
(***************************************************************************)
EXTENDS Integers, Sequences

CONSTANTS
    Bits,      \* bits of the control register that have a name, and those of them
    Commands,  \* a board may take back
    MAX_BLK_WORDS_PER_PKG

VARIABLES
    dev, chip, last,   \* see ChipAccess
    program            \* whose calls they are

BothReadout == {-1, 0}   \* what initReadout leaves in the result register

C(op) == [op |-> op, n |-> 0, at |-> 0, flag |-> FALSE, ready |-> 0, words |-> <<>>, conf |-> <<>>]
Conf(onA, a, b) == [dac \in {"A", "B"} |-> IF dac = "A" THEN [on |-> onA, val |-> a]
                                           ELSE [on |-> TRUE, val |-> b]]
Items == <<[addr |-> "mmcm1", val |-> {1}], [addr |-> "mmcm2", val |-> {2}]>>

ConfigCalls == {[C("configLTC") EXCEPT !.conf = Conf(on, 1, 2)] : on \in BOOLEAN}
                  \cup {[C("configLTC") EXCEPT !.conf = Conf(TRUE, 1, 3)]}

ReadCalls ==
    {[C("readout") EXCEPT !.n = k, !.at = at, !.flag = t] :
        k \in {1, 3}, at \in 0..1, t \in BOOLEAN}
    \cup {[C("readout") EXCEPT !.n = 3, !.at = 1, !.flag = t, !.ready = -1] : t \in BOOLEAN}

\* The calls that share the control register; two of them share a bit of it.
BoardCalls ==
    {[C("setLed") EXCEPT !.n = 1, !.flag = f] : f \in BOOLEAN}
    \cup {[C("setLed") EXCEPT !.n = 2], [C("getLed") EXCEPT !.n = 1],
          [C("prepare") EXCEPT !.n = 1, !.flag = TRUE],
          [C("writeToChip") EXCEPT !.words = <<{1}>>], C("readFromChip")}

\* The calls that send streams to a Topix 3 and words to the clock generator, or
\* read the board.
SetLed == [C("setLed") EXCEPT !.n = 0, !.flag = TRUE]
StreamCalls ==
    {[C("prepareMaster") EXCEPT !.words = Items], [C("configMMCM") EXCEPT !.words = Items],
     [C("writeToChip") EXCEPT !.words = <<{1}, {2}>>],
     [C("writeRemote") EXCEPT !.words = <<{1}, {2}>>],
     C("isBusy"), C("getLedLine"), SetLed}

\* The calls that send commands and configurations to it.
CommandCalls ==
    {[C("configCCR") EXCEPT !.words = <<{1}, {2}, {3}>>], [C("readCCR") EXCEPT !.n = 2],
     [C("slowReg") EXCEPT !.words = <<{1}>>], [C("configDCM") EXCEPT !.n = 2, !.at = 3],
     C("writeCommand"), SetLed}

DacCalls == ConfigCalls \cup {C("startMaster")}
Faults == {"not_sent", "request_lost", "reply_lost"}
OneFault(k) == {<<>>} \cup {[j \in 1..m |-> IF j = m THEN f ELSE "ok"] : m \in 1..k, f \in Faults}
FewLucks == OneFault(2)
ManyLucks == OneFault(12)

-----------------------------------------------------------------------------
DacOrder == <<"A", "B">>

Configuration == INSTANCE ChipAccess WITH
    InitReadout <- BothReadout, Dacs <- DacOrder, Chip <- "topix",
    Calls <- DacCalls, Lucks <- ManyLucks, MaxBuf <- 4, MaxFifo <- 0
Board == INSTANCE ChipAccess WITH
    InitReadout <- BothReadout, Dacs <- DacOrder, Chip <- "topix3",
    Calls <- BoardCalls, Lucks <- OneFault(1), MaxBuf <- 4, MaxFifo <- 0
Streams == INSTANCE ChipAccess WITH
    InitReadout <- BothReadout, Dacs <- DacOrder, Chip <- "topix3",
    Calls <- StreamCalls, Lucks <- OneFault(1), MaxBuf <- 4, MaxFifo <- 0
Orders == INSTANCE ChipAccess WITH
    InitReadout <- BothReadout, Dacs <- DacOrder, Chip <- "topix3",
    Calls <- CommandCalls, Lucks <- OneFault(1), MaxBuf <- 4, MaxFifo <- 0
Readout == INSTANCE ChipAccess WITH
    InitReadout <- BothReadout, Dacs <- DacOrder, Chip <- "topix",
    Calls <- ReadCalls, Lucks <- FewLucks, MaxBuf <- 5, MaxFifo <- 2

vars == <<dev, chip, last, program>>
Init == Board!Init /\ program \in {"configuration", "board", "streams", "orders", "readout"}
Next ==
    /\ UNCHANGED program
    /\ \/ program = "configuration" /\ Configuration!Next
       \/ program = "board" /\ Board!Next
       \/ program = "streams" /\ Streams!Next
       \/ program = "orders" /\ Orders!Next
       \/ program = "readout" /\ Readout!Next
Spec == Init /\ [][Next]_vars

-----------------------------------------------------------------------------
\* Whatever is lost, a DAC has nothing or a value that was asked for that DAC; and
\* configLTC without a loss sets every DAC, whatever errors and values there were
\* before: the active ones put out their value, the others are off.
CleanConfigSetsDacs ==
    [][program = "configuration" =>
         Configuration!TypeOK' /\ Configuration!CleanConfigSetsDacs]_vars

\* The first output that changes to a new value finds all new values written
\* (the two loops of configLTC).
NewValuesBeforeFirstOutput ==
    [][program = "configuration" => Configuration!NewValuesBeforeFirstOutput]_vars

\* Register sequences without a loss that share the control register change no bit
\* of it but their own, on a board that keeps the bits and on one that takes them
\* back (boardCommand, setFlag).
OtherFlagsKept ==
    [][/\ program = "configuration" => Configuration!OtherFlagsKept
       /\ program = "board" => Board!OtherFlagsKept
       /\ program = "streams" => Streams!OtherFlagsKept
       /\ program = "orders" => Orders!OtherFlagsKept]_vars

\* What a readout returns is the front of the fifo of the board, behind the
\* header of the answer, and never more than was asked for (readOutputBuffer).
ReadoutIsFifoFront == [][program = "readout" => Readout!ReadoutIsFifoFront]_vars
=============================================================================
