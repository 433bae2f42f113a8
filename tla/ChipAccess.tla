----------------------------- MODULE ChipAccess -----------------------------
(***************************************************************************)
(* A program that calls the chip access layer, the board, and the DACs     *)
(* behind it.  Every call is one step: MrfGalUdp implements the exchanges  *)
(* of which it consists.                                                   *)
(***************************************************************************)
EXTENDS MrfCal

CONSTANTS
    Chip,      \* "topix" or "topix3"
    Calls,     \* the calls the program makes
    Commands,  \* bits of the control register a board may take back
    Lucks,     \* what may become of the exchanges of a call
    MaxBuf,    \* bound: words of the TMrfData the program reads into
    MaxFifo    \* bound: DAQ words that wait in the board

VARIABLES
    dev,    \* the device, see GalUdpCalls, MrfTal and MrfCal
    chip,   \* the DACs: the command register of the board, the value that was
            \* written to a DAC, the value it puts out
    last    \* history: the last call and what became of its exchanges

vars == <<dev, chip, last>>

Off == -1   \* the output of a DAC that is switched off

\* What a call of the program does to the device.
Do(d, c) ==
    CASE c.op = "configLTC" -> IF Chip = "topix" THEN configLTC_Topix(d, c.conf) ELSE configLTC_Topix3(d, c.conf)
      [] c.op = "writeToChip" -> IF Chip = "topix" THEN writeToChip_Topix(d, c.words) ELSE writeToChip_Topix3(d, c.words)
      [] c.op = "readFromChip" -> readFromChip(d, c.ready)
      [] c.op = "prepareMaster" -> prepareMaster(d, c.words)
      [] c.op = "slowReg" -> configTopixSlowReg(d, c.words)
      [] c.op = "configCCR" -> configCCR(d, c.words)
      [] c.op = "readCCR" -> readCCR(d, c.n)
      [] c.op = "writeCommand" -> writeCommand(d)
      [] c.op = "startMaster" -> startMaster(d)
      [] c.op = "writeRemote" -> writeRemoteData_Base(d, c.words)
      [] c.op = "prepare" -> prepareOutputBuffer(d, c.n, c.flag)
      [] c.op = "readout" -> readOutputBuffer(d, c.n, c.at, c.flag, c.ready)
      [] c.op = "configDCM" -> configDCM(d, c.n, c.at)
      [] c.op = "configMMCM" -> configMMCM(d, c.words)
      [] c.op = "setLed" -> setLedState(d, c.n, c.flag)
      [] c.op = "getLed" -> getLedState(d, c.n)
      [] c.op = "isBusy" -> isBusy(d, {"busy"})
      [] c.op = "getFpgaID" -> getFpgaID(d)
      [] c.op = "getLedLine" -> getLedLine(d)

\* A DAC executes the command the board shifts out when it is told to: with
\* every write that has the bit.
Execute(ch, w) ==
    CASE w.cmd = "write"       -> [ch EXCEPT !.in[w.dac] = w.val]
      [] w.cmd = "update"      -> [ch EXCEPT !.out[w.dac] = ch.in[w.dac]]
      [] w.cmd = "writeupdate" -> [ch EXCEPT !.in[w.dac] = w.val, !.out[w.dac] = w.val]
      [] w.cmd = "powerdown"   -> [ch EXCEPT !.out[w.dac] = Off]

Shifted(ch, access) ==
    IF access[1] = "ltcconfig" THEN [ch EXCEPT !.reg = access[2]]
    ELSE IF access[1] = "control" /\ ltcconfig \subseteq access[2] /\ ch.reg # {}
    THEN Execute(ch, CHOOSE w \in ch.reg : TRUE)
    ELSE ch

ChipAfter(ch, log) == FoldLeft(Shifted, ch, log)

Call(c, luck) ==
    /\ dev' = [Do([dev EXCEPT !.luck = luck, !.log = <<>>], c) EXCEPT !.luck = <<>>]
    /\ chip' = IF Chip = "topix" THEN ChipAfter(chip, dev'.log) ELSE chip
    /\ last' = [call |-> c, luck |-> luck]
    /\ Len(dev'.buf) <= MaxBuf

\* openDevice() and closeDevice() when they succeed; MrfGalUdp has the rest.
OpenClose ==
    /\ dev' = [dev EXCEPT !.open = ~@, !.errcode = {}, !.log = <<>>]
    /\ last' = [call |-> [op |-> "open"], luck |-> <<>>]
    /\ UNCHANGED chip

\* The board takes back a bit when what it stands for is started, or keeps it
\* (creg in sm_sregs.vhd).
TakeBack ==
    /\ \E bit \in dev.regs["control"] \cap Commands :
           dev' = [dev EXCEPT !.regs["control"] = @ \ {bit}, !.log = <<>>]
    /\ last' = [call |-> [op |-> "taken_back"], luck |-> <<>>]
    /\ UNCHANGED chip

\* A DAQ word comes in.
DaqWord ==
    /\ Len(dev.fifo) < MaxFifo
    /\ \E w \in 1..2 : dev' = [dev EXCEPT !.fifo = Append(@, {w}), !.log = <<>>]
    /\ last' = [call |-> [op |-> "daq"], luck |-> <<>>]
    /\ UNCHANGED chip

Registers == {"ident", "control", "busy", "dcmconfigreg", "ledlinereg", "inputreg",
              "bitcountreg", "bitcountoreg", "input", "inputcount", "flags", "triggercount",
              "ltcconfig", "sdataout", "mmcm1", "mmcm2", "mmcmconfigregister"}
DacSet == {Dacs[k] : k \in DOMAIN Dacs}

Init ==
    /\ dev = [open |-> FALSE, errcode |-> {}, regs |-> [r \in Registers |-> {}], ret |-> {},
              n |-> 0, data |-> <<>>, log |-> <<>>, luck |-> <<>>,
              rb |-> {}, buf |-> <<>>, fifo |-> <<>>,
              cmds |-> <<"nooperation", "nooperation", "nooperation">>]
    /\ chip = [reg |-> {}, in |-> [a \in DacSet |-> Off], out |-> [a \in DacSet |-> Off]]
    /\ last = [call |-> [op |-> "none"], luck |-> <<>>]

Next ==
    \/ \E c \in Calls, luck \in Lucks : Call(c, luck)
    \/ OpenClose
    \/ TakeBack
    \/ DaqWord

Spec == Init /\ [][Next]_vars

-----------------------------------------------------------------------------
(***************************************************************************)
(* Properties.                                                             *)
(***************************************************************************)
AskedFor(a) == {Off} \cup {c.conf[a].val : c \in {d \in Calls : d.op = "configLTC"}}

\* The device between two calls; whatever is lost, a DAC has nothing or a value
\* that was asked for that DAC.
TypeOK ==
    /\ dev.errcode \subseteq ErrorFlag /\ dev.rb \subseteq RbError /\ dev.open \in BOOLEAN
    /\ DOMAIN dev.regs = Registers /\ dev.regs["control"] \subseteq Bits
    /\ dev.n \in Nat /\ Len(dev.buf) <= MaxBuf /\ Len(dev.fifo) <= MaxFifo
    /\ \A a \in DacSet : chip.in[a] \in AskedFor(a) /\ chip.out[a] \in AskedFor(a)

\* The last call was "op", on an open device, and no datagram was lost.
Clean(op) == last'.call.op = op /\ last'.luck = <<>> /\ dev.open

\* configLTC without a loss sets every DAC, whatever errors and values there
\* were before: the active ones put out their value, the others are off.
CleanConfigSetsDacs ==
    Clean("configLTC") =>
         \A a \in DacSet : LET w == last'.call.conf[a]
                           IN  chip'.out[a] = IF w.on THEN w.val ELSE Off

\* The first output that changes to a new value finds all new values written
\* (the two loops of configLTC).
NewValuesBeforeFirstOutput ==
    Clean("configLTC") =>
         LET conf == last'.call.conf
             active == {a \in DacSet : conf[a].on}
         IN  \A k \in 0..Len(dev'.log) :
                LET ch == ChipAfter(chip, SubSeq(dev'.log, 1, k))
                IN  (\E a \in active : ch.out[a] # chip.out[a]) =>
                        \A a \in active : ch.in[a] = conf[a].val

\* The bits of the control register a call sets and clears.
Sets(c) ==
    CASE c.op = "setLed" /\ c.n < 2 -> IF c.flag THEN Led[c.n + 1] ELSE {}
      [] c.op = "prepare" -> pandareset \cup outputenable \cup (IF c.flag THEN eoedetect ELSE {})
      [] c.op = "readFromChip" -> triggerwithlo \cup triggerread
      [] c.op = "configLTC" -> ltcconfig
      [] c.op = "writeToChip" -> IF Chip = "topix" THEN startshifter ELSE topix3config
      [] c.op \in {"configCCR", "readCCR", "writeCommand"} -> topix3config
      [] c.op = "startMaster" -> startmaster
      [] c.op = "writeRemote" -> startinput
      [] c.op = "configDCM" -> configdcm
      [] OTHER -> {}
Clears(c) == IF c.op = "setLed" /\ c.n < 2 /\ ~c.flag THEN Led[c.n + 1] ELSE {}

\* A call without a loss leaves all bits of the control register but its own as
\* they are, in every write it makes, and its own ones as it wants them at the
\* end, whatever was lost before and whichever bits the board takes back
\* (boardCommand, setFlag).
OtherFlagsKept ==
    dev.open /\ last'.luck = <<>> /\ last'.call \in Calls =>
         LET before == dev.regs["control"]
             own == Sets(last'.call) \cup Clears(last'.call)
         IN  /\ \A k \in DOMAIN dev'.log :
                    dev'.log[k][1] = "control" => dev'.log[k][2] \ own = before \ own
             /\ dev'.regs["control"] = (before \ own) \cup Sets(last'.call)

\* The serializer of a Topix 3 is started by the calls that send it something
\* (startSerializer, writeToChip, readCCR0, writeCommand).
SerializerOnlyAsAsked ==
    Chip = "topix3" /\ dev.open /\ last'.luck = <<>> /\ last'.call \in Calls
        /\ topix3config \subseteq dev'.regs["control"] \ dev.regs["control"] =>
            last'.call.op \in {"writeToChip", "configCCR", "readCCR", "writeCommand"}

\* A readout without an error takes the words from the front of the board's
\* fifo to their place behind the header and leaves the words in front of it; it
\* says how many, and never more than were asked for (readOutputBuffer).
ReadoutIsFifoFront ==
    last'.call.op = "readout" /\ dev'.n > 0 =>
         LET at == last'.call.at
         IN  /\ dev'.n <= last'.call.n
             /\ SubSeq(dev'.buf, at + 2, at + 1 + dev'.n) = SubSeq(dev.fifo, 1, dev'.n)
             /\ dev'.fifo = SubSeq(dev.fifo, dev'.n + 1, Len(dev.fifo))
             /\ SubSeq(dev'.buf, 1, at) = Grown(dev.buf, at)

\* The words a readout takes from the board reach the program
\* (readOutputBuffer: they are transferred to the TMrfData).
ReadoutLosesNoWord ==
    Clean("readout") => Len(dev'.fifo) + dev'.n = Len(dev.fifo)

\* The data is appended at the place that was asked for.
DataIsAppendedAt ==
    last'.call.op = "readout" /\ dev'.n > 0 =>
         LET at == last'.call.at
         IN  SubSeq(dev'.buf, at + 1, at + dev'.n) = SubSeq(dev.fifo, 1, dev'.n)

\* The error code of the board functions is about what happened after the last
\* successful one (getLastRBError).
RbErrorIsRecent ==
    Clean("readout") /\ dev'.n > 0 => lastRBActionSuccessful(dev')

\* A configuration that ends without an error is in the DACs
\* (lastActionSuccessful).
SuccessMeansConfigured ==
    last'.call.op = "configLTC" /\ dev.open /\ lastActionSuccessful(dev') =>
         \A a \in DacSet : last'.call.conf[a].on => chip'.out[a] = last'.call.conf[a].val

\* A call without a loss does what it does in a device without an error: what
\* happened before does not change what is sent (writeRemoteData, writeData).
OldErrorsChangeNothing ==
    dev.open /\ last'.luck = <<>> /\ last'.call \in Calls =>
         dev'.log = Do([dev EXCEPT !.errcode = {}, !.log = <<>>], last'.call).log
=============================================================================
