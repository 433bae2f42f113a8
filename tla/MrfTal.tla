------------------------------- MODULE MrfTal -------------------------------
(***************************************************************************)
(* The transport access layer of the readout library (TMrfTal_RBUDP,       *)
(* TMrfTal_RBTopix, TMrfTal_RBTopix3): register sequences, written as      *)
(* functions from the device before the call to the device after it, on    *)
(* top of the calls of GalUdpCalls.                                        *)
(*                                                                         *)
(* The device has three fields more:                                       *)
(*   rb    rb_errcode, the set of the flags of rb_error;                   *)
(*   buf   the TMrfData a readout goes to, as a sequence of words;         *)
(*   fifo  the DAQ words that wait in the board.                           *)
(* A register value is a set: of bit numbers in the control register, of   *)
(* one word, number or chip command in the others; {} is 0.                *)
(***************************************************************************)
EXTENDS GalUdpCalls, JdrsProtocol

CONSTANT
    InitReadout    \* what initReadout() of an open device may return: it has no
                   \* return statement, so that the build decides

RbError == {"read_failed", "initreadout_failed", "doreadout_failed", "device_not_open"}
MAX_BLOCKS_PER_UDP_PACKAGE == MAX_BLK_WORDS_PER_PKG + 1

\* The bits of the control register that the library calls rb_value and
\* tpxctrl_value. Three of them have two or more names: a Topix 3 calls
\* outputenable topix3config and eoedetect tpxfakedata, and configdcm is also
\* configmmcm and startinput.
pandareset == {2}
Led == <<{3}, {4}>>
configdcm == {5}
startinput == {5}
eoedetect == {8}
outputenable == {9}
topix3config == {9}
startshifter == {12}
startmaster == {13}
ltcconfig == {14}
triggerread == {15}
triggerwithlo == {16}

RbFails(d, E) == [d EXCEPT !.rb = @ \cup E]
lastRBActionSuccessful(d) == d.rb = {}

\* Mutated: the flag is written without the others.
boardCommand_Overwrites(d, flag, status) ==
    write(d, "control", IF status THEN flag ELSE {})

boardCommand(d, flag, status) == setFlag(d, "control", flag, status)
pandaReset(d) == boardCommand(d, pandareset, TRUE)

setLedState(d, led, state) ==
    IF led < 2 THEN boardCommand(d, Led[led + 1], state)
    ELSE [d EXCEPT !.errcode = @ \cup {"invalid_request"}]

getLedState(d, led) ==
    IF led < 2 THEN getFlag(d, "control", Led[led + 1])
    ELSE [d EXCEPT !.errcode = @ \cup {"invalid_request"}, !.n = 0]

isBusy(d, mask) == getFlag(d, "busy", mask)
getFpgaID(d) == read(d, "ident")
getLedLine(d) == read(d, "ledlinereg")

\* The event buffer ends at an end-of-event marker.
prepareOutputBuffer(d, count, event) ==
    IF ~d.open THEN RbFails(d, {"device_not_open"})
    ELSE LET counted == write(pandaReset(d), "bitcountoreg", {count})
             marked == IF event THEN boardCommand(counted, eoedetect, TRUE) ELSE counted
         IN  boardCommand(marked, outputenable, TRUE)

-----------------------------------------------------------------------------
(***************************************************************************)
(* The readout.                                                            *)
(***************************************************************************)
\* setNumWords(): k words, new ones 0.
Grown(words, k) == [j \in 1..k |-> IF j <= Len(words) THEN words[j] ELSE {}]

\* The first word of an answer, its identifier: no DAQ word.
Header == {0}

\* doIoctl() with a bulk read: the answer goes into buf behind its first "at"
\* words, the header in front; n is the number of words behind the header, or
\* what was asked for if there is no answer; the error code of an earlier call
\* stays.
bulk(d, count, at) ==
    LET lim == IF count > MAX_BLOCKS_PER_UDP_PACKAGE THEN MAX_BLOCKS_PER_UDP_PACKAGE ELSE count
        taken == BulkReadTarget(lim, Len(d.fifo))
        answer == <<Header>> \o SubSeq(d.fifo, 1, taken)
    IN  [d EXCEPT
            !.luck = NextLuck(d),
            !.fifo = IF BoardGets(d) THEN SubSeq(@, taken + 1, Len(@)) ELSE @,
            !.buf = IF Answered(d)
                    THEN SubSeq(@, 1, at) \o answer \o SubSeq(@, at + taken + 2, Len(@)) ELSE @,
            !.n = IF Answered(d) THEN taken ELSE lim,
            !.errcode = IF SendFails(d) THEN {"ioctl_failed"}
                        ELSE IF Answered(d) THEN @ ELSE {"read_failed"}]

\* doReadout(): any error code makes it fail. The test for the word 0xeeeeeeee
\* of an empty fifo looks at the header, and never finds it.
doReadout(d, count, at) ==
    LET b == bulk(d, count, at)
    IN  IF lastActionSuccessful(b) THEN b ELSE RbFails(b, {"doreadout_failed", "read_failed"})

\* Mutated: with truncate the words in front are gone as well.
readOutputBuffer_DropsFront(d, count, at, truncate, ready) ==
    LET room == [d EXCEPT !.buf = IF Len(@) < at + count + 1 THEN Grown(@, at + count + 1) ELSE @,
                          !.n = 0]
        got == doReadout(room, count, at)
    IN  IF ~d.open THEN [RbFails(d, {"device_not_open"}) EXCEPT !.n = 0]
        ELSE IF ~lastActionSuccessful(got) THEN [got EXCEPT !.n = 0]
        ELSE IF truncate THEN [got EXCEPT !.buf = Grown(SubSeq(@, at + 1, Len(@)), at + got.n + 1)] ELSE got

\* readOutputBuffer(): "at" words stay in front of the header; "ready" is what
\* initReadout() returned.
readOutputBuffer(d, count, at, truncate, ready) ==
    LET room == [d EXCEPT !.buf = IF Len(@) < at + count + 1 THEN Grown(@, at + count + 1) ELSE @,
                          !.n = 0]
        got == doReadout(room, count, at)
        Failed(r) == [r EXCEPT !.buf = IF truncate THEN <<>> ELSE @, !.n = 0]
    IN  IF ~d.open THEN [RbFails(d, {"device_not_open"}) EXCEPT !.n = 0]
        ELSE IF ready < 0 THEN Failed(RbFails(room, {"read_failed"}))
        ELSE IF ~lastActionSuccessful(got) THEN Failed(got)
        ELSE IF truncate THEN [got EXCEPT !.buf = Grown(@, at + got.n + 1)]
        ELSE got

readRemoteData(d, ready) == readOutputBuffer(d, Len(d.buf), 0, TRUE, ready)

-----------------------------------------------------------------------------
(***************************************************************************)
(* Configuration.  Words are the words of a TMrfData, in their order.      *)
(***************************************************************************)
\* writeRegisterData(): only the first word.
writeRegisterData(d, addr, words) == write(d, addr, words[1])

\* writeRegisterDataAddress(): item after item, each with its address.
writeRegisterDataAddress(d, items) ==
    FoldLeft(LAMBDA r, item : write(r, item.addr, item.val), d, items)

\* writeRemoteData() of the base class; those of the Topix boards write to
\* their input register and leave the rest to startShifter().
writeRemoteData_Base(d, words) ==
    boardCommand(writeData(write(d, "bitcountreg", {Len(words)}), "inputreg", words),
                 startinput, TRUE)
writeRemoteData(d, words) == writeData(d, "input", words)

configDCM(d, m, div) ==
    LET half(r, item) == boardCommand(writeData(r, "dcmconfigreg", <<{item}>>), configdcm, TRUE)
    IN  IF ~d.open THEN [d EXCEPT !.errcode = @ \cup {"device_not_open"}]
        ELSE half(half(d, <<"Multiplier", m>>), <<"Divider", div>>)

\* configMMCM(): the registers of the wanted frequency, and the command (the
\* octal number 10 in the source is 8).
configMMCM(d, items) ==
    IF ~d.open THEN [d EXCEPT !.errcode = @ \cup {"device_not_open"}]
    ELSE write(writeRegisterDataAddress(d, items), "mmcmconfigregister", {8})

triggerRead(d, count, withlo) ==
    boardCommand(boardCommand(write(d, "triggercount", {count}), triggerwithlo, withlo),
                 triggerread, TRUE)

configTopixSlowReg(d, words) == writeRegisterData(d, "flags", words)
startMaster(d) == boardCommand(d, startmaster, TRUE)
startShifter(d, count) == boardCommand(write(d, "inputcount", {count}), startshifter, TRUE)
startSerializer(d, count) == boardCommand(write(d, "inputcount", {count}), topix3config, TRUE)

\* writeLTCData(): the Topix board takes the first word, the Topix3 board all.
writeLTCData_Topix(d, words) ==
    boardCommand(writeRegisterData(d, "ltcconfig", words), ltcconfig, TRUE)
writeLTCData_Topix3(d, words) ==
    boardCommand(writeData(d, "ltcconfig", words), ltcconfig, TRUE)
=============================================================================
