------------------------------- MODULE MrfCal -------------------------------
(***************************************************************************)
(* The chip access layer of the readout library (TMrfCal_Topix,            *)
(* TMrfCal_Topix3): what a program calls to configure and read a chip, as  *)
(* functions on the devices of MrfTal.                                     *)
(*                                                                         *)
(* The configuration of the DACs is a function from a DAC to a record: on  *)
(* (it is activated) and val.  Dacs is the order of the iterators.         *)
(***************************************************************************)
EXTENDS MrfTal

CONSTANT Dacs   \* the DACs in the order of their names

Ltc(cmd, dac, conf) == {[cmd |-> cmd, dac |-> dac, val |-> conf[dac].val]}

\* Mutated: the value is put out as soon as it is written.
configLTC_Topix_Updates(d, conf) ==
    FoldLeft(LAMBDA r, dac : writeLTCData_Topix(r, <<Ltc(
                 IF conf[dac].on THEN "writeupdate" ELSE "powerdown", dac, conf)>>), d, Dacs)

\* Mutated: the DAC that is off is left as it is.
configLTC_Topix_NoPowerdown(d, conf) ==
    LET active == SelectSeq(Dacs, LAMBDA dac : conf[dac].on)
        word(dac) == Ltc("write", dac, conf)
        update(dac) == Ltc("update", dac, conf)
    IN  FoldLeft(LAMBDA r, w : writeLTCData_Topix(r, <<w>>), d,
                 [k \in DOMAIN active |-> word(active[k])]
                     \o [k \in DOMAIN active |-> update(active[k])])

\* All DACs get their value or are switched off, then the active ones put it
\* out.
configLTC_Topix(d, conf) ==
    LET active == SelectSeq(Dacs, LAMBDA dac : conf[dac].on)
        word(dac) == Ltc(IF conf[dac].on THEN "write" ELSE "powerdown", dac, conf)
        update(dac) == Ltc("update", dac, conf)
    IN  FoldLeft(LAMBDA r, w : writeLTCData_Topix(r, <<w>>), d,
                 [k \in DOMAIN Dacs |-> word(Dacs[k])]
                     \o [k \in DOMAIN active |-> update(active[k])])

\* Both chips of the chain get a command for the same DAC.  The chip names are
\* not told apart: conf holds for both.
configLTC_Topix3(d, conf) ==
    LET word(dac) == Ltc(IF conf[dac].on THEN "writeupdate" ELSE "powerdown", dac, conf)
    IN  FoldLeft(LAMBDA r, dac : writeLTCData_Topix3(r, <<word(dac), word(dac)>>), d, Dacs)

\* prepareMaster(): writeRegister() for every item.
prepareMaster(d, items) == writeRegisterDataAddress(d, items)

writeToChip_Topix(d, words) == startShifter(writeRemoteData(d, words), Len(words))
writeToChip_Topix3(d, words) == boardCommand(writeRemoteData(d, words), topix3config, TRUE)
readFromChip(d, ready) == readRemoteData(triggerRead(d, Len(d.buf), TRUE), ready)

configCCR(d, words) ==
    LET started == startSerializer(writeRemoteData(d, words), 18)
    IN  FoldLeft(LAMBDA r, k : read(r, "sdataout"), started, <<1, 2, 3>>)

\* readCCR0() to readCCR2(): the command to read register k of the chip, then
\* one that does nothing; the second word that comes back is kept in word k of
\* the data (buf), whose other words are assembled anew.  cmds are the commands
\* of the three words: the second one stays.
Ccr(cmd, k) == {<<cmd, k>>}
readCCR(d, k) ==
    LET asked == write(d, "input", Ccr("readdata", k))
        idle == write(asked, "input", Ccr("nooperation", k))
        first == read(boardCommand(idle, topix3config, TRUE), "sdataout")
        second == read(first, "sdataout")
        cmds == [d.cmds EXCEPT ![k + 1] = "nooperation"]
    IN  [second EXCEPT !.cmds = cmds,
                       !.buf = [j \in 1..3 |-> IF j = k + 1 THEN second.ret ELSE Ccr(cmds[j], j - 1)]]

\* writeCommand(): all words are assembled, the first one is sent.
writeCommand(d) ==
    LET words == [j \in 1..3 |-> Ccr(d.cmds[j], j - 1)]
    IN  boardCommand(write([d EXCEPT !.buf = words], "input", words[1]), topix3config, TRUE)
=============================================================================
