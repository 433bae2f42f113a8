---------------------------- MODULE ChipLayouts ----------------------------
(***************************************************************************)
(* The tables of the classes for the chips: the bits of the configuration  *)
(* and data words of Topix 2 and 3, of the DAC chips LTC2604 and LTC2620   *)
(* and a chain of two LTC2604, of the clock manager, and of the FE-I3.     *)
(***************************************************************************)
EXTENDS ConfItems

LTC2620 == Layout(<<Item("Padding", 0, 8), Item("Command", 8, 4), Item("Address", 12, 4),
                    Item("Data", 16, 12), Item("DontCare", 28, 4)>>, TRUE)

LTC2604 == Layout(<<Item("Padding", 0, 8), Item("Command", 8, 4), Item("Address", 12, 4),
                    Item("Data", 16, 16)>>, TRUE)

Chain2LTC2604 == Layout(<<
    Item(<<"LTC1", "Padding">>, 0, 8), Item(<<"LTC1", "Command">>, 8, 4),
    Item(<<"LTC1", "Address">>, 12, 4), Item(<<"LTC1", "Data">>, 16, 16),
    Item(<<"LTC2", "Padding">>, 32, 8), Item(<<"LTC2", "Command">>, 40, 4),
    Item(<<"LTC2", "Address">>, 44, 4), Item(<<"LTC2", "Data">>, 48, 16)>>, TRUE)

\* The word that writes one register of the clock manager, of a new stream.
DCMConf == [Layout(<<Item("DRPAddress", 16, 7), Item("Value", 0, 16)>>, FALSE) EXCEPT !.clears = 1]

TpxPixel == Layout(<<Item("Mask", 0, 1), Item("TDAC", 1, 4), Item("DACPolarity", 5, 1),
    Item("CompToVout", 6, 1), Item("CalDisable", 7, 1), Item("SensorType", 8, 4)>>, FALSE)

Tpx3Pixel == Layout(<<Item("PixelMask", 0, 1), Item("TestPulsEnable", 1, 1),
    Item("ComparatorTestOutEnable", 2, 1), Item("ThresholdDAC", 3, 4),
    Item("ThresholdDACSign", 7, 1), Item("NotUsed", 8, 4), Item("OperationCode", 12, 5),
    Item("Padding", 17, 15)>>, FALSE)

TpxData == Layout(<<Item("LoWord", 0, 12), Item("HiWord", 12, 12), Item("Padding", 24, 8)>>, FALSE)

Tpx3Data == Layout(<<Item("columnaddress", 0, 1), Item("pixeladdress", 1, 7),
    Item("leadingedge", 8, 12), Item("trailingedge", 20, 12)>>, FALSE)

Tpx3Command == Layout(<<Item("data", 0, 12), Item("operationcode", 12, 5),
                        Item("padding", 17, 15)>>, FALSE)

Tpx3Config == Layout(<<
    Item("LeadingEdgeOnly", 0, 1), Item("CounterMode", 1, 1), Item("CounterEnable", 2, 1),
    Item("ReadoutCycleHalfSpeed", 3, 1), Item("DriverPreemphasis", 4, 1),
    Item("SLVSCurrentControl", 5, 4), Item("FreezeStop", 9, 3), Item("CommandCCR0", 12, 5),
    Item("PaddingCCR0", 17, 15),
    Item("Leak_N", 32, 1), Item("Leak_P", 33, 1), Item("SelectPol", 34, 1),
    Item("IleakCtrl1", 35, 1), Item("IleakCtrl2", 36, 1), Item("AnalogTimeoutEnable", 37, 1),
    Item("NotUsed", 38, 6), Item("CommandCCR1", 44, 5), Item("PaddingCCR1", 49, 15),
    Item("CounterStopValue", 64, 12), Item("CommandCCR2", 76, 5), Item("PaddingCCR2", 81, 15)>>,
    FALSE)

\* Items of one bit each, from bit 0 on.
Flags(names) == Layout([i \in DOMAIN names |-> Item(names[i], i - 1, 1)], FALSE)

TpxFlags == Flags(<<"BusSel1", "BusSel0", "ColSel1", "ColSel0", "CounterEnable", "GrayEnable",
    "Reset", "Freeze", "LTCClear", "ReadCMD", "ReadTE", "ReadLE", "APrecharge", "DPrecharge",
    "ALatch", "DLatch", "ConfigMode", "ExtTrigger">>)

Tpx3Flags == Flags(<<"Bit0", "Bit1", "Bit2", "Bit3", "Bit4", "Bit5", "TestPin", "CounterReset",
    "LTCClearBar", "TopixSel0", "TopixSel1", "TopixReset", "Bit12", "Bit13", "Bit14", "Bit15",
    "Bit16", "Bit17">>)

-----------------------------------------------------------------------------
(***************************************************************************)
(* The registers of the FE-I3 are written from their end, which is behind  *)
(* the command register for the global one; a data word of the FE-I3       *)
(* starts 6 bits after the word of the fifo.                               *)
(***************************************************************************)
FromEnd(table, length, offset) ==
    [Layout(table, TRUE) EXCEPT !.streamreverse = TRUE, !.streamoffset = length + offset]

command == 29  \* mrf_afei3_reglength::command, mrf_afei3::globregoffset
global == 231  \* mrf_afei3_reglength::global

AFEI3Command == FromEnd(<<
    Item("Address", 0, 4), Item("Broadcast", 4, 1), Item("CommandParity", 5, 1),
    Item("RefReset", 6, 1), Item("SoftReset", 7, 2), Item("ClockGlobal", 9, 1),
    Item("WriteGlobal", 10, 2), Item("ReadGlobal", 12, 1), Item("ClockPixel", 13, 1),
    Item("Hitbus", 14, 1), Item("Select", 15, 1), Item("Mask", 16, 1), Item("TDAC0", 17, 1),
    Item("TDAC1", 18, 1), Item("TDAC2", 19, 1), Item("TDAC3", 20, 1), Item("TDAC4", 21, 1),
    Item("TDAC5", 22, 1), Item("TDAC6", 23, 1), Item("FDAC0", 24, 1), Item("FDAC1", 25, 1),
    Item("FDAC2", 26, 1), Item("Kill", 27, 1), Item("ReadPixel", 28, 1)>>, command, 0)

GlobReg == <<
    Item("GlobalParity", 0, 1), Item("Latency", 1, 8), Item("SelfTriggerDelay", 9, 4),
    Item("SelfTriggerWidth", 13, 4), Item("EnableSelfTrigger", 17, 1),
    Item("EnableHitParity", 18, 1), Item("SelectDO", 19, 4), Item("SelectMonHit", 23, 4),
    Item("TSITSCEnable", 27, 1), Item("SelectDataPhase", 28, 1), Item("EnableEOEParity", 29, 1),
    Item("HitBusScaler", 30, 8), Item("MonLeakADCRefTest", 38, 1), Item("MonLeakADCDAC", 39, 10),
    Item("MonLeakADCDACTest", 49, 1), Item("MonLeakADCEnableComparator", 50, 1),
    Item("MonLeakADCMonComp", 51, 1), Item("ARegTrim", 52, 2), Item("EnableARegMeas", 54, 1),
    Item("ARegMeas", 55, 2), Item("EnableAReg", 57, 1), Item("EnableLVDSReferenceMeas", 58, 1),
    Item("DRegTrim", 59, 2), Item("EnableDRegMeas", 61, 1), Item("DRegMeas", 62, 2),
    Item("CapMeasureDevice", 64, 4), Item("CapMeasureClock", 68, 2), Item("EnableCapTest", 70, 1),
    Item("EnableAnalogOut", 71, 1), Item("TestPixelMUX", 72, 2), Item("EnableVCalMeas", 74, 1),
    Item("EnableLeakMeas", 75, 1), Item("EnableBufferBoost", 76, 1), Item("EnableCol8", 77, 1),
    Item("TestDACforIVDD2DAC", 78, 1), Item("IVDD2DAC", 79, 8), Item("IDDAC", 87, 8),
    Item("TestDACforIDDAC", 95, 1), Item("EnableCol7", 96, 1), Item("TestDACforIP2DAC", 97, 1),
    Item("IP2DAC", 98, 8), Item("IPDAC", 106, 8), Item("TestDACforIPDAC", 114, 1),
    Item("EnableCol6", 115, 1), Item("TestDACforITrimThDAC", 116, 1), Item("ITrimThDAC", 117, 8),
    Item("IFDAC", 125, 8), Item("TestDACforIFDAC", 133, 1), Item("EnableCol5", 134, 1),
    Item("TestDACforITrimIFDAC", 135, 1), Item("ITrimIFDAC", 136, 8), Item("VCalDAC", 144, 10),
    Item("TestDACforVCalDAC", 154, 1), Item("EnableCol4", 155, 1),
    Item("HighInjectionCapSelection", 156, 1), Item("EnableExtInj", 157, 1),
    Item("TestAnalogReference", 158, 1), Item("EOCMUXControl", 159, 2),
    Item("CEUClockControl", 161, 2), Item("EnableDigitalInjection", 163, 1),
    Item("EnableCol3", 164, 1), Item("TestDACforITH1DAC", 165, 1), Item("ITH1DAC", 166, 8),
    Item("ITH2DAC", 174, 8), Item("TestDACforITH2DAC", 182, 1), Item("EnableCol2", 183, 1),
    Item("TestDACforILDAC", 184, 1), Item("ILDAC", 185, 8), Item("IL2DAC", 193, 8),
    Item("TestDACforIL2DAC", 201, 1), Item("EnableCol1", 202, 1), Item("ThrMin", 203, 8),
    Item("ThrDub", 211, 8), Item("ReadMode", 219, 2), Item("EnableCol0", 221, 1),
    Item("HitBusEnable", 222, 1), Item("GlobalTDAC", 223, 5), Item("EnableTune", 228, 1),
    Item("EnableBiasCompensation", 229, 1), Item("EnableIPMonitor", 230, 1)>>

\* assembleGlobReg() writes behind the command, disassembleGlobReg() reads
\* what the chip returns: the register alone.
AFEI3Global == FromEnd(GlobReg, global, command)
AFEI3GlobalRead == FromEnd(GlobReg, global, 0)
=============================================================================
