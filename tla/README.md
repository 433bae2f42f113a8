# jdrs: a verification of the digital readout system

The Jülich digital readout system (JDRS) connects detector front ends to a PC by
UDP over gigabit Ethernet. The firmware of an ML605 board (VHDL, `firmware/vhdl`)
answers requests: ping, register read and write, block read of the DAQ fifo, package
counter. A readout library on the PC (C++, `mrf`) sends the requests, and a
configuration program (Qt, `software.src`) sits on the library.

This directory holds TLA+ models of the firmware's core and of the library down to
its bits, TLC configurations that check them, and TLAPS proofs. Paths below are
relative to the repository.

## 1. The system

### Components, their state and their operations

| Component | Source | State | Operations | Model |
|---|---|---|---|---|
| Request/reply engine | `firmware/vhdl/ethernet_core_wrapper.vhd` | `state` (5 states), byte counters, what to do, register access, bulk mode and size of the bulk reply, UDP header, look-ahead word of the fifo | take up a datagram, latch address and value, make the access, size and send the reply, time out, abort | `JdrsProtocol`, `UdpWrapper` |
| Register control, DAQ fifo | `firmware/vhdl/device_regs/register_control.vhd` | registers, strobes, notifications, fifo and fill counter (on two clocks) | single read and write, bulk read, fifo write | `RegisterControl` |
| UDP transmitter | `UDP_IP_stack/UDP_TX.vhd` | 4 states, byte counter, result | start, header, user data, end, error | `UdpTx` |
| IP transmitter | `UDP_IP_stack/IPv4_TX.vhd` | 6 states, byte counter, result, lookup and channel request, MAC | look up, wait for the channel, headers, user data, end, error | `IPv4Tx` |
| Address resolution | `UDP_IP_stack/arp_REQ.vhd` | 6 states, one cached entry, error flag, counter of foreign entries | look up in cache, store, network; time out | `ArpReq` |
| ARP transmitter | `UDP_IP_stack/arp_TX.vhd` | 3 states, two latched requests | latch, take up, send | `ArpTx` |
| Transmit arbitrator | `UDP_IP_stack/tx_arbitrator.vhd` | who has the MAC | arbitrate | in `MacSharing` |
| ARP receiver, store, synchroniser | `arp_RX`, `arp_STORE_br`, `arp_SYNC` | parser; table of entries; two-stage registers | parse, search, hand over | environment of `MacSharing` and `JdrsBoard` |
| UDP and IP receiver | `UDP_RX.vhd`, `IPv4_RX.vhd` | parsers | deliver a datagram byte by byte | environment of `JdrsBoard` |
| Ethernet MAC and fifos | `firmware/vhdl/ethernet_core` | vendor design | take a byte or not | environment |
| UDP driver of the library (GAL) | `mrf/mrfgal_udp.cpp`, `mrf/mrfgal.cpp` | socket, error code | open, close, read, write, flags, words, block read, ping; one exchange of datagrams each, with a timeout | `MrfGalUdp`, `GalUdpCalls`, `GalService` |
| Register sequences (TAL) | `mrf/mrftal_rbudp.cpp`, `mrftal_rbtpx.cpp`, `mrftal_rbtpx3.cpp` | error code, output buffer, the control register of the board as a shared value | readout, DAC words, commands, LEDs, shifter, clock generators | `MrfTal`, `Mmcm` |
| Chip access (CAL) | `mrf/mrfcal_topix.cpp`, `mrfcal_topix3.cpp` | none of its own | configure DACs, send streams, configuration registers | `MrfCal` |
| Bit fields | `mrf/mrfdata` | a vector of words with a length in bits; values of items; tables of places | blocks of bits, appending, sampling; assembly and disassembly | `MrfData`, `DataStream`, `BitStream`, `ConfItems`, `ChipLayouts`, `ConfigObject`, `DacWords`, `PixelColumns`, `LcdText`, `HitStream` |
| Clock generator | `mrf/mrfdata/mrfdata_mmcmconf.cpp` | dividers, registers | search, computing, programming | `Mmcm` |
| FE-I3 | `mrf/mrfdata/mrfdata_afei3.cpp`, `mrf/misc/mrfcal_afei3.cpp` | command, global and pixel registers, stream, cache of positions | assembly, configuring, shifting, latching, reading | `Afei3Data`, `Afei3Access` |
| Configuration software | `software.src/tab*.cpp` | buttons, messages, list | connect, read, write, read out, clear | `MainWindow` |
| LCD, fan, LEDs, test benches, generated cores, old drivers | see `PROJECT.json` | | | not modelled |

`PROJECT.json` lists every component with its files and says why one is left out.

### How they interact

*On the board.* The receiver raises `udp_rx_start` and puts one byte per clock on the
bus. The engine takes the first byte for the kind of request, latches address and
value from fixed positions, and when the last byte is there prepares the answer: it
raises a register access (one pulse of `REGISTER_ACCESS`, answered by the register
control in the same cycle) or a bulk access (a level). The size of a bulk reply is
computed from the fill count; the UDP header takes it over in a later cycle. Then the
engine raises its start and feeds one byte in each cycle in which `UDP_TX` says it is
ready. `UDP_TX` starts `IPv4_TX`, which looks up the MAC address, asks the arbitrator
for the MAC and pulls the bytes through. Results travel upwards as levels: `ERR` from
a lookup that failed makes `UDP_TX` drop the datagram and the engine go back to
`IDLE`. The three byte counters run independently and have to agree.

The ARP layer listens to all ARP frames: questions are pulses to the ARP transmitter,
and every entry that comes in is offered to the store and to the address resolution.
The ARP transmitter and `IPv4_TX` compete for the MAC.

All this runs on one 125 MHz clock (`rx_clk` and `tx_clk` of the stack are both
`gtx_clk_bufg`, `ethernet_core_wrapper.vhd:814`), so one step of a model is one
rising edge in which every component steps at once. Only the write side of the DAQ
fifo has a clock of its own; its edges interleave with the others at will.

*On the PC.* A button of the window calls the CAL or the TAL, these call the GAL, and
the GAL sends a datagram and polls its socket until an answer is there or
5 ms are over. All of it is one thread and every call blocks, so that the only
concurrency is with the network and the board. Requests and answers carry no
number. Every layer reports through error codes, those of the driver being
set, or-ed and reset by the calls below in a way of its own for each of them.

### What is hard, and what makes each component correct

* **Reply engine.** An abort in any cycle must not leave an access behind; the
  length in the header, the bytes sent and the words taken must agree although the
  fifo keeps filling; a wait must end; requests that are cut off must not leak into
  the next one.
* **Register control.** No DAQ word may be lost or doubled on its way through two
  clocks, bulk and single reads; the fill counter must have no gaps; a device must find
  the configuration it is told of.
* **Transmit path.** A frame must be whole, belong to its request and go to the host that
  asked; the error handshake of three layers must not start a frame that nobody feeds.
* **Sharing the MAC.** No byte on a channel that belongs to somebody else; nobody
  starves.
* **Driver.** A request or its answer may be lost, an answer may come late. A success
  must be one; a read must not return the contents of another register; every call must end.
* **Register sequences and chip access.** A call is several exchanges, any of which may
  fail, on registers shared with other calls; what it leaves behind half way counts.
* **Bit fields.** Lengths, words and places kept in several forms have to agree, and what a
  stream was used for before must not be sent.
* **FE-I3.** Two formulas for the order of the pixels, a cache of positions, several chips
  on one line.
* **Window.** Buttons follow the results of calls, the driver its socket.

`PROJECT.json` lists these as hazards, each at its line, with the properties about
it or the reason why there is none.

## 2. The modules

```
JdrsProtocol        request kinds, sizes of replies and of bulk transfers
  UdpWrapper        the reply engine              <- MCUdpWrapper, UdpWrapper_proofs
RegisterControl     registers and DAQ fifo        <- MCRegisterControl, RegisterControl_proofs
UdpTx  IPv4Tx  ArpReq  ArpTx                      one module per entity
  JdrsBoard         UdpWrapper + RegisterControl + UdpTx + IPv4Tx + ArpReq
                                                  <- MCBoard, JdrsBoard_proofs
  MacSharing        UdpTx + IPv4Tx + ArpReq + ArpTx + arbitrator  <- MacSharing_proofs

MrfGalUdp           the driver, the network and the board as the driver sees it
                                                  <- MCGalUdp, MrfGalUdp_proofs
GalUdpCalls         a driver call as one function of its outcome
  GalService        the same as a specification: what MrfGalUdp implements
  MrfTal            register sequences
    MrfCal          chip access
      ChipAccess    programs that call them       <- MCChipAccess
    MainWindow      slots of the window           <- MCMainWindow, MainWindow_proofs

MrfData             a stream of words and its operations
  DataStream        any sequence of them          <- MCChipData, ChipData_proofs
    BitStream       the same on single bits, call by call: what DataStream implements
  ConfItems         items and places of a configuration object, assembly
    ChipLayouts     the tables of all chips
      ConfigObject  an object, its stream, the chip               <- MCChipData
  DacWords  PixelColumns  LcdText  HitStream  other classes   <- MCChipData
Mmcm                the clock generator           <- MCChipData, ChipData_proofs
  Afei3Data         FE-I3: order of the pixels, cache, assembly
    Afei3Access     calls for two chips on a line                 <- MCAfei3Access, Afei3Access_proofs
```

### Firmware

A component's module has its registers as variables, under the names of the VHDL
signals, and its inputs as further variables it never changes. Its combinational
outputs are operators; each state (or each way through a state) of its state machine is
an action, and `Clk` is one rising edge. `UNCHANGED` is what the process holds. A
composing module instantiates the components with outputs substituted for
inputs, as the port maps do, and its clock step is the conjunction of the `Clk`s and of
the environment. Where two components' outputs depend on each other's inputs only
syntactically, `JdrsBoard` uses an instance with dummy inputs (`WireOf...`) for the
outputs that do not depend on them.

Data is abstracted to what the properties tell apart. A byte of a reply is a record of
what it stands for (identifier, the n-th byte of a word); a host stands for both its IP
address and its MAC; headers are counted, not spelt out; addresses with equal
behaviour share a model address. A four-byte value is latched with its last byte, the halves
being used by nobody before. The reset is the initial state.

`JdrsBoard` has history variables (`serving`, `access`, `pops`, `arrived`, `wire`,
`frame_done`, `produced`, `delivered`) that record what was asked, done and sent.
They are read by properties only.

### Library

`MrfGalUdp` has the driver's state, a network that may lose or delay a datagram, and
the board as a server. A call is a `pc` that alternates between sending (`_sendBuffer`)
and polling (`_readBuffer`, `_readBuffer_timeout`); what a call of several exchanges does
between two of them is part of the step that ends the first.

The layers above need the outcome of a driver call, not its steps. `GalUdpCalls` gives it:
a driver and its board are one record `dev`, whose field `luck` holds the fate of each
exchange to come (answered, not sent, request lost, answer lost, and "ok" when
it is used up). A call is a function from `dev` to the `dev` after it, with return value,
error code and registers; a sequence of calls is their composition, in the order of
the code, and ends where the code returns. `GalService` makes one step of each, and
`MrfGalUdp` implements it: the run `udp_driver` checks that, `DriverImplementsService` proves it (see 5).
How many words a block read finds is the board's affair, so `Outcomes` has one for each
number. A caller sees the driver between two calls (`MrfGalUdp!Seen`); the step that ends a call is the
step of `GalService`, all others are stuttering. An
answer that comes late is not part of `GalUdpCalls`.

A stream (`MrfData`) is a record of its words, each the set of its bits, its length in bits, and an error
code. The classes on top have one module each with the places of their
items. `Mmcm` has the search for dividers over all of the code's loops.

| In the code | In the model |
|---|---|
| `tx_proc_combinatorial`, one `when` each | `Idle`, `StartRequest`, `ReceiveByte`, `WaitDataOutRdy`, `AbortReply`, `SendByte`, `FinishSend` of `UdpWrapper` |
| `tx_proc_sequential` around it (bulk size, captured word) | `PrepareAccess`, `CaptureBulkWord`; the process at line 1423: `CaptureRegister` |
| `register_control`: write process, strobes, fifo | `WriteRegister`, `WriteMmcm`, `NotifyStatusRead`, `Clk`, `FifoClk` |
| `tx_state` of `UDP_TX`, `IPv4_TX`, `arp_TX`, `req_state` of `arp_REQ` | the actions of `UdpTx`, `IPv4Tx`, `ArpTx`, `ArpReq`, named after the states |
| `tx_arbitrator`, process `sequential` | `MacSharing!Arbitrate` |
| member functions of `MRFGal_udp`, `MRFTal_...`, `MRFCal_...`, `mrfdata...` | operators and actions of the same names |
| slots of `MainWindow` | actions named after what is pressed (`Connect`, `Write`, `DMAread`, ...) |

Operators named `<definition>_<word>` after a definition's name are mutants: the
definition with a plausible slip in it. They are used nowhere in the models;
`PROJECT.json` says which property each of them breaks.

## 3. What is checked

| Run | Module, configuration | Question |
|---|---|---|
| `engine_alone` | `MCUdpWrapper` | Does the reply engine do right between neighbours that may do anything their interface allows? |
| `register_control` | `MCRegisterControl` | Are words, numbers and notifications right under all interleavings of the two clocks and of single and bulk reads? |
| `board_replies` | `MCBoard`, `MCBoard.cfg` | Is every reply whole, the answer to its request, and true? With all requests the software sends and cut, meaningless and swallowed ones between them. |
| `board_answers` | `MCBoardLive.cfg` | What is left of that if ARP questions stay unanswered and replies are aborted? Is every datagram answered or given up, and the engine always ready again? |
| `mac_sharing` | `MacSharing` | Do datagrams and ARP frames share the MAC without hurting or starving each other? |
| `udp_driver` | `MCGalUdp` | Does the driver tell the truth over a network that loses datagrams, does each call end, and is it what the layers above take it for? |
| `chip_access` | `MCChipAccess` | Do the sequences of TAL and CAL do what they promise if any one exchange of a call goes wrong? |
| `chip_data` | `MCChipData` | Does every value go to its place and come back from there, whatever its object was used for before? |
| `afei3` | `MCAfei3Access`, `MCAfei3.cfg` | Do two FE-I3 on one line get the registers that were asked for, and nothing else? |
| `gui` | `MCMainWindow` | Does the window show what is the case? |
| `write_after_abort` | `MCBoardAbort.cfg` | (violation) see 4 |
| `late_answer_taken` | `MCGalUdpLateRead.cfg` | (violation) see 4 |

What the properties say:

* `HeaderAnnouncesReply`, `ReplyIntact`: the length in the header, the bytes sent and the
  four bytes of each word agree in all three layers.
* `ReplyIsTrue`: the frame answers this request; a confirmed write was done with its address
  and value; the word in a read reply was read for this very request. With aborted
  replies the last two hold for an engine that starts clean (`CleanReplyIsTrue`); see 4.
* `DeliveredInOrder`, `NoWordLost`, `NonEmptyBulkTakesWhatItSends`, `FillCounterHasNoGap`: the
  way of the DAQ words.
* `NothingLeftOver`, `WaitIsBounded`: after a reply nothing is left set; the timeout is never
  needed without errors and ends every wait with them; the package counter is right.
* `ConfigIsThereWhenAnnounced`: a device that is told of a configuration write finds it.
* `FailedIsNotSent`: after a failed lookup `IPv4_TX` starts the datagram a second time,
  because `UDP_TX` takes its start back one cycle too late. Only the three pause
  cycles of `arp_REQ` make that second lookup fail as well. Without them a frame without data would
  hold the MAC for ever.
* `ArpOwnsChannel`, `IpKeepsChannel`: an ARP frame never loses the channel; an IP frame
  that has it keeps it to the end. `BothGetTheirTurn`: a latched ARP question is
  answered, a datagram ends.
* `EveryRequestAnswered`, `AlwaysReadyAgain`: liveness of the board.
* `OneExchange`: at most one datagram is under way or in the socket, and none between two
  calls. `SuccessMeansDone`: a register call that reports success was done by the board, in
  all of its exchanges. `CountedWordsArrive`: the words `writeData()` counts arrived.
  `ReadIsContentsOrZero`: a read returns what the register holds, or 0. `CallEnds`: liveness.
  `ImplementsService`: every call, with its exchanges, losses and failures, is one step of `GalService`.
* `CleanConfigSetsDacs`, `NewValuesBeforeFirstOutput`: a DAC holds nothing or a value that was
  asked for it; without a loss all are as asked, whatever error codes there were before;
  and no output changes before all values are written.
* `OtherFlagsKept`: LEDs, triggers and commands share one register: a call without a loss changes no bit
  but its own, in none of its writes, on boards that keep the bits and on boards that take them back. Flags are
  bits: `outputenable` is the bit of `topix3config`, `configdcm` that of `startinput`. What follows from that is in 4.
* `ReadoutIsFifoFront`: a readout gives the front of the fifo and never more words than asked,
  although `initReadout()` ends without a return (`mrftal_rbudp.cpp:179`; its result is a
  choice of the model). `ListIsFifoFront`: the same for the list in the window.
* `ImplementsBitStream`: the words of a stream, with all its resizing, masks and clearing, are a
  sequence of single bits, to which each call does what `mrfdata.h` promises of it. Three calls are known
  to do something else (`BitStream!Unpromised`, see 4); what they do is left open. `BlockRoundTrip`: what is put into a block of bits comes back from there.
* `ValuesOnTheWire`, `ValuesReadBack`, `OnlyItsPlaceChanges`: for the tables of items of
  13 classes and the global register of the FE-I3, the words of the three kinds of DACs, columns of
  pixels, words of hits, and lines of the display; second uses of an object included.
* `RegistersAsReturned`: the registers worked out for a frequency divide the clock to the frequency
  returned. It says nothing of their addresses: at those no write reaches the board (`ClockIsAsReturned`, see 4).
* `PositionsInvert`: the position of a pixel and the pixel of a position are inverse to each other, for
  every set of double columns. `ChipsAsAsked`: after a call each addressed chip has the
  global and pixel registers that were asked for, in spite of the cache. `OnlyTheAskedChanges`: no other
  item of a pixel, no other chip, and no command that stays on.
* `ConnectionIsAsShown`: the buttons the window offers are those for the state of the driver.

### Bounds, and why they are enough

Firmware:

* A datagram carries at most 2 data words (`MAX_BLK_WORDS_PER_PKG`; 367 in the firmware); bulk
  requests ask for 0 to 3, so that the request, the fill and the limit each win once.
* The device produces at most 3 words (`MaxWords`; 2 or 1 where aborts multiply the
  states), the fifo holds 3 (2 in `register_control`, where it also overflows, with 4 words).
  Values are the numbers 0 to 5 on the board: the initial contents of its registers, and the fills of the fifo.
* With aborts (`board_answers`, `write_after_abort`) the requests are those that make an
  access (`AccessPackets`).
* Headers have 1 or 2 bytes, ARP frames 2: they are counted only, and the counters'
  hand-overs happen at the same places.
* The timeout is 4 cycles (20 in the firmware): longer than the two cycles a bulk request
  needs; the proof holds for any number above 2.
* Counters are cut to the width at which they wrap within a run (`PkgCtrMod`, `BlkCtrMod`).
* Two hosts and `ARP_MAX_PKT_TMO` 0 in `MacSharing`: one that is looked up and one
  that comes in between.
* One datagram at a time in `JdrsBoard`: the next may come when engine
  and `UDP_TX` are idle (overlap: see 4).
* The MAC refuses bytes of ARP frames in `MacSharing`, and none of replies (see 4).

Library:

* The driver: two registers of two bits, one call of every kind, blocks of 1 and 4 words with
  2 words per datagram, a fifo of 2 words, one datagram under way (`MaxUnderWay`; without late
  answers there is never another one, as `OneExchange` shows). No call has more than two exchanges, so
  the luck of an abstract call has at most two entries (`MaxLuck`).
* `chip_access`: five programs that use one call after the other of those that interact. One exchange of
  a call may go wrong, in any of three ways, up to the 12th for the DACs (two of them, with new
  values and power-down), the first or second elsewhere. Buffers of 4 or 5 words, a fifo of 2. The control register
  has the 11 bits the library names in a call (`Bits`). The board may take back some of them between two calls (`Commands`: bits 4 and 5,
  as `sm_sregs.vhd:307` does, and those of boards that are not in the repository), or keep them.
* `chip_data`: streams in words of 3 bits, up to 7 bits long: words that are full, partly
  full, missing, and one boundary inside a block. The classes have words of
  32 bits and the tables of the code in full; an object sees 2 calls (1 for the 80 items in
  231 bits of the FE-I3), a DAC 4: a first use, and one on what it left. Columns have 3 and 1 rows in place
  of 128 and 32, of which up to 2 pixels are set. The display has lines of 2 characters for texts of up to 3.
* The clock generator: the loops of the search have their full ranges (64, 80, 128); six frequencies
  are asked for, among them 0, one below and one above what the generator can do.
* `afei3`: 2 double columns of 2 rows (9 of 160), so that the snake turns twice; two chips, an
  item of two bits, 5 steps.
* `gui`: one register, two interfaces, one exchange of a slot may go wrong. A close does not fail (`CloseMayFail`).

### Fairness

On the board the clock never stops (`WF` of the clock step). A state predicate that must hold again and
again stands for each neighbour: the ARP store answers, an ARP question is answered or
its timer is over (`arp_REQ` counts to `ARP_TIMEOUT` by itself), the MAC takes bytes, and in
`JdrsBoard`, where the arbitrator is an input, the MAC is granted. `mac_sharing` shows that
the arbitrator does that: `DatagramEnds` assumes only that the ARP transmitter gets a
break now and then. An ARP frame takes 45 cycles to send, and 84 cycles at least lie between two
that come in at line speed, so it does. `LatchedIsAnswered` needs no such assumption.

On the PC the thread goes on (`WF` of the driver's steps, the end of a 5 ms wait being one), and a board
that is there serves what has arrived (`WF` of `Serve`). Nothing is assumed of the network: every
datagram may be lost.

## 4. Where the code does not do what it says

Two have a run in which TLC finds the counterexample:

* `write_after_abort` (`ConfirmedWriteExecuted`): a reply aborted by a lookup error leaves
  `register_access_int` set (`ethernet_core_wrapper.vhd:1053`). The next write makes no access and is confirmed
  all the same.
* `late_answer_taken` (`ReadIsContentsOrZero`): an answer that comes after the timeout stays in the socket
  and is taken for the answer to the next request (`mrfgal_udp.cpp:379`). A read returns the contents of another
  register.

The others are stated by properties that hold in no run. They stay in the modules, are not part of a
configuration, and are violated if they are added to the one named here.

Firmware:

| Property | Add it to | What happens |
|---|---|---|
| `BulkTakesWhatItSends` | `MCBoard.cfg` | A bulk reply of no words takes a word out of the fifo if one is stored between the sizing and the last header byte, and loses it (`ethernet_core_wrapper.vhd:1137`). |
| `FirstByteDecides` | `MCBoard.cfg` with `Overlap = TRUE` | A datagram that arrives while another one is served is taken up in its middle; one of its later bytes decides what to do (`:931`). |
| `ReplyIntact` | `MCBoard.cfg` with `MacStalls = TRUE` | `UDP_TX` says it is ready although the layers below are not; the byte is lost (`UDP_TX.vhd:214`). |
| `IpOwnsChannel` | `MacSharing.cfg` | `IPv4_TX` uses a grant it has not asked for yet. If ARP asks in the same cycle, the frame's beginning is sent into nothing (`IPv4_TX.vhd:261`). |
| `FrameGoesToItsHost` | `MacSharing.cfg` | While a lookup waits, any ARP frame that comes in (also the question of another host) fills the cache, and one cycle later the cached MAC is taken for the answer (`arp_REQ.vhd:193`). |

Driver, in `MCGalUdp.cfg`:

| Property | What happens |
|---|---|
| `ReadFailureReported` | `read()` notes that the answer was lost and then sets the error code to success (`mrfgal_udp.cpp:176`). |
| `SuccessResetsError` | `write()` sets an error code and never clears it (`:199`). |
| `NotOpenReported` | Callers overwrite `device_not_open` with `ioctl_failed` (`:189`). |
| `OpenMeansOpen` | A bind that fails closes the socket and keeps its number: open by name, never again by deed (`:545`). |
| `OnlyMaskAffected` | `writeOr()` and `writeAnd()` write back what `read()` returned, which is 0 if the answer was lost: setting one flag clears the others (`mrfgal.cpp:161`). |
| `OnlineIsSeen` | (`MCGalUdpLateRead.cfg`) With a late answer in the socket a ping fails although the board answers, and so do all later ones (`:108`). |

Register sequences and chip access. Like the checked ones, these are properties of the instances in
`MCChipAccess` (`[][program = "readout" => Readout!ReadoutLosesNoWord]_vars`; another instance where one is named):

| Property | What happens |
|---|---|
| `ReadoutLosesNoWord` | After an older error the words of a readout have left the fifo of the board and are thrown away (`mrftal_rbudp.cpp:211`). |
| `DataIsAppendedAt` | The word at `appendat` is the header of the answer; the data starts one further (`mrftal_rbudp.cpp:95`). |
| `RbErrorIsRecent` | The line that would reset `rb_errcode` is commented out (`mrftal_rbudp.cpp:105`). |
| `SuccessMeansConfigured` (`Configuration`) | The loss of a data word is forgotten with the next read (`mrftal_rbtpx.cpp:49`). |
| `OldErrorsChangeNothing` (`Streams`) | `writeData()` stops at the first error code it sees, also an older one: the chip gets a cut stream and is started (`mrfgal_udp.cpp:209`). |
| `SerializerOnlyAsAsked` (`Board`) | `prepareEventOutputBuffer()` sets `outputenable`, bit 9 (`mrftal_rbudp.cpp:64`, `mrftal_rbudp.h:65`). On a Topix 3 board that is `topix3config` (`mrftal_rbtpx3.h:56`), which starts the serializer. Likewise `eoedetect` is `tpxfakedata`, and `configdcm`, `configmmcm` and `startinput` are all bit 5. |

Bits. The first three are properties of `DataStream` and need nothing but to be added to `MCChipData.cfg`: the calls
(`AllCalls`) are in that run, and `BitStream!Unpromised` leaves open what the first two do to the bits. Those of the FE-I3 go into `MCAfei3.cfg`. `ClockIsAsReturned`, `FrequencyIsSet`, `ClosestIsFound` are those of `Generator`:

| Property | What happens |
|---|---|
| `MaskRespected` | `setWordMasked()` looks at the mask in the last, incomplete word only (`mrfdata.cpp:129`). |
| `CutoffIsMaximum` | `resample()` makes the stream exactly `cutoff` bits long (`mrfdata.cpp:325`; `mrfdata.h:177` calls it a maximum). |
| `BlockErrorReported` | A reversed block that does not fit is cut without an error (`mrfdata.cpp:175`). |
| `GlobalAsStored` | What a longer stream left is shifted into the global register behind the right bits (`mrfcal_afei3.cpp:61`). |
| `ChipsAsAsked`, `OnlyTheAskedChanges` with `InitialCaches <- Chance` | The cache of positions is not initialised: if the memory happens to match, it is taken for valid (`mrfdata_afei3.cpp:515`). |
| `PixelsReadBack` | `disassemblePixReg()` takes the pixels in another order than `assemblePixReg()` writes them (`mrfdata_afei3.cpp:237`). |
| `CountsDoubleColumns` | `getActivePixColCount()` returns columns (`mrfdata_afei3.cpp:394`). |
| `ClosestIsFound` | Only dividers that come closer than 1 MHz are found (`mrfdata_mmcmconf.cpp:172`). |
| `FrequencyIsSet` with the library's addresses (`RA_START <- 128, RA_STEP <- 4`) | If none is found the frequency is said to be 0 and the generator runs on with the old one (`mrfdata_mmcmconf.cpp:63`). |
| `ClockIsAsReturned` | The library writes to 0x80, 0x84, ..., 0xFC, four times the numbers of the firmware (`register_config.vhd:47`): no write reaches the generator (`mrfdata_mmcmconf.h:47`). The run has the addresses of the firmware; with those of the library the property holds. |

Window, in `MCMainWindow.cfg`:

| Property | What happens |
|---|---|
| `CountIsWordsRead` | A readout that fails is said to have read 4294967295 words (`tabRegister.cpp:65`). |
| `WriteMessageIsTrue` | After any error the window says of confirmed writes that they failed (`tabRegister.cpp:35`). |

Seen while modelling, without a property: writing `RA_LED_KNIGHT_RIDER` changes `r_led_config`
(`register_control.vhd:345`); the notification of a status read addresses a vector
of 127 elements with 128 to 255 (`:429`, a choice of the build in `NotifyStatusRead`); IP
broadcasts would be sent without asking for the channel (`IPv4_TX.vhd:235`), which no
reply does; the port to bind gets its number without `htons()` (`mrfgal_udp.cpp:538`).

## 5. What is proved

Theorems hold for every value of the constants under the named assumptions of the modules. They are listed in
`PROJECT.json`. None of the safety properties is inductive as it stands; what follows is what each needs.

### The reply engine alone

`UdpWrapper_proofs`, for every size of a datagram, timeout above 2, width of the counters,
set of addresses and of values, assuming `[]InputOK`: the inputs have their types, and the
register control answers a bulk access in the cycle it is made.

* `ReplyInvariant`: `Spec /\ []InputOK => []ReplyInv`;
* `TypeCorrect`, `HeaderIsRight`, `WaitEnds`: its three consequences.

The size of a bulk reply is set in one cycle and
copied to the header in a later one, and a timeout between the two would change the number of
bytes to be sent to the four of a timeout message after the size was set, or the other way round. `BulkSizedEarly`
says why that cannot happen: a waiting bulk request has its size by the second cycle, unless the bulk mode
is a left-over of an aborted reply without the register access, and then never. For
that the timeout must be longer than two cycles (`WrapperAssumption`). `CountersCleared` says
that the byte counter starts at 0, and `TypeOK` bounds the size by the datagram. The
lemma `BulkTargetFits` is about the sizing itself. The step is proved
action by action (`FsmTypeOK` and `CaptureTypeOK` split `TypeOK` by process).

### Register control and fifo

`RegisterControl_proofs`, for any depth of the fifo, registers, values, words and interleaving of the two
clocks, with a bus master that makes accesses of one cycle as the reply engine does (`MCRegisterControl`): `Typing`,
`WordsArePassedOn`, `CountingIsGapless`, `AnnouncedConfigIsThere`. The hinge is
`OneCycleAccess`: what the register file remembers of an access (three delayed strobes) is never up together with a new
one. With it a read of the data register takes exactly the word it hands out, and a
notification belongs to the write of the cycle before (`ConfigIsLastWrite`, `AnnouncedAsWritten`).

### The composed board

`JdrsBoard_proofs`, for all sizes, sets of addresses and values, packets (whole, cut off or
meaningless), fills of the fifo, and any answers to lookups. Each layer of the invariant is a theorem of its own and uses
those before it:

| Layer | What it says | Why it is needed | Consequence |
|---|---|---|---|
| `BoardInv` | The neighbours keep the engine's `InputOK`; its `ReplyInv` holds; the fifo holds whole words. | It replaces the assumption of `UdpWrapper_proofs` by the real register control and `UDP_TX`. | `HeaderIsRightOnTheBoard` |
| `StageInv` | The states of the engine, `UDP_TX`, `IPv4_TX` and `arp_REQ` are one of five matching stages, and the byte counters in step. | Start, ready and result are levels that are taken back a cycle late; the counters start by themselves. | `BoardTypes` |
| `TransferInv` | The fifo holds the words announced and not yet taken. | A bulk reply also ends when the fifo runs dry. | with `PopsInv`: `BulkRepliesTakeTheirWords` |
| `WireInv` | What has been sent so far is the flag and words made of their own bytes. | The source of a word (register, fifo, look-ahead word, counter) must not change within it. | `RepliesAreIntact` |
| `PosInv`, `ServedInv` | The engine's count is the place in the datagram on the wire; what it does is what the datagram asks for, or its timeout. | The engine has no other idea of where a datagram begins. | |
| `AccessInv` | An engine that was clean latches address and value, makes that access, and keeps its word. | The access is a pulse derived from a level with a delayed copy. | `CleanRepliesAreTrue` |
| `TidyInv` | No access and no bulk mode outlives its request, every request starts clean. | | `RepliesAreTrue`, `NothingIsLeftOver` |
| `OrderInv` | The words in the fifo, in the look-ahead word, in the captured word and on the wire are in the order of the device. | A word is in several registers at once; bulk reads and single reads take from one fifo. | `WordsAreDeliveredInOrder` |

The hypotheses are constants of `JdrsBoard`, and each of them is needed by the code:

* `~MacStalls` (from `StageInv` on): a byte the MAC refuses is lost, see 4.
* `Unicast`: no request is a broadcast. The engine answers a broadcast with its own byte count, whatever was asked.
* `~Overlap` (from `PosInv` on): a datagram that arrives within another one is taken up in its middle, see 4.
  Integrity and order (`RepliesAreIntact`, `WordsAreDeliveredInOrder`) do without.
* `~ArpFails` for `RepliesAreTrue` and `NothingIsLeftOver`: an aborted reply leaves its access behind, see 4.
  `CleanRepliesAreTrue` and everything before it hold with aborts.
* `NoTimeoutAsked` for `NothingIsLeftOver`: no datagram begins with the identifier of the timeout answer, which would
  be echoed without being one.
* `FillOff` for the order: the fill counter, which puts its own numbers between those of the device, is not switched
  on. What it does is `CountingIsGapless`.

The assumptions on the constants say that values are numbers below some limit that includes the initial contents of the
registers and the fill of the fifo (`ValueAssumption`), and that a request has a length and comes from a host with an
address that is neither zero nor broadcast (`PacketAssumption`, `BoardAssumption`).

An attempt to prove `ReplyIsTrue` with a threshold of 7 bytes for a read failed: the address of a read ends with the
eighth byte, and a request cut off after seven is answered with another register. Reads of 7 bytes are now
among the packets of `MCBoard`, and the property begins at 8.

### Sharing the MAC

`MacSharing_proofs`, for any number of hosts, any lengths, whatever the network, the MAC and the reply
engine do:

* `ChannelInvariant`: a sender asks from the moment it waits to the end of its frame, ARP sends
  only on its own channel, and no reply goes to the broadcast address. From it `ArpFramesAreWhole`
  and `IpFramesAreNotCutOff`;
* `StageInvariant`: `UDP_TX`, `IPv4_TX` and `arp_REQ` are in matching stages (`Rest`, `Resolving`, `Sending`,
  `Failing`) in every cycle. `Failing` follows the second start of a datagram whose lookup
  failed, pause cycle by pause cycle. From it `FailedDatagramsAreNotSent` and `ResultsAreTrue`.

The counterpart `IpOwnsChannel` is false (see 4): a frame can start without the channel, and then
get it in its middle.

### The driver and the window

`MrfGalUdp_proofs`, for any registers, values and words, whatever is lost, assuming `~Late` (no answer comes after the
timeout, see 4): `ExchangesDoNotOverlap`, `SuccessIsTrue`, `ReadIsTrue`, `CountIsTrue`, `BulkIsWithinRequest`,
`DriverTypes`. The invariant `CallInv` adds to the types where a call is
(`Position`: which exchange of which call, and what the ones before have returned), what is on the link
(`Link`: nothing while the driver is about to send, else one request, or one answer to the very request), and
what the exchanges so far have done to the registers (`Written`). With that a received answer is the answer to what was asked.

`DriverImplementsService`: `Spec => ImplementsService`, for all nine kinds of calls, blocks of any length, and open and close
with a socket that fails (`DriverRefinesService` is the same as `Spec => Service!Spec`). `CallInv` knows what is on its way, but not what the call has
done so far, which is what its single abstract step must account for. `Progress` (theorem `CallSoFar`) adds it: in the middle of a
call the error code, the values read, the writes done and the state of the socket are those of a call whose first `i` exchanges
went as they did: a block of writes goes on after a confirmed write only, a block of reads also after a read without
an answer (which is 0 and no error), and a read-modify-write call whatever became of its read. The luck of the
abstract call is made up in the step that returns: "ok" for what was answered, "not_sent" where
`_sendBuffer` failed, and after a timeout "reply_lost" or "request_lost", for a write by whether the board has done it.
The lemmas `...Does` say field by field what a call of `GalUdpCalls` makes of a device, `...Implements` compare the step with them, one for each way a call can end.

`MainWindow_proofs`, for any registers and any fate of the exchanges: `WindowTellsTheTruth`. The
invariant `WindowInv` adds that either Connect or Disconnect is offered; the argument is in `OpenedIsOpen`: `openDevice()`
leaves no error only of a device that was not open before and is now.
`ListIsFront`: `Spec => ListIsFifoFront`, for any fifo and any limit of a datagram. The lemma `ReadoutTakesFront` follows
`readOutputBuffer()` through its four ends; `ListOfAnswer` shows that growing the stream, putting the answer in, cutting it and leaving
the header out give back the words.

### Bits

`ChipData_proofs`, for words of any width, streams of any length and any series of calls:

* `StreamsAreWellFormed`: a stream has the words its length needs, and the bits behind its end are clear. The code
  does not set them to 0 in one place; each operation has its own reason;
* `BlocksComeBack`: `BlockRoundTrip`, for streams not longer than an unsigned integer counts;
* `WordsImplementBits`: `Spec => ImplementsBitStream`. Each call is shown to be the same call of `BitStream`
  under the mapping that forgets the words (`CallRefines`). Well-formedness is what makes growing work: a stream that is made longer shows the
  bits behind its old end, and `BitStream` says they are 0. Division and remainder by the width (`Position`, `InsideWord`) and
  the resized last word (`OnesResized`) carry the rest.

About the items of a class, for every table that is `ProperTable`: its items have places of their own inside the register, which
do not wrap around. `MCChipData` assumes it of the 14 real tables, and TLC evaluates that (`TablesAssumption`). Words, offsets, both orders of the bits
and registers written from their end are all included, and nothing is asked of the stream but that it is one, so it may be whatever
an earlier use left:

* `ItemComesBack`, `OtherItemsAreKept`: what is put into an item comes back, cut to its length, and no other item
  changes (`ConfigObject!OthersKept` for all of them), even in a stream that is too short, where some bits are lost;
* `BitsAreOnTheWire`, `AssembledComesBack`: the same of `assemble()` and `disassemble()` for all items. `OwnBits` (no other
  item has the place) turns "the last write to a place counts" into "there is one write to a place".

About the clock generator: `RegistersAreTrue`: `DataSpec => []RegistersAsReturned`, for any frequencies, any losses and any addresses
of the board. It is about what the library works out and sends, not about what arrives: with the addresses of the firmware nothing does (see 4). That the
search ends with dividers it has tried is not evident, as closeness is compared by products: `BetterIsOrder` shows that its
preference is a total order (`Cross` is the transitivity of fractions), `FirstExists` that a finite set has
a first element in it. `CounterDivides` is the arithmetic of the counters: halves in six bits, 64 sent as 0, 1 as no count at all.

### The order of the pixels

`Afei3Access_proofs`, for any number of double columns and rows: `PositionsAreInverse`: `Spec => []PositionsInvert`. One
formula counts the active columns in front of a pixel, the other two those behind it. `ColumnsInPairs` (two columns for each enabled
double column) makes the parity of the one count that of the other, `BehindTells` says that the count behind
gives the column, and `ObjectOK` that no call but setting them changes the enabled columns.

### Model-checked only

* The liveness properties: fairness and `ENABLED` are out of the prover's reach.
* The four properties of `chip_access`: its programs are folds of calls over streams and chains of DACs, and what a fold
  computes for every sequence needs an induction the prover cannot make.
* `ValuesOnTheWire`, `ValuesReadBack`, `OnlyItsPlaceChanges` as they stand: for the classes made of items the theorems above are their core, for any
  table; DAC words, columns of pixels, hits and lines of the display are special layouts, which TLC has in full.
* `ChipsAsAsked`, `OnlyTheAskedChanges` of `afei3`: a call is again a fold over the streams it sends.

## 6. What is not modelled, and what is assumed

* The receive path as state machines (its outputs are an environment), the ARP store's search, IP checksums, header
  contents, LCD, fan, LEDs, the vendor's MAC. The clock generator is what its registers say (external).
* The drivers of other hardware in `mrf/misc` and `mrf/tools`: nothing in the repository uses them, and their
  counterparts are not in it.
* Of the library: the list of the local addresses, hexadecimal text, the limits of items (nothing reads them), `mrfdata_tpxmasterreg` as a
  stream (its items are written one by one). Of the window: the table of register names.
* The FE-I3 takes what is shifted in as the pins say, and its streams are not lost: no function of
  `mrfcal_afei3.cpp` looks at an error. `disassemblePixReg()` is called on streams of the exact length.
  A flag of the enabled columns is 0 or 1. The order of the pixels in the chip is that of the position functions.
* The clock generator has the addresses of the firmware, so that no write of the library reaches it (see 4). The
  library's address of the control register is that of `sm_pack.vhd:72` (byte 8 is word 2).
* A board takes back bits of its control register between two calls, never between the read and the write of
  one `setFlag()`; nothing in the library clears a bit but `setLedState()`.
* `udp_driver` and the layers above: no answer comes after the timeout (see 4 for one that does).

`PROJECT.json` has the reasons for each component.

## 7. Plan

Done: the reply engine first, because every request goes through it, then its neighbours down
to the arbitrator; the driver and its abstraction; register sequences, chip access and bits on top; the window. Next:

1. `UdpRx` and `IPv4Rx` under `JdrsBoard`, in place of its environment: frames shorter than their length
   (`UDP_RX.vhd:237`), a second sender, broadcasts, the address a reply goes to.
2. `ArpStore` and `ArpRx` under `MacSharing`: entries that arrive while the store is busy; questions
   that overwrite each other in `arp_TX`.
3. `JdrsLink`: `MrfGalUdp` over `JdrsBoard`, with the server of the former as an abstraction of the latter.
4. Proofs: `OtherFlagsKept` and the DAC words of `MrfTal`; columns of pixels of any height.
