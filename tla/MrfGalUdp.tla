------------------------------ MODULE MrfGalUdp ------------------------------
(***************************************************************************)
(* The UDP driver of the readout library (TMrfGal_Udp, mrfgal_udp.cpp, and *)
(* what it inherits from TMrfGal) with the network and the board behind    *)
(* it.  A call of the program is a series of exchanges, each of them one   *)
(* datagram to the board, a wait of _UDPrecvTimeout, and whatever datagram *)
(* is in the socket by then.                                               *)
(*                                                                         *)
(* A register value is the set of the bits that are set.  The datagrams of *)
(* one direction keep their order: the board is on the other end of one    *)
(* cable.  The board is the one JdrsBoard describes: it answers one        *)
(* request after the other, each with the identifier ReplyFlag.            *)
(***************************************************************************)
EXTENDS JdrsProtocol, FiniteSets, Sequences

CONSTANTS
    Addr,         \* configuration registers
    Bits,         \* bits of a register
    Calls,        \* calls the program makes: records op, addr, val, data
    Connections,  \* connection parameters: sequences of "ip", "port", "bad", "empty"
    Loss,         \* datagrams may be lost
    Late,         \* an answer may come after the timeout
    MaxLuck,      \* bound: exchanges of one call
    MaxUnderWay,  \* bound: datagrams under way in one direction
    MaxFifo       \* bound: DAQ words that wait in the board

ASSUME LinkAssumption ==
    /\ Loss \in BOOLEAN /\ Late \in BOOLEAN
    /\ MaxUnderWay \in Nat \ {0} /\ MaxFifo \in Nat /\ MaxLuck \in Nat

MAX_BLOCKS_PER_UDP_PACKAGE == MAX_BLK_WORDS_PER_PKG + 1
Value == SUBSET Bits

ErrorFlag == {"open_failed", "close_failed", "device_not_open", "read_failed",
              "write_failed", "ioctl_failed", "already_open", "read_data_failed",
              "write_data_failed"}

VARIABLES
    sock,     \* _UDPsocket: "none" (-1), "open", or "closed": a number that
              \* is kept after close()
    errcode,  \* the error flags
    call,     \* the call that is executed, NoCall in between
    i,        \* how far it is: exchanges completed
    pc,       \* "idle", "send" (_sendBuffer is next), "wait" (in _readBuffer)
    ret, n, data,   \* what the call returned: value, count, words
    toBoard, toPC,  \* datagrams under way; toPC includes the socket's queue
    regs, fifo,     \* the board
    served,   \* history: the writes the board did for this call
    before    \* history: registers and error flags before this call

driverVars == <<sock, errcode, call, i, pc, ret, n, data>>
vars == <<driverVars, toBoard, toPC, regs, fifo, served, before>>

NoCall == [op |-> "none", addr |-> CHOOSE a \in Addr : TRUE, val |-> {}, data |-> <<>>]

deviceIsOpen == sock # "none"
lastActionSuccessful == errcode = {}

TwoExchanges == {"or", "and", "xor"}
Op == {"read", "write", "writeData", "readData", "bulk", "ping"} \cup TwoExchanges

ASSUME CallsAssumption ==
    /\ Addr # {}
    /\ Calls \subseteq [op : Op, addr : Addr, val : Value, data : Seq(Value)]
    /\ 2 <= MaxLuck
    /\ \A c \in Calls : c.op \in {"writeData", "readData"} => Len(c.data) <= MaxLuck

\* The request of exchange i of a call.  "fresh" marks the datagrams of the
\* exchange that is under way: the code has no such mark.
Request_(flag, a, v, count) ==
    [flag |-> flag, addr |-> a, val |-> v, words |-> count, fresh |-> TRUE]

\* doIoctl() limits the number of words to what a datagram holds.
LimitedWords(count) ==
    IF count > MAX_BLOCKS_PER_UDP_PACKAGE THEN MAX_BLOCKS_PER_UDP_PACKAGE ELSE count

\* Mutated: a flag is set in 0 instead of the value that was read.
Modified_Forgets(op, old, v) == v

Modified(op, old, v) ==
    CASE op = "or"  -> old \cup v
      [] op = "and" -> old \cap v
      [] op = "xor" -> (old \ v) \cup (v \ old)

toSend ==
    CASE call.op \in {"read", "readData"} -> Request_("read", call.addr, {}, 0)
      [] call.op = "write"     -> Request_("write", call.addr, call.val, 0)
      [] call.op = "writeData" -> Request_("write", call.addr, call.data[i + 1], 0)
      [] call.op = "bulk"      -> Request_("bulk", call.addr, {}, LimitedWords(Len(call.data)))
      [] call.op = "ping"      -> Request_("ping", call.addr, {}, 0)
      [] call.op \in TwoExchanges ->
            IF i = 0 THEN Request_("read", call.addr, {}, 0)
            ELSE Request_("write", call.addr, Modified(call.op, ret, call.val), 0)

-----------------------------------------------------------------------------
(***************************************************************************)
(* openDevice and closeDevice.                                             *)
(***************************************************************************)
\* StringSeparator::GetStringVector: the parts between the commas, empty ones
\* left out.
GetStringVector(p) == SelectSeq(p, LAMBDA part : part # "empty")

\* _checkIP and _checkPort on the four parts.
_splitConnectionParameter(p) == GetStringVector(p) = <<"ip", "port", "ip", "port">>

noReturn == ret' = {} /\ n' = 0 /\ data' = <<>>
linkUnchanged == served' = <<>> /\ UNCHANGED <<toBoard, toPC, regs, fifo, before>>
idleUnchanged == noReturn /\ UNCHANGED <<call, i, pc>> /\ linkUnchanged

OpenFails(s) == sock' = s /\ errcode' = errcode \cup {"open_failed"}

\* getaddrinfo() or socket() fails and leaves -1.
_createUDPsocket_fails == OpenFails("none")

\* bind() fails: the socket is closed, its number stays.
_bindUDPsocket_fails == OpenFails("closed")

openDevice(p) ==
    /\ pc = "idle"
    /\ \/ deviceIsOpen /\ UNCHANGED sock /\ errcode' = errcode \cup {"already_open"}
       \/ ~deviceIsOpen /\ ~_splitConnectionParameter(p) /\ OpenFails("none")
       \/ ~deviceIsOpen /\ _splitConnectionParameter(p) /\ _createUDPsocket_fails
       \/ ~deviceIsOpen /\ _splitConnectionParameter(p) /\ _bindUDPsocket_fails
       \/ ~deviceIsOpen /\ _splitConnectionParameter(p) /\ sock' = "open" /\ errcode' = {}
    /\ idleUnchanged

\* close() of a number that was closed already fails.
closeDevice ==
    /\ pc = "idle"
    /\ \/ ~deviceIsOpen /\ errcode' = errcode \cup {"device_not_open"}
       \/ sock = "open" /\ errcode' = {}
       \/ deviceIsOpen /\ errcode' = errcode \cup {"close_failed"}
    /\ sock' = "none"
    /\ IF sock = "open" THEN toPC' = <<>> ELSE UNCHANGED toPC
    /\ noReturn /\ served' = <<>>
    /\ UNCHANGED <<call, i, pc, toBoard, regs, fifo, before>>

-----------------------------------------------------------------------------
(***************************************************************************)
(* A call begins, its exchanges follow, it returns.                        *)
(***************************************************************************)
Return(E) ==
    /\ pc' = "idle" /\ call' = NoCall /\ i' = 0
    /\ errcode' = E

NextExchange(E) ==
    /\ pc' = "send" /\ i' = i + 1 /\ UNCHANGED call
    /\ errcode' = E

\* writeData() and readData() look at the socket first and may have nothing
\* to do; deviceIsOnline() looks as well.
ReturnsAtOnce(c) ==
    \/ c.op \in {"writeData", "readData"} /\ (~deviceIsOpen \/ c.data = <<>>)
    \/ c.op = "ping" /\ ~deviceIsOpen

BeginCall(c) ==
    /\ pc = "idle"
    /\ noReturn
    /\ served' = <<>> /\ before' = [regs |-> regs, errcode |-> errcode]
    /\ IF ReturnsAtOnce(c)
       THEN /\ errcode' = IF deviceIsOpen \/ c.op = "ping" THEN errcode
                          ELSE errcode \cup {"device_not_open"}
            /\ UNCHANGED <<call, i, pc>>
       ELSE /\ call' = c /\ i' = 0 /\ pc' = "send"
            /\ UNCHANGED errcode
    /\ UNCHANGED <<sock, toBoard, toPC, regs, fifo>>

\* read() comes back with the value v and the error code E.
read_Result(v, E) ==
    CASE call.op = "read" ->
            Return(E) /\ ret' = v /\ UNCHANGED <<n, data>>
      [] call.op \in TwoExchanges ->
            NextExchange(E) /\ ret' = v /\ UNCHANGED <<n, data>>
      [] call.op = "readData" ->
            /\ data' = Append(data, v)
            /\ UNCHANGED ret
            /\ IF E # {} THEN Return(E \cup {"read_data_failed"}) /\ UNCHANGED n
               ELSE /\ n' = n + 1
                    /\ IF n' = Len(call.data) THEN Return(E) ELSE NextExchange(E)

\* Mutated: the word that failed is counted.
write_Result_Counts(E) ==
    /\ ret' = {} /\ UNCHANGED data
    /\ IF call.op # "writeData" THEN Return(E) /\ UNCHANGED n
       ELSE /\ n' = n + 1
            /\ IF E # {} THEN Return(E \cup {"write_data_failed"})
               ELSE IF n' = Len(call.data) THEN Return(E) ELSE NextExchange(E)

\* write() comes back with the error code E; writeData() goes on with the
\* next word only if it is 0.
write_Result(E) ==
    /\ ret' = {} /\ UNCHANGED data
    /\ IF call.op # "writeData" THEN Return(E) /\ UNCHANGED n
       ELSE IF E # {} THEN Return(E \cup {"write_data_failed"}) /\ UNCHANGED n
       ELSE /\ n' = n + 1
            /\ IF n' = Len(call.data) THEN Return(E) ELSE NextExchange(E)

\* doIoctl() and deviceIsOnline() come back with a number.
number_Result(count, E) == Return(E) /\ n' = count /\ UNCHANGED <<ret, data>>

Old(link) == [k \in DOMAIN link |-> [link[k] EXCEPT !.fresh = FALSE]]
Push(link, m) == IF Len(link) < MaxUnderWay THEN Append(link, m) ELSE link

\* sendto() takes the datagram.
_sendBuffer ==
    /\ pc = "send" /\ sock = "open"
    /\ toBoard' = Push(Old(toBoard), toSend)
    /\ toPC' = Old(toPC)
    /\ pc' = "wait"
    /\ UNCHANGED <<sock, errcode, call, i, ret, n, data, regs, fifo, served, before>>

\* The device is not open, or sendto() fails.  deviceIsOnline() waits for an
\* answer all the same.
_sendBuffer_fails ==
    /\ pc = "send"
    /\ IF call.op = "ping"
       THEN /\ errcode' = errcode \cup {"write_failed"}
            /\ pc' = "wait"
            /\ UNCHANGED <<call, i, ret, n, data>>
       ELSE CASE toSend.flag = "read"  -> read_Result({}, {"ioctl_failed"})
              [] toSend.flag = "write" -> write_Result({"ioctl_failed"})
              [] toSend.flag = "bulk"  -> number_Result(toSend.words, {"ioctl_failed"})
    /\ toBoard' = Old(toBoard) /\ toPC' = Old(toPC)
    /\ UNCHANGED <<sock, regs, fifo, served, before>>

-----------------------------------------------------------------------------
(***************************************************************************)
(* _readBuffer: one datagram, whoever it is for, or none.                  *)
(***************************************************************************)
\* What the caller of _readBuffer makes of a datagram.  read() sets the error
\* code to read_failed if the identifier is another one, and to success after
\* that; doIoctl() looks at no identifier and takes the size of the datagram
\* for the number of words.
Accept(m) ==
    CASE toSend.flag = "read"  -> read_Result(m.val, {})
      [] toSend.flag = "write" ->
            write_Result(IF m.flag = ReplyFlag("write") THEN errcode ELSE {"read_failed"})
      [] toSend.flag = "bulk"  -> number_Result(m.words, errcode)
      [] toSend.flag = "ping"  ->
            number_Result(IF m.flag = ReplyFlag("ping") THEN 1 ELSE 0, errcode)

_readBuffer ==
    /\ pc = "wait" /\ sock = "open" /\ toPC # <<>>
    /\ Accept(Head(toPC))
    /\ toPC' = Tail(toPC)
    /\ UNCHANGED <<sock, toBoard, regs, fifo, served, before>>

\* Mutated: the word of the answer that did not come is not initialised.
TimedOut_Garbage ==
    CASE toSend.flag = "read"  -> read_Result(Bits, {})
      [] toSend.flag = "write" -> write_Result({"read_failed"})
      [] toSend.flag = "bulk"  -> number_Result(toSend.words, {"read_failed"})
      [] toSend.flag = "ping"  -> number_Result(0, errcode)

TimedOut ==
    CASE toSend.flag = "read"  -> read_Result({}, {})
      [] toSend.flag = "write" -> write_Result({"read_failed"})
      [] toSend.flag = "bulk"  -> number_Result(toSend.words, {"read_failed"})
      [] toSend.flag = "ping"  -> number_Result(0, errcode)

\* Mutated: the wait ends before the answer can be there.
_readBuffer_timeout_Early ==
    /\ pc = "wait" /\ TimedOut
    /\ UNCHANGED <<sock, toBoard, toPC, regs, fifo, served, before>>

\* Mutated: a read is sent again, without a bound.
_readBuffer_timeout_Retries ==
    /\ pc = "wait"
    /\ Late \/ sock # "open" \/ (toBoard = <<>> /\ toPC = <<>>)
    /\ IF toSend.flag = "read"
       THEN pc' = "send" /\ UNCHANGED <<errcode, call, i, ret, n, data>>
       ELSE TimedOut
    /\ UNCHANGED <<sock, toBoard, toPC, regs, fifo, served, before>>

\* Mutated: the result -2 of _readBuffer is not looked at.
_readBuffer_timeout_Ignored ==
    /\ pc = "wait"
    /\ Late \/ sock # "open" \/ (toBoard = <<>> /\ toPC = <<>>)
    /\ IF toSend.flag = "write" THEN write_Result(errcode) ELSE TimedOut
    /\ UNCHANGED <<sock, toBoard, toPC, regs, fifo, served, before>>

\* poll() ends without a datagram.  The number of words stays what was asked.
_readBuffer_timeout ==
    /\ pc = "wait"
    /\ Late \/ sock # "open" \/ (toBoard = <<>> /\ toPC = <<>>)
    /\ TimedOut
    /\ UNCHANGED <<sock, toBoard, toPC, regs, fifo, served, before>>

-----------------------------------------------------------------------------
(***************************************************************************)
(* The board and the cable.                                                *)
(***************************************************************************)
\* The board serves a request at once; its answer carries "words" words
\* behind the header, "val" being the first of them.  A socket that is full
\* drops the answer.
Serve ==
    /\ toBoard # <<>>
    /\ LET r == Head(toBoard)
           taken == IF r.flag = "bulk" THEN BulkReadTarget(r.words, fifo) ELSE 0
           words == IF r.flag = "read" THEN 1 ELSE taken
           v == IF r.flag = "read" THEN regs[r.addr] ELSE IF taken > 0 THEN Bits ELSE {}
       IN  /\ toPC' = Push(toPC, [flag |-> ReplyFlag(r.flag), addr |-> r.addr, val |-> v,
                                  words |-> words, fresh |-> r.fresh])
           /\ regs' = IF r.flag = "write" THEN [regs EXCEPT ![r.addr] = r.val] ELSE regs
           /\ served' = IF r.flag = "write" /\ r.fresh THEN Append(served, <<r.addr, r.val>>) ELSE served
           /\ fifo' = fifo - taken
    /\ toBoard' = Tail(toBoard)
    /\ UNCHANGED <<driverVars, before>>

DaqWord ==
    /\ fifo < MaxFifo
    /\ fifo' = fifo + 1
    /\ UNCHANGED <<driverVars, toBoard, toPC, regs, served, before>>

Lose ==
    /\ Loss
    /\ \/ toBoard # <<>> /\ toBoard' = Tail(toBoard) /\ UNCHANGED toPC
       \/ toPC # <<>> /\ toPC' = Tail(toPC) /\ UNCHANGED toBoard
    /\ UNCHANGED <<driverVars, regs, fifo, served, before>>

-----------------------------------------------------------------------------
Init ==
    /\ sock = "none" /\ errcode = {} /\ call = NoCall /\ i = 0 /\ pc = "idle"
    /\ ret = {} /\ n = 0 /\ data = <<>>
    /\ toBoard = <<>> /\ toPC = <<>>
    /\ regs = [a \in Addr |-> {}] /\ fifo = 0
    /\ served = <<>> /\ before = [regs |-> regs, errcode |-> {}]

Driver == _sendBuffer \/ _sendBuffer_fails \/ _readBuffer \/ _readBuffer_timeout

Next ==
    \/ \E p \in Connections : openDevice(p)
    \/ closeDevice
    \/ \E c \in Calls : BeginCall(c)
    \/ _sendBuffer
    \/ _sendBuffer_fails
    \/ _readBuffer
    \/ _readBuffer_timeout
    \/ Serve
    \/ DaqWord
    \/ Lose

\* The program runs, and so does the board.
Fairness == WF_vars(Driver) /\ WF_vars(Serve)

Spec == Init /\ [][Next]_vars /\ Fairness

-----------------------------------------------------------------------------
(***************************************************************************)
(* Properties.                                                             *)
(***************************************************************************)
Datagram == [flag : WhatToDo, addr : Addr, val : Value, words : Nat, fresh : BOOLEAN]

\* The variables have their types, and a call is under way exactly when the
\* driver is not idle.
TypeOK ==
    /\ sock \in {"none", "open", "closed"} /\ errcode \subseteq ErrorFlag
    /\ call \in Calls \cup {NoCall} /\ i \in Nat /\ pc \in {"idle", "send", "wait"}
    /\ (pc = "idle") = (call = NoCall)
    /\ ret \in Value /\ n \in Nat /\ data \in Seq(Value)
    /\ toBoard \in Seq(Datagram) /\ toPC \in Seq(Datagram)
    /\ regs \in [Addr -> Value] /\ fifo \in 0..MaxFifo /\ served \in Seq(Addr \X Value)
    /\ before \in [regs : [Addr -> Value], errcode : SUBSET ErrorFlag]

\* The datagrams under way: at most one, and none while the driver does not
\* wait; a request is the one the driver waits for, an answer answers it.
OneExchange ==
    /\ Len(toBoard) + Len(toPC) <= IF pc = "wait" THEN 1 ELSE 0
    /\ \A k \in DOMAIN toBoard : toBoard[k] = toSend
    /\ \A k \in DOMAIN toPC : toPC[k].flag = ReplyFlag(toSend.flag) /\ toPC[k].fresh

Returns(ops) == pc # "idle" /\ pc' = "idle" /\ call.op \in ops

\* A write or a writeData that ends without an error was carried out by the
\* board, word for word (write, writeData, lastActionSuccessful).
SuccessMeansDone ==
    [][Returns({"write", "writeData"}) /\ errcode' = {} =>
         served = IF call.op = "write" THEN <<<<call.addr, call.val>>>>
                  ELSE [k \in DOMAIN call.data |-> <<call.addr, call.data[k]>>]]_vars

\* The number writeData returns is the number of words the board has, but for
\* one more whose confirmation is missing, and they are the first ones.
CountedWordsArrive ==
    [][Returns({"writeData"}) =>
         /\ Len(served) \in {n', n' + 1}
         /\ \A k \in DOMAIN served : served[k] = <<call.addr, call.data[k]>>]_vars

\* read returns the contents of the register, or 0.
ReadIsContentsOrZero == [][Returns({"read"}) => ret' \in {regs[call.addr], {}}]_vars

\* A bulk read without an error announces no more words than were asked for.
BulkWithinRequest ==
    [][Returns({"bulk"}) /\ errcode' = {} => n' <= Len(call.data)]_vars

\* A call that modifies bits of a register leaves the others alone (setFlag
\* through writeOr and writeAnd).
OnlyMaskAffected ==
    [][Returns({"or", "and"}) =>
         LET kept == IF call.op = "or" THEN Bits \ call.val ELSE call.val
         IN  regs[call.addr] \cap kept = before.regs[call.addr] \cap kept]_vars

\* A read that gets no answer says so.
ReadFailureReported ==
    [][Returns({"read"}) /\ toPC' = toPC /\ pc = "wait" => errcode' # {}]_vars

\* A confirmed write leaves the error code at 0.
SuccessResetsError ==
    [][Returns({"write"}) /\ toPC # <<>> /\ toPC' = Tail(toPC) /\
       Head(toPC).flag = ReplyFlag("write") => errcode' = {}]_vars

\* A call on a device that is not open says that it is not.
NotOpenReported ==
    [][Returns({"read", "write"}) /\ sock = "none" => "device_not_open" \in errcode']_vars

\* A device that counts as open is open.
OpenMeansOpen == deviceIsOpen => sock = "open"

\* A ping that gets a datagram does not fail while its own answer is behind it.
OnlineIsSeen ==
    [][Returns({"ping"}) /\ n' = 0 /\ toPC' # toPC =>
         \A k \in DOMAIN toPC' : ~toPC'[k].fresh]_vars

\* Between two calls the caller sees the driver; during a call it still sees
\* what was there before.
Seen ==
    [open |-> deviceIsOpen,
     errcode |-> IF pc = "idle" THEN errcode ELSE before.errcode,
     regs |-> IF pc = "idle" THEN regs ELSE before.regs,
     ret |-> IF pc = "idle" THEN ret ELSE {},
     n |-> IF pc = "idle" THEN n ELSE 0,
     data |-> IF pc = "idle" THEN data ELSE <<>>,
     log |-> IF pc = "idle" THEN served ELSE <<>>,
     luck |-> <<>>]

\* Every call over the network is one step of the abstract access layer: the
\* exchanges, losses and failures of a call amount to one of the outcomes
\* GalUdpCalls computes (read, write, writeOr, writeData, readData, doIoctl).
Service == INSTANCE GalService WITH dev <- Seen, MaxWords <- MAX_BLOCKS_PER_UDP_PACKAGE
\* (Service!Spec, with the stuttering steps first, which are most.)
ImplementsService == Service!Init /\ [][UNCHANGED Seen \/ Service!Next]_vars

\* A call comes to its end.
CallEnds == pc # "idle" ~> pc = "idle"
=============================================================================
