-------------------------- MODULE MrfGalUdp_proofs --------------------------
(***************************************************************************)
(* Proofs about the UDP driver, for every set of registers, bits and calls *)
(* and any number of words: as long as no answer comes later than the      *)
(* timeout, the driver says the truth about what the board has done,       *)
(* whatever datagrams are lost, and a call over the network is a call of   *)
(* the abstract access layer (GalService).                                 *)
(***************************************************************************)
EXTENDS MrfGalUdp, SequenceTheorems, TLAPS

\* The words a call that writes is to write.
Words == IF call.op = "write" THEN <<call.val>> ELSE call.data

\* Where a call is: the exchange under way is one of those the call has, and a
\* block transfer has counted the words before it.
Position ==
    /\ call.op \in {"read", "write", "bulk", "ping"} => i = 0
    /\ call.op \in TwoExchanges => i <= 1
    /\ call.op \in {"writeData", "readData"} => i < Len(call.data) /\ n = i

\* What the answer to a request is.
IsAnswer(m) ==
    /\ m.flag = ReplyFlag(toSend.flag) /\ m.fresh
    /\ toSend.flag = "read" => m.val = regs[call.addr]
    /\ toSend.flag = "bulk" => m.words <= toSend.words

NothingUnderWay == toBoard = <<>> /\ toPC = <<>>
RequestUnderWay == toBoard = <<toSend>> /\ toPC = <<>>
AnswerUnderWay == toBoard = <<>> /\ \E m \in Datagram : toPC = <<m>> /\ IsAnswer(m)

\* What is under way is the request the driver waits for, or its answer.
Link ==
    \/ NothingUnderWay
    \/ pc = "wait" /\ sock = "open" /\ (RequestUnderWay \/ AnswerUnderWay)

\* The board has written the words before the exchange under way, and the one of
\* this exchange from the moment it answers.
Written ==
    call.op \in {"write", "writeData"} =>
        /\ Len(served) \in {i, i + 1}
        /\ \A k \in DOMAIN served : served[k] = <<call.addr, Words[k]>>
        /\ pc = "send" \/ toBoard # <<>> => Len(served) = i
        /\ toPC # <<>> => Len(served) = i + 1

CallInv == TypeOK /\ Position /\ Link /\ Written

-----------------------------------------------------------------------------
LEMMA NoCallIsNone == NoCall.op = "none" /\ NoCall \notin Calls
  BY CallsAssumption DEF NoCall, Op, TwoExchanges

LEMMA NoOld == Old(<<>>) = <<>>
  BY DEF Old

\* There is room for one datagram.
LEMMA PushOne == ASSUME NEW x PROVE Push(<<>>, x) = <<x>>
<1>1. Len(<<>>) = 0 /\ 0 < MaxUnderWay
  BY LinkAssumption
<1>2. Append(<<>>, x) = <<x>>
  OBVIOUS
<1> QED
  BY <1>1, <1>2 DEF Push

\* A call under way is one of the program's calls, and so has their types.
LEMMA CallType ==
    ASSUME CallInv, pc # "idle"
    PROVE  /\ call \in Calls /\ call.op \in Op /\ call.addr \in Addr
           /\ call.val \in Value /\ call.data \in Seq(Value)
  BY CallsAssumption DEF CallInv, TypeOK

\* The request of a call under way has the types of a datagram, and the
\* register the call is about.
LEMMA RequestType ==
    ASSUME CallInv, pc # "idle"
    PROVE  /\ toSend \in Datagram /\ toSend.fresh
           /\ toSend.flag \in {"read", "write", "bulk", "ping"}
           /\ toSend.addr = call.addr
           /\ toSend.flag = "bulk" => call.op = "bulk" /\ toSend.words <= Len(call.data)
<1>1. /\ call.op \in Op /\ call.addr \in Addr /\ call.val \in Value
      /\ call.data \in Seq(Value) /\ i \in Nat /\ ret \in Value
  BY CallType DEF CallInv, TypeOK
<1>2. CASE call.op = "writeData"
  <2>1. call.data[i + 1] \in Value
    BY <1>1, <1>2 DEF CallInv, Position
  <2> QED
    BY <1>1, <1>2, <2>1 DEF toSend, Request_, Datagram, WhatToDo, Request, TwoExchanges
<1>3. CASE call.op \in TwoExchanges
  <2>1. Modified(call.op, ret, call.val) \in Value
    BY <1>1, <1>3 DEF Modified, TwoExchanges, Value
  <2> QED
    BY <1>1, <1>3, <2>1 DEF toSend, Request_, Datagram, WhatToDo, Request, TwoExchanges, Value
<1>4. CASE call.op = "bulk"
  <2>1. LimitedWords(Len(call.data)) \in Nat /\ LimitedWords(Len(call.data)) <= Len(call.data)
    BY <1>1, MaxBlkAssumption DEF LimitedWords, MAX_BLOCKS_PER_UDP_PACKAGE
  <2> QED
    BY <1>1, <1>4, <2>1 DEF toSend, Request_, Datagram, WhatToDo, Request, TwoExchanges, Value
<1>5. CASE call.op \in {"read", "write", "readData", "ping"}
  BY <1>1, <1>5 DEF toSend, Request_, Datagram, WhatToDo, Request, TwoExchanges, Value
<1> QED
  BY <1>1, <1>2, <1>3, <1>4, <1>5 DEF Op

\* Before the device is opened nothing is under way.
LEMMA InitCall == Init => CallInv
<1> SUFFICES ASSUME Init PROVE CallInv
  OBVIOUS
<1>1. TypeOK
  BY LinkAssumption DEF Init, TypeOK, Value, ErrorFlag
<1>2. Position /\ Written
  BY NoCallIsNone DEF Init, Position, Written, TwoExchanges
<1> QED
  BY <1>1, <1>2 DEF Init, CallInv, Link, NothingUnderWay

-----------------------------------------------------------------------------
(***************************************************************************)
(* What the results of an exchange keep.  Nothing is under way afterwards, *)
(* and the call goes on only if the board has done its word.               *)
(***************************************************************************)
Settled ==
    /\ toBoard' = <<>> /\ toPC' = <<>>
    /\ UNCHANGED <<sock, regs, fifo, served, before>>

LEMMA ReadKeeps ==
    ASSUME CallInv, pc # "idle", toSend.flag = "read", Settled,
           NEW v \in Value, NEW E \in SUBSET ErrorFlag, read_Result(v, E)
    PROVE  CallInv'
<1>1. call.op \in {"read", "readData"} \cup TwoExchanges /\ call \in Calls
  BY CallType DEF toSend, Request_, Op
<1>2. CASE call.op = "read"
  BY <1>1, <1>2, NoCallIsNone DEF read_Result, Return, CallInv, TypeOK, Position, Link,
     NothingUnderWay, Written, Settled, TwoExchanges
<1>3. CASE call.op \in TwoExchanges
  <2>1. i = 0
    BY <1>3 DEF toSend, Request_, TwoExchanges, CallInv, TypeOK, Position
  <2>2. NextExchange(E) /\ ret' = v /\ UNCHANGED <<n, data>>
    BY <1>3 DEF read_Result, TwoExchanges, Return, NextExchange
  <2>3. Position' /\ Link' /\ Written'
    BY <1>3, <2>1, <2>2 DEF NextExchange, CallInv, Position, Link,
       NothingUnderWay, Written, Settled, TwoExchanges
  <2>4. TypeOK'
    BY <1>1, <2>1, <2>2, NoCallIsNone DEF NextExchange, CallInv, TypeOK, Settled
  <2> QED
    BY <2>3, <2>4 DEF CallInv
<1>4. CASE call.op = "readData"
  <2>1. /\ data' = Append(data, v) /\ UNCHANGED ret
        /\ \/ E # {} /\ Return(E \cup {"read_data_failed"}) /\ UNCHANGED n
           \/ n' = n + 1 /\ Return(E)
           \/ n' = n + 1 /\ n' # Len(call.data) /\ NextExchange(E)
    BY <1>4 DEF read_Result, TwoExchanges, Return, NextExchange
  <2>2. data' \in Seq(Value) /\ i < Len(call.data) /\ n = i /\ Len(call.data) \in Nat
    BY <1>4, <2>1, CallType DEF CallInv, TypeOK, Position
  <2>3. Position' /\ Link' /\ Written'
    BY <1>4, <2>1, <2>2, NoCallIsNone DEF Return, NextExchange, CallInv, TypeOK,
       Position, Link, NothingUnderWay, Written, Settled, TwoExchanges
  <2>7. E \cup {"read_data_failed"} \in SUBSET ErrorFlag
    BY DEF ErrorFlag
  <2>4. errcode' \in SUBSET ErrorFlag /\ pc' \in {"idle", "send"} /\ n' \in Nat /\ i' \in Nat
    BY <2>1, <2>2, <2>7 DEF Return, NextExchange, CallInv, TypeOK
  <2>5. call' \in Calls \cup {NoCall} /\ (pc' = "idle") = (call' = NoCall)
    BY <1>1, <2>1, NoCallIsNone DEF Return, NextExchange
  <2>6. TypeOK'
    BY <2>1, <2>2, <2>4, <2>5 DEF CallInv, TypeOK, Settled
  <2> QED
    BY <2>3, <2>6 DEF CallInv
<1> QED
  BY <1>1, <1>2, <1>3, <1>4

LEMMA WriteKeeps ==
    ASSUME CallInv, pc # "idle", toSend.flag = "write", Settled,
           NEW E \in SUBSET ErrorFlag, write_Result(E),
           E = {} /\ call.op = "writeData" => Len(served) = i + 1
    PROVE  CallInv'
<1>1. call.op \in {"write", "writeData"} \cup TwoExchanges /\ call \in Calls
  BY CallType DEF toSend, Request_, Op
<1>2. {} \in Value
  BY DEF Value
<1>3. CASE call.op # "writeData" \/ E # {}
  <2>1. /\ ret' = {} /\ UNCHANGED <<data, n>>
        /\ Return(E) \/ Return(E \cup {"write_data_failed"})
    BY <1>3 DEF write_Result, Return, NextExchange
  <2>2. errcode' \in SUBSET ErrorFlag
    BY <2>1 DEF Return, ErrorFlag
  <2> QED
    BY <1>2, <2>1, <2>2, NoCallIsNone DEF Return, CallInv, TypeOK, Position, Link,
       NothingUnderWay, Written, Settled, TwoExchanges
<1>4. CASE call.op = "writeData" /\ E = {}
  <2>1. /\ ret' = {} /\ UNCHANGED data /\ n' = n + 1
        /\ \/ Return(E)
           \/ n' # Len(call.data) /\ NextExchange(E)
    BY <1>4 DEF write_Result, Return, NextExchange
  <2>2. i < Len(call.data) /\ n = i /\ Len(call.data) \in Nat /\ Len(served) = i + 1
    BY <1>4, CallType DEF CallInv, TypeOK, Position
  <2>3. Position' /\ Link'
    BY <1>4, <2>1, <2>2, NoCallIsNone DEF Return, NextExchange, CallInv, TypeOK,
       Position, Link, NothingUnderWay, Settled, TwoExchanges
  <2>4. Written'
    BY <1>4, <2>1, <2>2, NoCallIsNone DEF Return, NextExchange, CallInv, TypeOK,
       Written, Settled, Words
  <2>5. TypeOK'
    BY <1>1, <1>2, <2>1, <2>2, NoCallIsNone DEF Return, NextExchange, CallInv, TypeOK, Settled
  <2> QED
    BY <2>3, <2>4, <2>5 DEF CallInv
<1> QED
  BY <1>3, <1>4

LEMMA NumberKeeps ==
    ASSUME CallInv, pc # "idle", Settled,
           NEW k \in Nat, NEW E \in SUBSET ErrorFlag, number_Result(k, E)
    PROVE  CallInv'
  BY NoCallIsNone DEF number_Result, Return, CallInv, TypeOK, Position, Link,
     NothingUnderWay, Written, Settled, TwoExchanges

-----------------------------------------------------------------------------
(***************************************************************************)
(* The steps.                                                              *)
(***************************************************************************)
LEMMA OpenKeeps ==
    ASSUME CallInv, NEW p \in Connections, openDevice(p)
    PROVE  CallInv'
<1>1. /\ sock' \in {"none", "open", "closed"} /\ errcode' \in SUBSET ErrorFlag
      /\ pc = "idle" /\ idleUnchanged
  BY DEF openDevice, OpenFails, _createUDPsocket_fails, _bindUDPsocket_fails, CallInv, TypeOK,
     ErrorFlag, deviceIsOpen
<1> QED
  BY <1>1, NoCallIsNone DEF idleUnchanged, noReturn, linkUnchanged, CallInv, TypeOK, Position,
     Link, NothingUnderWay, Written, TwoExchanges, Value

LEMMA CloseKeeps ==
    ASSUME CallInv, closeDevice
    PROVE  CallInv'
<1>1. /\ sock' \in {"none", "open", "closed"} /\ errcode' \in SUBSET ErrorFlag
      /\ pc = "idle" /\ toPC' = <<>> /\ toBoard' = <<>>
  BY DEF closeDevice, CallInv, TypeOK, ErrorFlag, deviceIsOpen, Link, NothingUnderWay
<1> QED
  BY <1>1, NoCallIsNone DEF closeDevice, noReturn, CallInv, TypeOK, Position,
     Link, NothingUnderWay, Written, TwoExchanges, Value

LEMMA BeginKeeps ==
    ASSUME CallInv, NEW c \in Calls, BeginCall(c)
    PROVE  CallInv'
<1>1. /\ pc = "idle" /\ call = NoCall /\ noReturn /\ served' = <<>>
      /\ UNCHANGED <<sock, toBoard, toPC, regs, fifo>> /\ toBoard = <<>> /\ toPC = <<>>
  BY NoCallIsNone DEF BeginCall, CallInv, TypeOK, Link, NothingUnderWay
<1>2. before' \in [regs : [Addr -> Value], errcode : SUBSET ErrorFlag]
  BY DEF BeginCall, CallInv, TypeOK
<1>3. CASE ReturnsAtOnce(c)
  <2>1. errcode' \in SUBSET ErrorFlag /\ UNCHANGED <<call, i, pc>>
    BY <1>3 DEF BeginCall, CallInv, TypeOK, ErrorFlag
  <2> QED
    BY <1>1, <1>2, <2>1, NoCallIsNone DEF noReturn, CallInv, TypeOK, Position,
       Link, NothingUnderWay, Written, TwoExchanges, Value
<1>4. CASE ~ReturnsAtOnce(c)
  <2>1. call' = c /\ i' = 0 /\ pc' = "send" /\ UNCHANGED errcode
    BY <1>4 DEF BeginCall
  <2>2. c \in [op : Op, addr : Addr, val : Value, data : Seq(Value)]
    BY CallsAssumption
  <2>3. c.op \in {"writeData", "readData"} => 0 < Len(c.data)
    BY <1>4, <2>2 DEF ReturnsAtOnce
  <2>4. Position'
    BY <1>1, <2>1, <2>3 DEF noReturn, Position, TwoExchanges
  <2>5. TypeOK'
    BY <1>1, <1>2, <2>1, NoCallIsNone DEF noReturn, CallInv, TypeOK, Value
  <2> QED
    BY <1>1, <2>1, <2>4, <2>5 DEF CallInv, Link, NothingUnderWay, Written
<1> QED
  BY <1>3, <1>4

\* Before a request is sent nothing is under way, and without a socket never.
LEMMA NothingBefore ==
    ASSUME CallInv, pc # "wait" \/ sock # "open"
    PROVE  NothingUnderWay
  BY DEF CallInv, Link

LEMMA SendKeeps ==
    ASSUME CallInv, _sendBuffer
    PROVE  CallInv'
<1>1. toBoard = <<>> /\ toPC = <<>>
  BY NothingBefore DEF _sendBuffer, NothingUnderWay
<1>2. toSend \in Datagram
  BY RequestType DEF _sendBuffer
<1>3. toBoard' = <<toSend>> /\ toPC' = <<>>
  BY <1>1, NoOld, PushOne DEF _sendBuffer
<1>4. toSend' = toSend
  BY DEF _sendBuffer, toSend
<1>5. TypeOK'
  BY <1>2, <1>3, NoCallIsNone DEF _sendBuffer, CallInv, TypeOK
<1>6. Link'
  BY <1>3, <1>4 DEF _sendBuffer, Link, RequestUnderWay
<1>7. Position'
  BY DEF _sendBuffer, CallInv, Position
<1>8. Written'
  BY <1>3 DEF _sendBuffer, CallInv, Written, Words
<1> QED
  BY <1>5, <1>6, <1>7, <1>8 DEF CallInv

LEMMA SendFailsKeeps ==
    ASSUME CallInv, _sendBuffer_fails
    PROVE  CallInv'
<1>1. pc = "send" /\ Settled
  BY NothingBefore, NoOld DEF _sendBuffer_fails, NothingUnderWay, Settled
<1>2. {"ioctl_failed"} \in SUBSET ErrorFlag /\ {} \in Value
  BY DEF ErrorFlag, Value
<1>3. CASE call.op = "ping"
  <2>1. errcode' \in SUBSET ErrorFlag /\ pc' = "wait" /\ UNCHANGED <<call, i, ret, n, data>>
    BY <1>3 DEF _sendBuffer_fails, CallInv, TypeOK, ErrorFlag
  <2> QED
    BY <1>1, <1>3, <2>1 DEF Settled, CallInv, TypeOK, Position, Link, NothingUnderWay,
       Written, TwoExchanges
<1>4. CASE call.op # "ping" /\ toSend.flag = "read"
  BY <1>1, <1>2, <1>4, ReadKeeps DEF _sendBuffer_fails
<1>5. CASE call.op # "ping" /\ toSend.flag = "write"
  BY <1>1, <1>2, <1>5, WriteKeeps DEF _sendBuffer_fails
<1>6. CASE call.op # "ping" /\ toSend.flag = "bulk"
  <2>1. number_Result(toSend.words, {"ioctl_failed"}) /\ toSend.words \in Nat
    BY <1>1, <1>6, RequestType DEF _sendBuffer_fails, Datagram
  <2> QED
    BY <1>1, <1>2, <2>1, NumberKeeps
<1>7. call.op # "ping" => toSend.flag # "ping"
  BY <1>1, CallType DEF toSend, Request_, Op
<1> QED
  BY <1>1, <1>3, <1>4, <1>5, <1>6, <1>7, RequestType

\* With the answers in time, poll() ends without one only if none comes.
LEMMA TimeoutKeeps ==
    ASSUME CallInv, ~Late, _readBuffer_timeout
    PROVE  CallInv'
<1>1. pc = "wait" /\ Settled
  BY NothingBefore DEF _readBuffer_timeout, NothingUnderWay, Settled
<1>2. {"read_failed"} \in SUBSET ErrorFlag /\ {} \in SUBSET ErrorFlag /\ {} \in Value
      /\ errcode \in SUBSET ErrorFlag
  BY DEF ErrorFlag, Value, CallInv, TypeOK
<1>3. CASE toSend.flag = "read"
  BY <1>1, <1>2, <1>3, ReadKeeps DEF _readBuffer_timeout, TimedOut
<1>4. CASE toSend.flag = "write"
  BY <1>1, <1>2, <1>4, WriteKeeps DEF _readBuffer_timeout, TimedOut
<1>5. CASE toSend.flag = "bulk"
  <2>1. number_Result(toSend.words, {"read_failed"}) /\ toSend.words \in Nat
    BY <1>1, <1>5, RequestType DEF _readBuffer_timeout, TimedOut, Datagram
  <2> QED
    BY <1>1, <1>2, <2>1, NumberKeeps
<1>6. CASE toSend.flag = "ping"
  <2>1. number_Result(0, errcode)
    BY <1>6 DEF _readBuffer_timeout, TimedOut
  <2> QED
    BY <1>1, <1>2, <2>1, NumberKeeps
<1> QED
  BY <1>1, <1>3, <1>4, <1>5, <1>6, RequestType

\* What the driver takes from its socket is the answer to its request.
LEMMA AnswerTaken ==
    ASSUME CallInv, _readBuffer
    PROVE  /\ pc = "wait" /\ Settled /\ toPC # <<>>
           /\ Head(toPC) \in Datagram /\ IsAnswer(Head(toPC))
           /\ call.op \in {"write", "writeData"} => Len(served) = i + 1
<1>1. PICK m \in Datagram : toPC = <<m>> /\ IsAnswer(m) /\ toBoard = <<>>
  BY DEF _readBuffer, CallInv, Link, NothingUnderWay, RequestUnderWay, AnswerUnderWay
<1>2. Head(toPC) = m /\ Tail(toPC) = <<>> /\ toPC # <<>>
  BY <1>1
<1> QED
  BY <1>1, <1>2 DEF _readBuffer, Settled, CallInv, Written

LEMMA AnswerKeeps ==
    ASSUME CallInv, _readBuffer
    PROVE  CallInv'
<1> DEFINE m == Head(toPC)
<1>1. pc = "wait" /\ Settled /\ m \in Datagram /\ IsAnswer(m)
  BY AnswerTaken
<1>2. {} \in SUBSET ErrorFlag /\ errcode \in SUBSET ErrorFlag
  BY DEF CallInv, TypeOK
<1>3. m.val \in Value /\ m.words \in Nat
  BY <1>1 DEF Datagram
<1>4. Accept(m)
  BY DEF _readBuffer
<1>5. CASE toSend.flag = "read"
  <2>1. read_Result(m.val, {})
    BY <1>4, <1>5 DEF Accept
  <2> QED
    BY <1>1, <1>2, <1>3, <1>5, <2>1, ReadKeeps
<1>6. CASE toSend.flag = "write"
  <2>1. write_Result(errcode)
    BY <1>1, <1>4, <1>6 DEF Accept, IsAnswer
  <2> QED
    BY <1>1, <1>2, <1>6, <2>1, WriteKeeps, AnswerTaken
<1>7. CASE toSend.flag = "bulk"
  <2>1. number_Result(m.words, errcode)
    BY <1>4, <1>7 DEF Accept
  <2> QED
    BY <1>1, <1>2, <1>3, <2>1, NumberKeeps
<1>8. CASE toSend.flag = "ping"
  <2>1. \E k \in {0, 1} : number_Result(k, errcode)
    BY <1>4, <1>8 DEF Accept
  <2> QED
    BY <1>1, <1>2, <2>1, NumberKeeps
<1> QED
  BY <1>1, <1>5, <1>6, <1>7, <1>8, RequestType

\* The board has the request of the driver, if any, and answers it.
LEMMA ServeKeeps ==
    ASSUME CallInv, Serve
    PROVE  CallInv'
<1>1. toBoard = <<toSend>> /\ toPC = <<>> /\ pc = "wait" /\ sock = "open"
  BY DEF Serve, CallInv, Link, NothingUnderWay, RequestUnderWay, AnswerUnderWay
<1>2. Head(toBoard) = toSend /\ Tail(toBoard) = <<>>
  BY <1>1
<1> DEFINE r == toSend
           taken == IF r.flag = "bulk" THEN BulkReadTarget(r.words, fifo) ELSE 0
           words == IF r.flag = "read" THEN 1 ELSE taken
           v == IF r.flag = "read" THEN regs[r.addr] ELSE IF taken > 0 THEN Bits ELSE {}
           m == [flag |-> ReplyFlag(r.flag), addr |-> r.addr, val |-> v,
                 words |-> words, fresh |-> r.fresh]
<1>3. /\ r \in Datagram /\ r.fresh /\ r.flag \in {"read", "write", "bulk", "ping"}
      /\ r.addr = call.addr /\ call.addr \in Addr /\ r.words \in Nat /\ r.val \in Value
  BY <1>1, RequestType, CallType DEF Datagram
<1>4. fifo \in Nat /\ regs \in [Addr -> Value] /\ served \in Seq(Addr \X Value) /\ i \in Nat
  BY LinkAssumption DEF CallInv, TypeOK
<1>5. taken \in Nat /\ taken <= fifo /\ (r.flag = "bulk" => taken <= r.words)
  BY <1>3, <1>4, MaxBlkAssumption DEF BulkReadTarget
<1>6. /\ toPC' = Push(toPC, m) /\ toBoard' = <<>> /\ fifo' = fifo - taken
      /\ regs' = IF r.flag = "write" THEN [regs EXCEPT ![r.addr] = r.val] ELSE regs
      /\ served' = IF r.flag = "write" /\ r.fresh THEN Append(served, <<r.addr, r.val>>) ELSE served
      /\ UNCHANGED <<driverVars, before>>
  BY <1>2 DEF Serve
<1>7. toPC' = <<m>>
  BY <1>1, <1>6, PushOne
<1>8. m \in Datagram
  <2>1. v \in Value
    BY <1>3, <1>4 DEF Value
  <2>2. ReplyFlag(r.flag) \in WhatToDo
    BY <1>3 DEF ReplyFlag, WhatToDo, Request, Answer
  <2> QED
    BY <1>3, <1>5, <2>1, <2>2 DEF Datagram
<1>9. PICK a \in Datagram : a = m
  BY <1>8
<1>10. /\ toPC' = <<a>> /\ a.flag = ReplyFlag(toSend.flag) /\ a.fresh
       /\ toSend.flag = "read" => a.val = regs[call.addr] /\ regs' = regs
       /\ toSend.flag = "bulk" => a.words <= toSend.words
  BY <1>3, <1>5, <1>6, <1>7, <1>9
<1>11. /\ fifo' \in 0..MaxFifo /\ regs' \in [Addr -> Value] /\ served' \in Seq(Addr \X Value)
       /\ UNCHANGED <<sock, errcode, call, i, pc, ret, n, data, before>>
  <2>1. fifo' \in 0..MaxFifo
    BY <1>5, <1>6, LinkAssumption DEF CallInv, TypeOK
  <2>2. regs' \in [Addr -> Value] /\ served' \in Seq(Addr \X Value)
    BY <1>3, <1>4, <1>6
  <2> QED
    BY <1>6, <2>1, <2>2 DEF driverVars
<1> HIDE DEF r, taken, words, v, m
<1>12. TypeOK'
  BY <1>6, <1>7, <1>8, <1>11 DEF CallInv, TypeOK
<1>13. Position'
  BY <1>11 DEF CallInv, Position
<1>14. Link'
  <2>1. toSend' = toSend
    BY <1>11 DEF toSend
  <2>2. IsAnswer(a)'
    BY <1>10, <1>11, <2>1 DEF IsAnswer
  <2>3. AnswerUnderWay'
    BY <1>6, <1>9, <1>10, <2>2 DEF AnswerUnderWay
  <2> QED
    BY <1>1, <1>11, <2>3 DEF Link
<1>15. Written'
  <2>1. CASE call.op \in {"write", "writeData"}
    <3>1. r.flag = "write" /\ r.val = Words[i + 1]
      BY <2>1 DEF toSend, Request_, TwoExchanges, Words, CallInv, Position, r
    <3>2. /\ Len(served) = i
          /\ \A k \in DOMAIN served : served[k] = <<call.addr, Words[k]>>
      BY <1>1, <2>1 DEF CallInv, Written
    <3>3. /\ Len(served') = i + 1
          /\ \A k \in DOMAIN served' : served'[k] = IF k = i + 1 THEN <<r.addr, r.val>> ELSE served[k]
      BY <1>3, <1>4, <1>6, <3>1, <3>2
    <3>4. \A k \in DOMAIN served' : k # i + 1 => k \in DOMAIN served
      BY <1>4, <1>11, <3>2, <3>3
    <3>5. \A k \in DOMAIN served' : served'[k] = <<call.addr, Words[k]>>
      BY <1>3, <3>1, <3>2, <3>3, <3>4
    <3>6. Words' = Words
      BY <1>11 DEF Words
    <3> QED
      BY <1>1, <1>4, <1>6, <1>11, <3>3, <3>5, <3>6 DEF Written
  <2>2. CASE call.op \notin {"write", "writeData"}
    BY <1>11, <2>2 DEF Written
  <2> QED
    BY <2>1, <2>2
<1> QED
  BY <1>12, <1>13, <1>14, <1>15 DEF CallInv

LEMMA EnvironmentKeeps ==
    ASSUME CallInv, DaqWord \/ Lose
    PROVE  CallInv'
<1>1. CASE DaqWord
  <2>1. fifo' \in 0..MaxFifo
    BY <1>1, LinkAssumption DEF DaqWord, CallInv, TypeOK
  <2>2. UNCHANGED <<driverVars, toBoard, toPC, regs, served, before, toSend>>
    BY <1>1 DEF DaqWord, driverVars, toSend
  <2>3. \A m : IsAnswer(m)' = IsAnswer(m)
    BY <2>2 DEF IsAnswer, driverVars
  <2>4. Link'
    BY <2>2, <2>3 DEF CallInv, Link, NothingUnderWay, RequestUnderWay, AnswerUnderWay, driverVars
  <2> QED
    BY <2>1, <2>2, <2>4 DEF CallInv, TypeOK, Position, Written, Words, driverVars
<1>2. CASE Lose
  <2>1. UNCHANGED <<sock, errcode, call, i, pc, ret, n, data, regs, fifo, served, before>>
    BY <1>2 DEF Lose, driverVars
  <2>2. toBoard' = <<>> /\ toPC' = <<>> /\ pc = "wait"
    <3>1. CASE RequestUnderWay
      BY <1>2, <3>1 DEF Lose, CallInv, Link, NothingUnderWay, RequestUnderWay, AnswerUnderWay
    <3>2. CASE AnswerUnderWay
      <4>1. toBoard = <<>> /\ toPC # <<>> /\ Tail(toPC) = <<>>
        BY <3>2 DEF AnswerUnderWay
      <4> QED
        BY <1>2, <4>1 DEF Lose, CallInv, Link, NothingUnderWay
    <3> QED
      BY <1>2, <3>1, <3>2 DEF Lose, CallInv, Link, NothingUnderWay
  <2>3. TypeOK'
    BY <2>1, <2>2 DEF CallInv, TypeOK
  <2>4. Position' /\ Written' /\ Link'
    BY <2>1, <2>2 DEF CallInv, Position, Link, NothingUnderWay, Written, Words
  <2> QED
    BY <2>3, <2>4 DEF CallInv
<1> QED
  BY <1>1, <1>2

LEMMA StutterKeeps ==
    ASSUME CallInv, UNCHANGED vars
    PROVE  CallInv'
<1>1. UNCHANGED <<sock, errcode, call, i, pc, ret, n, data, toBoard, toPC, regs, fifo,
                  served, before, toSend>>
  BY DEF vars, driverVars, toSend
<1>2. \A m : IsAnswer(m)' = IsAnswer(m)
  BY <1>1 DEF IsAnswer
<1>3. Link'
  BY <1>1, <1>2 DEF CallInv, Link, NothingUnderWay, RequestUnderWay, AnswerUnderWay
<1> QED
  BY <1>1, <1>3 DEF CallInv, TypeOK, Position, Written, Words

-----------------------------------------------------------------------------
(***************************************************************************)
(* The theorems: no answer comes later than the timeout.                   *)
(***************************************************************************)
LEMMA StepKeeps == ~Late /\ CallInv /\ [Next]_vars => CallInv'
  BY OpenKeeps, CloseKeeps, BeginKeeps, SendKeeps, SendFailsKeeps, AnswerKeeps, TimeoutKeeps,
     ServeKeeps, EnvironmentKeeps, StutterKeeps DEF Next

\* At every moment at most one datagram is under way, the request the driver
\* waits for or its answer, and the board has written what the call has
\* counted (_sendBuffer, _readBuffer, writeData).
THEOREM DriverInvariant == ASSUME ~Late PROVE Spec => []CallInv
  BY InitCall, StepKeeps, PTL DEF Spec

\* The variables of the driver, of the network and of the board keep their types.
THEOREM DriverTypes == ASSUME ~Late PROVE Spec => []TypeOK
<1>1. CallInv => TypeOK
  BY DEF CallInv
<1> QED
  BY <1>1, DriverInvariant, PTL

\* The datagrams under way: at most one, and none while the driver does not
\* wait; a request is the one the driver waits for, an answer answers it.
THEOREM ExchangesDoNotOverlap == ASSUME ~Late PROVE Spec => []OneExchange
<1>1. CallInv => OneExchange
  <2> SUFFICES ASSUME CallInv PROVE OneExchange
    OBVIOUS
  <2>1. CASE NothingUnderWay
    BY <2>1 DEF NothingUnderWay, OneExchange
  <2>2. CASE pc = "wait" /\ RequestUnderWay
    BY <2>2 DEF RequestUnderWay, OneExchange
  <2>3. CASE pc = "wait" /\ AnswerUnderWay
    BY <2>3 DEF AnswerUnderWay, IsAnswer, OneExchange
  <2> QED
    BY <2>1, <2>2, <2>3 DEF CallInv, Link
<1> QED
  BY <1>1, DriverInvariant, PTL

\* A write or a writeData that ends without an error was carried out by the
\* board, word for word (write, writeData, lastActionSuccessful).
THEOREM SuccessIsTrue == ASSUME ~Late PROVE Spec => SuccessMeansDone
<1>1. ASSUME CallInv, Next, Returns({"write", "writeData"}), errcode' = {}
      PROVE  served = IF call.op = "write" THEN <<<<call.addr, call.val>>>>
                      ELSE [k \in DOMAIN call.data |-> <<call.addr, call.data[k]>>]
  <2>1. toSend.flag = "write" /\ call.val \in Value /\ call.data \in Seq(Value)
    BY <1>1, CallType DEF Returns, toSend, Request_, TwoExchanges
  <2>2. _readBuffer
    BY <1>1, <2>1 DEF Returns, Next, openDevice, closeDevice, BeginCall, _sendBuffer, Serve,
       DaqWord, Lose, driverVars, idleUnchanged, _sendBuffer_fails, _readBuffer_timeout,
       TimedOut, write_Result, Return, NextExchange
  <2>3. write_Result(errcode) /\ Len(served) = i + 1
    BY <1>1, <2>1, <2>2, AnswerTaken DEF Returns, _readBuffer, Accept, IsAnswer
  <2>4. Len(served) = Len(Words) /\ Words \in Seq(Value)
    BY <1>1, <2>1, <2>3 DEF Returns, write_Result, Return, NextExchange, Words, CallInv, Position
  <2>5. /\ served \in Seq(Addr \X Value)
        /\ \A k \in DOMAIN served : served[k] = <<call.addr, Words[k]>>
    BY <1>1 DEF Returns, CallInv, TypeOK, Written
  <2> QED
    BY <2>1, <2>4, <2>5 DEF Words
<1>2. CallInv /\ [Next]_vars =>
        [Returns({"write", "writeData"}) /\ errcode' = {} =>
           served = IF call.op = "write" THEN <<<<call.addr, call.val>>>>
                    ELSE [k \in DOMAIN call.data |-> <<call.addr, call.data[k]>>]]_vars
  BY <1>1
<1> QED
  BY <1>2, DriverInvariant, PTL DEF Spec, SuccessMeansDone

\* read returns the contents of the register, or 0 (read, doIoctl).
THEOREM ReadIsTrue == ASSUME ~Late PROVE Spec => ReadIsContentsOrZero
<1>1. ASSUME CallInv, Next, Returns({"read"})
      PROVE  ret' \in {regs[call.addr], {}}
  <2>1. toSend.flag = "read" /\ call.op = "read"
    BY <1>1 DEF Returns, toSend, Request_, TwoExchanges
  <2>2. _readBuffer \/ _sendBuffer_fails \/ _readBuffer_timeout
    BY <1>1 DEF Returns, Next, openDevice, closeDevice, BeginCall, _sendBuffer, Serve,
       DaqWord, Lose, driverVars, idleUnchanged
  <2>3. CASE _readBuffer
    <3>1. read_Result(Head(toPC).val, {})
      BY <2>1, <2>3 DEF _readBuffer, Accept
    <3>2. Head(toPC).val = regs[call.addr]
      BY <1>1, <2>1, <2>3, AnswerTaken DEF IsAnswer
    <3> QED
      BY <2>1, <3>1, <3>2 DEF read_Result, TwoExchanges
  <2>4. CASE _sendBuffer_fails \/ _readBuffer_timeout
    <3>1. read_Result({}, {"ioctl_failed"}) \/ read_Result({}, {})
      BY <2>1, <2>4 DEF _sendBuffer_fails, _readBuffer_timeout, TimedOut
    <3> QED
      BY <2>1, <3>1 DEF read_Result, TwoExchanges
  <2> QED
    BY <2>2, <2>3, <2>4
<1>2. CallInv /\ [Next]_vars => [Returns({"read"}) => ret' \in {regs[call.addr], {}}]_vars
  BY <1>1
<1> QED
  BY <1>2, DriverInvariant, PTL DEF Spec, ReadIsContentsOrZero

\* The number writeData returns is the number of words the board has, but for
\* one more whose confirmation is missing, and they are the first ones.
THEOREM CountIsTrue == ASSUME ~Late PROVE Spec => CountedWordsArrive
<1>1. ASSUME CallInv, Next, Returns({"writeData"})
      PROVE  /\ Len(served) \in {n', n' + 1}
             /\ \A k \in DOMAIN served : served[k] = <<call.addr, call.data[k]>>
  <2>1. toSend.flag = "write" /\ call.op = "writeData" /\ n = i /\ Len(served) \in {i, i + 1}
    BY <1>1 DEF Returns, toSend, Request_, TwoExchanges, CallInv, Position, Written
  <2>2. \A k \in DOMAIN served : served[k] = <<call.addr, call.data[k]>>
    BY <1>1, <2>1 DEF CallInv, Written, Words
  <2>3. _readBuffer \/ _sendBuffer_fails \/ _readBuffer_timeout
    BY <1>1 DEF Returns, Next, openDevice, closeDevice, BeginCall, _sendBuffer, Serve,
       DaqWord, Lose, driverVars, idleUnchanged
  <2>4. CASE _readBuffer
    <3>1. write_Result(errcode) /\ Len(served) = i + 1
      BY <1>1, <2>1, <2>4, AnswerTaken DEF _readBuffer, Accept, IsAnswer
    <3>2. n' \in {n, n + 1}
      BY <2>1, <3>1 DEF write_Result
    <3> QED
      BY <2>1, <2>2, <3>1, <3>2
  <2>5. CASE _sendBuffer_fails \/ _readBuffer_timeout
    <3>1. write_Result({"ioctl_failed"}) \/ write_Result({"read_failed"})
      BY <2>1, <2>5 DEF _sendBuffer_fails, _readBuffer_timeout, TimedOut
    <3>2. n' = n
      BY <2>1, <3>1 DEF write_Result
    <3> QED
      BY <2>1, <2>2, <3>2
  <2> QED
    BY <2>3, <2>4, <2>5
<1>2. CallInv /\ [Next]_vars =>
        [Returns({"writeData"}) =>
           /\ Len(served) \in {n', n' + 1}
           /\ \A k \in DOMAIN served : served[k] = <<call.addr, call.data[k]>>]_vars
  BY <1>1
<1> QED
  BY <1>2, DriverInvariant, PTL DEF Spec, CountedWordsArrive

\* A bulk read without an error announces no more words than were asked for
\* (doIoctl, and the size of a bulk reply in the board).
THEOREM BulkIsWithinRequest == ASSUME ~Late PROVE Spec => BulkWithinRequest
<1>1. ASSUME CallInv, Next, Returns({"bulk"}), errcode' = {}
      PROVE  n' <= Len(call.data)
  <2>1. toSend.flag = "bulk" /\ call.op = "bulk" /\ toSend.words <= Len(call.data)
    BY <1>1, RequestType DEF Returns, toSend, Request_, TwoExchanges
  <2>2. _readBuffer \/ _sendBuffer_fails \/ _readBuffer_timeout
    BY <1>1 DEF Returns, Next, openDevice, closeDevice, BeginCall, _sendBuffer, Serve,
       DaqWord, Lose, driverVars, idleUnchanged
  <2>3. CASE _readBuffer
    <3> DEFINE m == Head(toPC)
    <3>1. n' = m.words
      BY <2>1, <2>3 DEF _readBuffer, Accept, number_Result
    <3>2. m \in Datagram /\ m.words <= toSend.words
      BY <1>1, <2>1, <2>3, AnswerTaken DEF IsAnswer
    <3>3. toSend \in Datagram /\ Len(call.data) \in Nat
      BY <1>1, RequestType, CallType DEF Returns
    <3> QED
      BY <2>1, <3>1, <3>2, <3>3 DEF Datagram
  <2>4. ~(_sendBuffer_fails \/ _readBuffer_timeout)
    BY <1>1, <2>1 DEF _sendBuffer_fails, _readBuffer_timeout, TimedOut, number_Result, Return
  <2> QED
    BY <2>2, <2>3, <2>4
<1>2. CallInv /\ [Next]_vars =>
        [Returns({"bulk"}) /\ errcode' = {} => n' <= Len(call.data)]_vars
  BY <1>1
<1> QED
  BY <1>2, DriverInvariant, PTL DEF Spec, BulkWithinRequest

-----------------------------------------------------------------------------
(***************************************************************************)
(* The driver implements the abstract access layer.  What a call has done  *)
(* so far, kept next to CallInv, says which exchanges went well: with the  *)
(* step in which it returns that is the luck of the abstract call.         *)
(***************************************************************************)
\* What the first of two exchanges left: sendto() failed, or the answer came, or
\* it did not.
FirstRead ==
    \/ errcode = {"ioctl_failed"} /\ ret = {}
    \/ errcode = {} /\ sock = "open" /\ ret \in {before.regs[call.addr], {}}

ErrorSoFar ==
    /\ call.op \in {"read", "write", "bulk"} => errcode = before.errcode
    /\ call.op \in TwoExchanges => IF i = 0 THEN errcode = before.errcode ELSE FirstRead
    /\ call.op = "writeData" => errcode = before.errcode /\ (i # 0 => errcode = {})
    /\ call.op = "readData" => errcode = IF i = 0 THEN before.errcode ELSE {}
    /\ call.op = "ping" =>
          \/ errcode = before.errcode /\ (pc = "wait" => sock = "open")
          \/ errcode = before.errcode \cup {"write_failed"} /\ pc = "wait" /\ NothingUnderWay

ReturnSoFar ==
    /\ call.op \notin TwoExchanges \/ i = 0 => ret = {}
    /\ call.op \notin {"writeData", "readData"} => n = 0
    /\ IF call.op = "readData"
       THEN Len(data) = i /\ \A k \in DOMAIN data : data[k] \in {before.regs[call.addr], {}}
       ELSE data = <<>>

\* The registers after a write, and what the log has of it and of several.
Put(r, a, v) == [r EXCEPT ![a] = v]
Entry(a, v) == <<a, v>>
Entries(a, words, k) == [j \in 1..k |-> <<a, words[j]>>]

\* The second exchange writes what the first one read, modified.
BoardSoFar ==
    /\ regs = IF served = <<>> THEN before.regs
              ELSE Put(before.regs, call.addr, served[Len(served)][2])
    /\ call.op \notin {"write", "writeData"} /\ i = 0 => served = <<>>
    /\ call.op = "readData" => served = <<>>
    /\ call.op \in TwoExchanges /\ i # 0 =>
          /\ served \in {<<>>, <<<<call.addr, Modified(call.op, ret, call.val)>>>>}
          /\ pc = "send" \/ toBoard # <<>> => served = <<>>
          /\ toPC # <<>> => served # <<>>

SocketSoFar ==
    /\ call.op \in {"writeData", "readData", "ping"} => deviceIsOpen
    /\ pc = "wait" /\ call.op # "ping" => sock = "open"

Progress ==
    pc # "idle" => ErrorSoFar /\ ReturnSoFar /\ BoardSoFar /\ SocketSoFar

-----------------------------------------------------------------------------
(***************************************************************************)
(* The calls of GalUdpCalls on a device, field by field.                   *)
(***************************************************************************)
Device ==
    [open : BOOLEAN, errcode : SUBSET Service!ErrorFlag, regs : [Addr -> Value], ret : Value,
     n : Nat, data : Seq(Value), log : Seq(Addr \X Value), luck : Seq(Service!Fate)]

\* The luck of a device has the type of luck, and so has the rest of it.
LEMMA LuckType ==
    ASSUME NEW d \in Device
    PROVE  Service!FateOf(d) \in Service!Fate /\ Service!NextLuck(d) \in Seq(Service!Fate)
  BY DEF Device, Service!FateOf, Service!NextLuck, Service!Fate

\* Two devices with the same fields are the same.
LEMMA SameDevice ==
    ASSUME NEW d \in Device, NEW r \in Device, d.open = r.open, d.errcode = r.errcode,
           d.regs = r.regs, d.ret = r.ret, d.n = r.n, d.data = r.data, d.log = r.log,
           d.luck = r.luck
    PROVE  d = r
  BY DEF Device

\* read and write on a device (GalUdpCalls), field by field.
LEMMA ReadDoes ==
    ASSUME NEW d \in Device, NEW a \in Addr, NEW r, r = Service!read(d, a)
    PROVE  /\ r \in Device
           /\ r.open = d.open /\ r.regs = d.regs /\ r.n = d.n /\ r.data = d.data /\ r.log = d.log
           /\ r.errcode = IF Service!SendFails(d) THEN {"ioctl_failed"} ELSE {}
           /\ r.ret = IF Service!Answered(d) THEN d.regs[a] ELSE {}
           /\ r.luck = Service!NextLuck(d)
<1>1. Service!NextLuck(d) \in Seq(Service!Fate)
  BY LuckType
<1>2. (IF Service!SendFails(d) THEN {"ioctl_failed"} ELSE {}) \in SUBSET Service!ErrorFlag
  BY DEF Service!ErrorFlag
<1>3. (IF Service!Answered(d) THEN d.regs[a] ELSE {}) \in Value
  BY DEF Value, Device
<1> QED
  BY <1>1, <1>2, <1>3 DEF Service!read, Device

LEMMA WriteDoes ==
    ASSUME NEW d \in Device, NEW a \in Addr, NEW v \in Value, NEW r, r = Service!write(d, a, v)
    PROVE  /\ r \in Device
           /\ r.open = d.open /\ r.ret = d.ret /\ r.n = d.n /\ r.data = d.data
           /\ r.regs = IF Service!BoardGets(d) THEN Put(d.regs, a, v) ELSE d.regs
           /\ r.log = IF Service!BoardGets(d) THEN Append(d.log, Entry(a, v)) ELSE d.log
           /\ r.errcode = IF Service!SendFails(d) THEN {"ioctl_failed"}
                          ELSE IF Service!Answered(d) THEN d.errcode ELSE {"read_failed"}
           /\ r.luck = Service!NextLuck(d)
<1>1. Service!NextLuck(d) \in Seq(Service!Fate)
  BY LuckType
<1>2. (IF Service!SendFails(d) THEN {"ioctl_failed"}
       ELSE IF Service!Answered(d) THEN d.errcode ELSE {"read_failed"}) \in SUBSET Service!ErrorFlag
  BY DEF Service!ErrorFlag, Device
<1>3. (IF Service!BoardGets(d) THEN Put(d.regs, a, v) ELSE d.regs) \in [Addr -> Value]
  BY DEF Device, Put
<1>4. (IF Service!BoardGets(d) THEN Append(d.log, Entry(a, v)) ELSE d.log) \in Seq(Addr \X Value)
  BY DEF Device, Entry
<1> QED
  BY <1>1, <1>2, <1>3, <1>4 DEF Service!write, Device, Put, Entry

\* The luck of exchange k of a call.
LEMMA PassedFate ==
    ASSUME NEW d \in Device, NEW k \in Nat \ {0}, k <= Len(d.luck)
    PROVE  /\ Service!Passed(d, k - 1) \in Device
           /\ Service!Passed(d, k - 1).luck = SubSeq(d.luck, k, Len(d.luck))
           /\ Service!FateOf(Service!Passed(d, k - 1)) = d.luck[k]
<1> DEFINE l == SubSeq(d.luck, k, Len(d.luck))
<1>1. d.luck \in Seq(Service!Fate) /\ k \in 1..Len(d.luck) /\ Len(d.luck) \in k..Len(d.luck)
  BY DEF Device
<1>2. l \in Seq(Service!Fate) /\ Len(l) # 0
  BY <1>1, SubSeqProperties
<1>3. Head(l) = d.luck[k]
  BY <1>1, HeadTailOfSubSeq
<1>4. k - 1 + 1 = k
  OBVIOUS
<1>5. Service!Passed(d, k - 1) = [d EXCEPT !.luck = l]
  BY <1>4 DEF Service!Passed
<1> HIDE DEF l
<1>6. Service!Passed(d, k - 1) \in Device /\ Service!Passed(d, k - 1).luck = l
  BY <1>2, <1>5 DEF Device
<1> QED
  BY <1>2, <1>3, <1>6 DEF Service!FateOf, l

\* Having exchanges behind it changes nothing but the luck that is left.
LEMMA PassedKeeps ==
    ASSUME NEW d \in Device, NEW k \in Nat, NEW p, p = Service!Passed(d, k)
    PROVE  /\ p.open = d.open /\ p.errcode = d.errcode /\ p.regs = d.regs /\ p.ret = d.ret
           /\ p.n = d.n /\ p.data = d.data /\ p.log = d.log
  BY DEF Service!Passed, Device

-----------------------------------------------------------------------------
\* What the caller sees is a device.
LEMMA SeenIsDevice ==
    ASSUME TypeOK
    PROVE  /\ Seen \in Device
           /\ Seen.open = deviceIsOpen
           /\ Seen.errcode = IF pc = "idle" THEN errcode ELSE before.errcode
           /\ Seen.regs = IF pc = "idle" THEN regs ELSE before.regs
           /\ Seen.ret = IF pc = "idle" THEN ret ELSE {}
           /\ Seen.n = IF pc = "idle" THEN n ELSE 0
           /\ Seen.data = IF pc = "idle" THEN data ELSE <<>>
           /\ Seen.log = IF pc = "idle" THEN served ELSE <<>>
           /\ Seen.luck = <<>>
<1>1. {} \in Value /\ ErrorFlag \subseteq Service!ErrorFlag
  BY DEF Value, ErrorFlag, Service!ErrorFlag
<1>2. deviceIsOpen \in BOOLEAN
  BY DEF deviceIsOpen
<1> QED
  BY <1>1, <1>2 DEF Seen, Device, TypeOK

\* The same of the state after a step.
LEMMA SeenIsDeviceThen ==
    ASSUME TypeOK'
    PROVE  /\ Seen' \in Device
           /\ Seen'.open = deviceIsOpen'
           /\ Seen'.errcode = IF pc' = "idle" THEN errcode' ELSE before'.errcode
           /\ Seen'.regs = IF pc' = "idle" THEN regs' ELSE before'.regs
           /\ Seen'.ret = IF pc' = "idle" THEN ret' ELSE {}
           /\ Seen'.n = IF pc' = "idle" THEN n' ELSE 0
           /\ Seen'.data = IF pc' = "idle" THEN data' ELSE <<>>
           /\ Seen'.log = IF pc' = "idle" THEN served' ELSE <<>>
           /\ Seen'.luck = <<>>
<1>1. {} \in Value /\ ErrorFlag \subseteq Service!ErrorFlag
  BY DEF Value, ErrorFlag, Service!ErrorFlag
<1>2. deviceIsOpen' \in BOOLEAN
  BY DEF deviceIsOpen
<1> QED
  BY <1>1, <1>2 DEF Seen, Device, TypeOK

\* A device without what a call returns.
LEMMA BareDevice ==
    ASSUME NEW d \in Device, NEW p, p = Service!NoReturn(d)
    PROVE  /\ p \in Device /\ p.open = d.open /\ p.errcode = d.errcode /\ p.regs = d.regs
           /\ p.ret = {} /\ p.n = 0 /\ p.data = <<>> /\ p.log = <<>> /\ p.luck = <<>>
<1>1. /\ {} \in Value /\ <<>> \in Seq(Value) /\ <<>> \in Seq(Addr \X Value)
      /\ <<>> \in Seq(Service!Fate) /\ 0 \in Nat
  BY DEF Value
<1>2. \A e1, e2, e3 : e1 \in Seq(Value) /\ e2 \in Seq(Addr \X Value) /\ e3 \in Seq(Service!Fate) =>
         [d EXCEPT !.ret = {}, !.n = 0, !.data = e1, !.log = e2, !.luck = e3] \in Device
  BY <1>1 DEF Device
<1>3. p = [d EXCEPT !.ret = {}, !.n = 0, !.data = <<>>, !.log = <<>>, !.luck = <<>>]
  BY DEF Service!NoReturn
<1> QED
  BY <1>1, <1>2, <1>3 DEF Device

\* What a caller is shown of a device after a call, field by field.
LEMMA ShowsDoes ==
    ASSUME NEW d \in Device, NEW op, NEW r, r = Service!Shows(d, op)
    PROVE  /\ r \in Device /\ r.open = d.open /\ r.errcode = d.errcode /\ r.regs = d.regs
           /\ r.ret = IF op = "read" THEN d.ret ELSE {}
           /\ r.n = IF op \in {"writeData", "readData", "bulk", "ping"} THEN d.n ELSE 0
           /\ r.data = IF op = "readData" THEN d.data ELSE <<>>
           /\ r.log = d.log /\ r.luck = <<>>
<1> DEFINE p == Service!NoReturn(d)
<1>1. p \in Device /\ p.open = d.open /\ p.errcode = d.errcode /\ p.regs = d.regs /\ p.luck = <<>>
  BY BareDevice
<1> HIDE DEF p
<1>2. {} \in Value /\ <<>> \in Seq(Value)
  BY DEF Value
<1>3. /\ (IF op = "read" THEN d.ret ELSE {}) \in Value
      /\ (IF op \in {"writeData", "readData", "bulk", "ping"} THEN d.n ELSE 0) \in Nat
      /\ (IF op = "readData" THEN d.data ELSE <<>>) \in Seq(Value)
      /\ d.log \in Seq(Addr \X Value)
  BY <1>2 DEF Device
<1>4. r = [p EXCEPT !.log = d.log, !.ret = IF op = "read" THEN d.ret ELSE {},
                    !.data = IF op = "readData" THEN d.data ELSE <<>>,
                    !.n = IF op \in {"writeData", "readData", "bulk", "ping"} THEN d.n ELSE 0]
  BY DEF Service!Shows, p
<1> QED
  BY <1>1, <1>3, <1>4 DEF Device

\* readData of which the exchanges before number m came to an end, and number m
\* failed or is the last one.
LEMMA ReadDataDoes ==
    ASSUME NEW d \in Device, d.open, NEW a \in Addr, NEW count \in Nat, NEW m \in 1..count,
           Len(d.luck) = m, \A k \in 1..m : k < m => d.luck[k] # "not_sent",
           d.luck[m] = "not_sent" \/ m = count,
           NEW r, r = Service!readData(d, a, count)
    PROVE  /\ r \in Device /\ r.open /\ r.regs = d.regs /\ r.log = d.log
           /\ r.data = [k \in 1..m |-> IF d.luck[k] = "ok" THEN d.regs[a] ELSE {}]
           /\ r.n = IF d.luck[m] = "not_sent" THEN m - 1 ELSE count
           /\ r.errcode = IF d.luck[m] = "not_sent" THEN {"ioctl_failed", "read_data_failed"}
                          ELSE {}
<1> DEFINE word(k) == Service!read(Service!Passed(d, k - 1), a)
           failing == {k \in 1..count : ~Service!lastActionSuccessful(word(k))}
           last == IF failing = {} THEN count ELSE Service!Min(failing)
           words == [k \in 1..last |-> word(k).ret]
           got == [word(last) EXCEPT !.data = words]
<1>1. r = IF failing = {} THEN [got EXCEPT !.n = count]
          ELSE [got EXCEPT !.n = last - 1, !.errcode = @ \cup {"read_data_failed"}]
  BY DEF Service!readData
<1>2. \A k \in 1..m :
         /\ word(k) \in Device /\ word(k).open /\ word(k).regs = d.regs /\ word(k).log = d.log
         /\ word(k).errcode = IF d.luck[k] = "not_sent" THEN {"ioctl_failed"} ELSE {}
         /\ word(k).ret = IF d.luck[k] = "ok" THEN d.regs[a] ELSE {}
  <2> TAKE k \in 1..m
  <2> DEFINE p == Service!Passed(d, k - 1)
  <2>0. k \in Nat \ {0} /\ k <= Len(d.luck) /\ k - 1 \in Nat
    OBVIOUS
  <2>1. p \in Device /\ Service!FateOf(p) = d.luck[k]
    BY <2>0, PassedFate
  <2>2. p.open = d.open /\ p.regs = d.regs /\ p.log = d.log
    <3>1. PICK j \in Nat : j = k - 1
      BY <2>0
    <3>2. p = Service!Passed(d, j)
      BY <3>1
    <3> HIDE DEF p
    <3> QED
      BY <3>2, PassedKeeps
  <2>3. Service!SendFails(p) = (d.luck[k] = "not_sent")
    BY <2>1, <2>2 DEF Service!SendFails
  <2>4. Service!Answered(p) = (d.luck[k] = "ok")
    BY <2>1, <2>3 DEF Service!Answered
  <2> HIDE DEF p
  <2>5. PICK w : w = Service!read(p, a)
    OBVIOUS
  <2>6. /\ w \in Device /\ w.open = p.open /\ w.regs = p.regs /\ w.log = p.log
        /\ w.errcode = IF Service!SendFails(p) THEN {"ioctl_failed"} ELSE {}
        /\ w.ret = IF Service!Answered(p) THEN p.regs[a] ELSE {}
    BY <2>1, <2>5, ReadDoes
  <2> QED
    BY <2>2, <2>3, <2>4, <2>5, <2>6 DEF p
<1>3. last = m /\ (failing = {}) = (d.luck[m] # "not_sent")
  <2>1. \A k \in 1..m : k \in failing <=> d.luck[k] = "not_sent"
    <3> TAKE k \in 1..m
    <3>1. k \in 1..count
      OBVIOUS
    <3>2. Service!lastActionSuccessful(word(k)) <=> d.luck[k] # "not_sent"
      BY <1>2 DEF Service!lastActionSuccessful
    <3> QED
      BY <3>1, <3>2
  <2>2. CASE d.luck[m] = "not_sent"
    <3>1. failing \subseteq 1..count
      OBVIOUS
    <3> HIDE DEF failing
    <3>4. m \in failing /\ \A k \in failing : m <= k
      BY <2>1, <2>2, <3>1
    <3>2. \A x \in failing : (\A k \in failing : x <= k) => x = m
      <4> SUFFICES ASSUME NEW x \in failing, \A k \in failing : x <= k PROVE x = m
        OBVIOUS
      <4>1. x <= m /\ m <= x /\ x \in 1..count
        BY <3>1, <3>4
      <4> QED
        BY <4>1
    <3>3. Service!Min(failing) = m
      BY <3>4, <3>2 DEF Service!Min
    <3> QED
      BY <2>2, <3>4, <3>3 DEF last
  <2>3. CASE d.luck[m] # "not_sent"
    <3>1. failing = {}
      BY <2>1, <2>3
    <3> QED
      BY <2>3, <3>1
  <2> QED
    BY <2>2, <2>3
<1>4. words \in Seq(Value) /\ words = [k \in 1..m |-> IF d.luck[k] = "ok" THEN d.regs[a] ELSE {}]
  <2>1. words = [k \in 1..m |-> IF d.luck[k] = "ok" THEN d.regs[a] ELSE {}]
    BY <1>2, <1>3
  <2>2. d.regs[a] \in Value /\ {} \in Value
    BY DEF Device, Value
  <2>3. [k \in 1..m |-> IF d.luck[k] = "ok" THEN d.regs[a] ELSE {}] \in Seq(Value)
    BY <2>2
  <2> HIDE DEF words
  <2> QED
    BY <2>1, <2>3
<1> HIDE DEF words, last, failing
<1> DEFINE w == word(m)
           g == [w EXCEPT !.data = words]
<1>5. /\ w \in Device /\ w.open /\ w.regs = d.regs /\ w.log = d.log
      /\ w.errcode = IF d.luck[m] = "not_sent" THEN {"ioctl_failed"} ELSE {}
  BY <1>2
<1>6. r = IF d.luck[m] # "not_sent" THEN [g EXCEPT !.n = count]
          ELSE [g EXCEPT !.n = m - 1, !.errcode = @ \cup {"read_data_failed"}]
  BY <1>1, <1>3
<1> HIDE DEF word, w
<1>7. g \in Device /\ g.data = words /\ g.open /\ g.regs = w.regs /\ g.log = w.log
      /\ g.errcode = w.errcode
  BY <1>4, <1>5 DEF Device
<1> HIDE DEF g
<1>8. g.errcode \cup {"read_data_failed"} \in SUBSET Service!ErrorFlag
      /\ m - 1 \in Nat /\ count \in Nat
  BY <1>7 DEF Service!ErrorFlag, Device
<1>9. CASE d.luck[m] # "not_sent"
  <2>1. r = [g EXCEPT !.n = count]
    BY <1>6, <1>9
  <2> QED
    BY <1>4, <1>5, <1>7, <1>8, <1>9, <2>1 DEF Device
<1>10. CASE d.luck[m] = "not_sent"
  <2>1. r = [g EXCEPT !.n = m - 1, !.errcode = @ \cup {"read_data_failed"}]
    BY <1>6, <1>10
  <2>2. r \in Device /\ r.open = g.open /\ r.regs = g.regs /\ r.log = g.log /\ r.data = g.data
        /\ r.n = m - 1 /\ r.errcode = g.errcode \cup {"read_data_failed"}
    BY <1>7, <1>8, <2>1 DEF Device
  <2>3. g.errcode \cup {"read_data_failed"} = {"ioctl_failed", "read_data_failed"}
    BY <1>5, <1>7, <1>10
  <2> QED
    BY <1>4, <1>5, <1>7, <1>10, <2>2, <2>3
<1> QED
  BY <1>9, <1>10

\* A writeData of which the words before number m are confirmed, and number m
\* failed or is the last one; how many of them the board has then.
EndsAt(d, words, m) ==
    /\ m \in 1..Len(words) /\ Len(d.luck) = m
    /\ \A k \in 1..m : k < m => d.luck[k] = "ok" /\ d.errcode = {}
    /\ d.luck[m] = "ok" /\ d.errcode = {} => m = Len(words)

DataFailed(E) == E \cup {"write_data_failed"}
Arriving(f, m) == IF f \in {"ok", "reply_lost"} THEN m ELSE m - 1

LEMMA WriteDataDoes ==
    ASSUME NEW d \in Device, d.open, d.log = <<>>, NEW a \in Addr, NEW words \in Seq(Value),
           NEW m \in Nat, EndsAt(d, words, m),
           NEW f, f = d.luck[m], NEW arrived, arrived = Arriving(f, m),
           NEW r, r = Service!writeData(d, a, words)
    PROVE  /\ r \in Device /\ r.open
           /\ r.log = Entries(a, words, arrived)
           /\ r.regs = IF arrived = 0 THEN d.regs ELSE Put(d.regs, a, words[arrived])
           /\ r.n = IF f = "ok" /\ d.errcode = {} THEN m ELSE m - 1
           /\ r.errcode = IF f = "not_sent" THEN DataFailed({"ioctl_failed"})
                          ELSE IF f # "ok" THEN DataFailed({"read_failed"})
                          ELSE IF d.errcode = {} THEN {} ELSE DataFailed(d.errcode)
<1> DEFINE writes(k) == Entries(a, words, k)
           after(k) == IF k = 0 THEN d.regs ELSE Put(d.regs, a, words[k])
           done(k) ==
               [Service!Passed(d, k) EXCEPT !.n = k,
                                            !.regs = IF k = 0 THEN @ ELSE [@ EXCEPT ![a] = words[k]],
                                            !.log = @ \o [j \in 1..k |-> <<a, words[j]>>]]
           word(k) == Service!write(done(k - 1), a, words[k])
           failing == {k \in DOMAIN words : ~Service!lastActionSuccessful(word(k))}
<1>0. /\ m \in 1..Len(words) /\ Len(d.luck) = m
      /\ \A k \in 1..m : k < m => d.luck[k] = "ok" /\ d.errcode = {}
      /\ d.luck[m] = "ok" /\ d.errcode = {} => m = Len(words)
      /\ arrived = IF d.luck[m] \in {"ok", "reply_lost"} THEN m ELSE m - 1
  BY DEF EndsAt, Arriving
<1>10. ASSUME NEW k \in Nat
       PROVE  LET p == Service!Passed(d, k)
              IN  p.open = d.open /\ p.errcode = d.errcode /\ p.regs = d.regs /\ p.log = d.log
  <2>1. PICK p : p = Service!Passed(d, k)
    OBVIOUS
  <2> QED
    BY <2>1, PassedKeeps
<1> USE <1>0
<1>1. r = IF failing = {} THEN done(Len(words))
          ELSE [word(Service!Min(failing)) EXCEPT !.errcode = @ \cup {"write_data_failed"}]
  BY DEF Service!writeData
<1>2. \A k \in 1..Len(words) : words[k] \in Value
  OBVIOUS
<1>3. \A k \in 0..m : writes(k) \in Seq(Addr \X Value) /\ after(k) \in [Addr -> Value]
  BY <1>2 DEF Device, Put, Entries
<1>4. \A k \in 0..m :
         /\ done(k) \in Device /\ done(k).open /\ done(k).errcode = d.errcode
         /\ done(k).n = k /\ done(k).log = writes(k) /\ done(k).regs = after(k)
         /\ k < m => Service!FateOf(done(k)) = d.luck[k + 1]
  <2> TAKE k \in 0..m
  <2> DEFINE p == Service!Passed(d, k)
  <2>1. p.open = d.open /\ p.errcode = d.errcode /\ p.regs = d.regs /\ p.log = d.log
    <3>1. k \in Nat
      OBVIOUS
    <3> QED
      BY <1>10, <3>1, Zenon
  <2>2. p \in Device
    <3>1. SubSeq(d.luck, k + 1, Len(d.luck)) \in Seq(Service!Fate)
      BY SubSeqProperties DEF Device
    <3> QED
      BY <3>1 DEF Service!Passed, Device
  <2>3. k < m => Service!FateOf(p) = d.luck[k + 1]
    <3> SUFFICES ASSUME k < m PROVE Service!FateOf(p) = d.luck[k + 1]
      OBVIOUS
    <3>1. PICK j \in Nat \ {0} : j = k + 1 /\ j <= Len(d.luck)
      OBVIOUS
    <3>2. Service!FateOf(Service!Passed(d, j - 1)) = d.luck[j]
      BY <3>1, PassedFate
    <3> QED
      BY <3>1, <3>2
  <2> HIDE DEF p
  <2>4. done(k) = [p EXCEPT !.n = k, !.regs = after(k), !.log = writes(k)]
    <3>1. p.log \o writes(k) = writes(k)
      BY <1>3, <2>1
    <3> QED
      BY <2>1, <3>1 DEF p, Put, Entries
  <2>5. writes(k) \in Seq(Addr \X Value) /\ after(k) \in [Addr -> Value] /\ k \in Nat
    BY <1>3
  <2> HIDE DEF done, writes, after
  <2> QED
    BY <2>1, <2>2, <2>3, <2>4, <2>5 DEF Device, Service!FateOf
<1> HIDE DEF done
<1>5. \A k \in 1..m :
         /\ word(k) \in Device /\ word(k).open /\ word(k).n = k - 1
         /\ word(k).regs = IF d.luck[k] \in {"ok", "reply_lost"}
                           THEN Put(after(k - 1), a, words[k]) ELSE after(k - 1)
         /\ word(k).log = IF d.luck[k] \in {"ok", "reply_lost"}
                          THEN Append(writes(k - 1), Entry(a, words[k])) ELSE writes(k - 1)
         /\ word(k).errcode = IF d.luck[k] = "not_sent" THEN {"ioctl_failed"}
                              ELSE IF d.luck[k] = "ok" THEN d.errcode ELSE {"read_failed"}
  <2> TAKE k \in 1..m
  <2> HIDE DEF after, writes
  <2>1. PICK p \in Device : p = done(k - 1)
    BY <1>4
  <2>2. /\ p.open /\ p.errcode = d.errcode /\ p.n = k - 1 /\ p.log = writes(k - 1)
        /\ p.regs = after(k - 1) /\ Service!FateOf(p) = d.luck[k]
    BY <1>4, <2>1
  <2>3. words[k] \in Value /\ d.luck[k] \in Service!Fate
    BY <1>2 DEF Device
  <2>4. PICK w : w = Service!write(p, a, words[k])
    OBVIOUS
  <2>5. /\ w \in Device /\ w.open = p.open /\ w.n = p.n
        /\ w.regs = IF Service!BoardGets(p) THEN Put(p.regs, a, words[k]) ELSE p.regs
        /\ w.log = IF Service!BoardGets(p) THEN Append(p.log, Entry(a, words[k])) ELSE p.log
        /\ w.errcode = IF Service!SendFails(p) THEN {"ioctl_failed"}
                       ELSE IF Service!Answered(p) THEN p.errcode ELSE {"read_failed"}
    BY <2>3, <2>4, WriteDoes
  <2>6. Service!SendFails(p) <=> d.luck[k] = "not_sent"
    BY <2>2 DEF Service!SendFails
  <2>7. Service!BoardGets(p) <=> d.luck[k] \in {"ok", "reply_lost"}
    BY <2>2, <2>3, <2>6 DEF Service!BoardGets, Service!Fate
  <2>8. Service!Answered(p) <=> d.luck[k] = "ok"
    BY <2>2, <2>6 DEF Service!Answered
  <2> QED
    BY <2>1, <2>2, <2>4, <2>5, <2>6, <2>7, <2>8
<1> HIDE DEF word
<1>6. \A k \in 1..m : k \in failing <=> ~(d.luck[k] = "ok" /\ d.errcode = {})
  <2> TAKE k \in 1..m
  <2>1. Service!lastActionSuccessful(word(k)) <=> d.luck[k] = "ok" /\ d.errcode = {}
    BY <1>5 DEF Service!lastActionSuccessful
  <2>2. k \in DOMAIN words
    OBVIOUS
  <2> QED
    BY <2>1, <2>2
<1>7. failing \subseteq 1..Len(words)
  OBVIOUS
<1> HIDE DEF failing
<1>8. CASE d.luck[m] = "ok" /\ d.errcode = {}
  <2>1. failing = {} /\ m = Len(words)
    BY <1>6, <1>7, <1>8
  <2>2. r = done(m)
    BY <1>1, <2>1
  <2>3. writes(m) = Entries(a, words, m) /\ after(m) = Put(d.regs, a, words[m])
    OBVIOUS
  <2> HIDE DEF writes, after
  <2>4. m \in 0..m
    OBVIOUS
  <2>5. r \in Device /\ r.open /\ r.errcode = d.errcode /\ r.n = m /\ r.log = writes(m)
        /\ r.regs = after(m)
    BY <1>4, <2>2, <2>4
  <2> QED
    BY <1>8, <2>3, <2>5
<1>9. CASE ~(d.luck[m] = "ok" /\ d.errcode = {})
  <2>1. m \in failing /\ \A k \in failing : m <= k
    BY <1>6, <1>7, <1>9
  <2>2. \A x \in failing : (\A k \in failing : x <= k) => x = m
    BY <1>7, <2>1
  <2>3. Service!Min(failing) = m
    BY <2>1, <2>2 DEF Service!Min
  <2> DEFINE w == word(m)
             there == d.luck[m] \in {"ok", "reply_lost"}
  <2>4. r = [w EXCEPT !.errcode = @ \cup {"write_data_failed"}]
    BY <1>1, <2>1, <2>3
  <2>5. Append(writes(m - 1), Entry(a, words[m])) = Entries(a, words, m)
    BY <1>2 DEF Entry, Entries
  <2>6. Put(after(m - 1), a, words[m]) = Put(d.regs, a, words[m])
    BY DEF Device, Put
  <2>7. /\ after(m - 1) = IF m = 1 THEN d.regs ELSE Put(d.regs, a, words[m - 1])
        /\ writes(m - 1) = Entries(a, words, m - 1)
    OBVIOUS
  <2> HIDE DEF writes, after
  <2>8. /\ w \in Device /\ w.open /\ w.n = m - 1
        /\ w.regs = IF there THEN Put(after(m - 1), a, words[m]) ELSE after(m - 1)
        /\ w.log = IF there THEN Append(writes(m - 1), Entry(a, words[m])) ELSE writes(m - 1)
        /\ w.errcode = IF d.luck[m] = "not_sent" THEN {"ioctl_failed"}
                       ELSE IF d.luck[m] = "ok" THEN d.errcode ELSE {"read_failed"}
    <3>1. m \in 1..m
      OBVIOUS
    <3> QED
      BY <1>5, <3>1
  <2> HIDE DEF w, there
  <2>9. w.log = Entries(a, words, arrived)
    BY <2>5, <2>7, <2>8 DEF there
  <2>10. w.regs = IF arrived = 0 THEN d.regs ELSE Put(d.regs, a, words[arrived])
    BY <2>6, <2>7, <2>8 DEF there
  <2>11. w.errcode \cup {"write_data_failed"} \in SUBSET Service!ErrorFlag
    BY <2>8 DEF Device, Service!ErrorFlag
  <2>12. /\ r \in Device /\ r.open = w.open /\ r.n = w.n /\ r.log = w.log /\ r.regs = w.regs
         /\ r.errcode = w.errcode \cup {"write_data_failed"}
    BY <2>4, <2>8, <2>11 DEF Device
  <2>13. r.errcode = IF d.luck[m] = "not_sent" THEN DataFailed({"ioctl_failed"})
                     ELSE IF d.luck[m] # "ok" THEN DataFailed({"read_failed"})
                     ELSE DataFailed(d.errcode)
    BY <2>8, <2>12 DEF DataFailed
  <2> QED
    BY <1>9, <2>8, <2>9, <2>10, <2>12, <2>13
<1> QED
  BY <1>8, <1>9

\* The read-modify-write calls: a read and a write of what was read, modified.
Found(d, a) == IF d.open /\ d.luck[1] = "ok" THEN d.regs[a] ELSE {}

LEMMA ModifyDoes ==
    ASSUME NEW d \in Device, NEW c \in Calls, c.op \in TwoExchanges,
           Len(d.luck) = 2, NEW f1, f1 = d.luck[1], NEW f2, f2 = d.luck[2],
           NEW new, new = Modified(c.op, Found(d, c.addr), c.val),
           NEW r, r = Service!Do(d, c)
    PROVE  /\ r \in Device /\ r.open = d.open /\ r.n = d.n /\ r.data = d.data
           /\ IF d.open /\ f2 \in {"ok", "reply_lost"}
              THEN r.regs = Put(d.regs, c.addr, new) /\ r.log = Append(d.log, Entry(c.addr, new))
              ELSE r.regs = d.regs /\ r.log = d.log
           /\ r.errcode = IF ~d.open \/ f2 = "not_sent" THEN {"ioctl_failed"}
                          ELSE IF f2 # "ok" THEN {"read_failed"}
                          ELSE IF f1 = "not_sent" THEN {"ioctl_failed"} ELSE {}
<1>1. c.addr \in Addr /\ c.val \in Value
  BY CallsAssumption
<1>2. PICK q : q = Service!read(d, c.addr)
  OBVIOUS
<1>3. /\ q \in Device /\ q.open = d.open /\ q.regs = d.regs /\ q.n = d.n /\ q.data = d.data
      /\ q.log = d.log /\ q.luck = Service!NextLuck(d)
      /\ q.errcode = IF Service!SendFails(d) THEN {"ioctl_failed"} ELSE {}
      /\ q.ret = IF Service!Answered(d) THEN d.regs[c.addr] ELSE {}
  BY <1>1, <1>2, ReadDoes
<1>4. Service!FateOf(d) = f1 /\ Service!NextLuck(d) = <<f2>>
  <2>1. d.luck \in Seq(Service!Fate)
    BY DEF Device
  <2>2. d.luck = <<f1, f2>>
    BY <2>1
  <2> QED
    BY <2>2 DEF Service!FateOf, Service!NextLuck
<1>5. Service!FateOf(q) = f2 /\ f2 \in Service!Fate
  <2>1. d.luck \in Seq(Service!Fate) /\ 2 \in DOMAIN d.luck
    BY DEF Device
  <2> QED
    BY <1>3, <1>4, <2>1 DEF Service!FateOf
<1>6. q.ret = Found(d, c.addr)
  BY <1>3, <1>4 DEF Service!SendFails, Service!Answered, Found
<1>10. new \in Value
  BY <1>1, <1>3, <1>6 DEF Modified, TwoExchanges, Value, Device
<1>7. r = Service!write(q, c.addr, new)
  BY <1>2, <1>6 DEF Service!Do, Service!writeOr, Service!writeAnd, Service!writeXor, Modified,
     TwoExchanges
<1>8. /\ r \in Device /\ r.open = q.open /\ r.n = q.n /\ r.data = q.data
      /\ r.regs = IF Service!BoardGets(q) THEN Put(q.regs, c.addr, new) ELSE q.regs
      /\ r.log = IF Service!BoardGets(q) THEN Append(q.log, Entry(c.addr, new)) ELSE q.log
      /\ r.errcode = IF Service!SendFails(q) THEN {"ioctl_failed"}
                     ELSE IF Service!Answered(q) THEN q.errcode ELSE {"read_failed"}
  BY <1>1, <1>3, <1>7, <1>10, WriteDoes
<1>9. /\ Service!SendFails(d) <=> ~d.open \/ f1 = "not_sent"
      /\ Service!SendFails(q) <=> ~d.open \/ f2 = "not_sent"
      /\ Service!BoardGets(q) <=> d.open /\ f2 \in {"ok", "reply_lost"}
      /\ Service!Answered(q) <=> d.open /\ f2 = "ok"
  BY <1>3, <1>4, <1>5 DEF Service!SendFails, Service!Answered, Service!BoardGets, Service!Fate
<1> QED
  BY <1>3, <1>8, <1>9

\* doIoctl and deviceIsOnline.
LEMMA IoctlDoes ==
    ASSUME NEW d \in Device, NEW limit, NEW taken, {limit, taken} \subseteq Nat,
           NEW r, r = Service!doIoctl(d, limit, taken)
    PROVE  /\ r \in Device /\ r.open = d.open /\ r.regs = d.regs /\ r.log = d.log
           /\ r.n = IF Service!Answered(d) THEN taken ELSE limit
           /\ r.errcode = IF Service!SendFails(d) THEN {"ioctl_failed"}
                          ELSE IF Service!Answered(d) THEN d.errcode ELSE {"read_failed"}
<1>1. Service!NextLuck(d) \in Seq(Service!Fate)
  BY LuckType
<1>2. (IF Service!SendFails(d) THEN {"ioctl_failed"}
       ELSE IF Service!Answered(d) THEN d.errcode ELSE {"read_failed"}) \in SUBSET Service!ErrorFlag
  BY DEF Service!ErrorFlag, Device
<1>3. (IF Service!Answered(d) THEN taken ELSE limit) \in Nat
  OBVIOUS
<1> QED
  BY <1>1, <1>2, <1>3 DEF Service!doIoctl, Device

\* deviceIsOnline on a device that is open.
LEMMA OnlineDoes ==
    ASSUME NEW d \in Device, d.open, NEW r, r = Service!deviceIsOnline(d)
    PROVE  /\ r \in Device /\ r.open /\ r.regs = d.regs /\ r.log = d.log
           /\ r.n = IF Service!Answered(d) THEN 1 ELSE 0
           /\ r.errcode = IF Service!SendFails(d) THEN d.errcode \cup {"write_failed"}
                          ELSE d.errcode
<1>1. Service!NextLuck(d) \in Seq(Service!Fate)
  BY LuckType
<1>2. (IF Service!SendFails(d) THEN d.errcode \cup {"write_failed"} ELSE d.errcode)
         \in SUBSET Service!ErrorFlag
  BY DEF Service!ErrorFlag, Device
<1>3. (IF Service!Answered(d) THEN 1 ELSE 0) \in Nat
  OBVIOUS
<1> QED
  BY <1>1, <1>2, <1>3 DEF Service!deviceIsOnline, Device

-----------------------------------------------------------------------------
(***************************************************************************)
(* A call that returns is a call of the abstract layer.                    *)
(***************************************************************************)
\* What the caller sees of a call under way, with a luck: the device before the
\* call.
LEMMA BegunDoes ==
    ASSUME TypeOK, pc # "idle", NEW luck \in Seq(Service!Fate),
           NEW d, d = [Service!NoReturn(Seen) EXCEPT !.luck = luck]
    PROVE  /\ d \in Device /\ d.open = deviceIsOpen /\ d.errcode = before.errcode
           /\ d.regs = before.regs /\ d.ret = {} /\ d.n = 0 /\ d.data = <<>> /\ d.log = <<>>
           /\ d.luck = luck
<1>1. PICK x \in Device : x = Seen
  BY SeenIsDevice
<1>2. x.open = deviceIsOpen /\ x.errcode = before.errcode /\ x.regs = before.regs
  BY <1>1, SeenIsDevice
<1> DEFINE p == Service!NoReturn(x)
<1>3. p \in Device /\ p.open = x.open /\ p.errcode = x.errcode /\ p.regs = x.regs
      /\ p.ret = {} /\ p.n = 0 /\ p.data = <<>> /\ p.log = <<>>
  BY BareDevice
<1>4. d = [p EXCEPT !.luck = luck]
  BY <1>1
<1> HIDE DEF p
<1> QED
  BY <1>2, <1>3, <1>4 DEF Device

\* A step that returns, and shows what one of the outcomes of the call shows,
\* is that call.
LEMMA ReturnIsCall ==
    ASSUME TypeOK, TypeOK', pc # "idle", pc' = "idle", UNCHANGED sock,
           NEW luck \in Seq(Service!Fate), Len(luck) <= MaxLuck,
           NEW d \in Service!Outcomes([Service!NoReturn(Seen) EXCEPT !.luck = luck], call),
           d \in Device, d.open = deviceIsOpen, d.errcode = errcode', d.regs = regs',
           d.log = served', ret' = IF call.op = "read" THEN d.ret ELSE {},
           n' = IF call.op \in {"writeData", "readData", "bulk", "ping"} THEN d.n ELSE 0,
           data' = IF call.op = "readData" THEN d.data ELSE <<>>
    PROVE  Service!Next
<1>1. PICK r : r = Service!Shows(d, call.op)
  OBVIOUS
<1>2. /\ r \in Device /\ r.open = d.open /\ r.errcode = d.errcode /\ r.regs = d.regs
      /\ r.ret = ret' /\ r.n = n' /\ r.data = data' /\ r.log = d.log /\ r.luck = <<>>
  BY <1>1, ShowsDoes
<1>3. deviceIsOpen' = deviceIsOpen
  BY DEF deviceIsOpen
<1>4. Seen' = r
  BY <1>2, <1>3, SeenIsDeviceThen, SameDevice
<1>5. Service!Call(call, luck)
  BY <1>1, <1>4 DEF Service!Call
<1>6. call \in Calls
  BY DEF TypeOK
<1>7. luck \in Service!Luck
  <2>1. Len(luck) \in 0..MaxLuck /\ luck \in [1..Len(luck) -> Service!Fate]
    BY LinkAssumption
  <2> QED
    BY <2>1 DEF Service!Luck
<1> QED
  BY <1>5, <1>6, <1>7 DEF Service!Next

\* While a call goes on, its caller sees nothing of it.
LEMMA GoingOnIsHidden ==
    ASSUME pc # "idle", pc' # "idle", UNCHANGED <<sock, before>>
    PROVE  UNCHANGED Seen
  BY DEF Seen, deviceIsOpen

-----------------------------------------------------------------------------
(***************************************************************************)
(* What an exchange came to, and the step of the abstract layer it makes:  *)
(* none if the call goes on, the whole call if it returns.                 *)
(***************************************************************************)
\* Whether the board has done the write of this exchange.
Arrived == IF call.op \in TwoExchanges THEN served # <<>> ELSE Len(served) = i + 1

\* What an exchange that reads came to, for the luck f.
ReadCameTo(f, v, E) ==
    \/ f = "not_sent" /\ v = {} /\ E = {"ioctl_failed"}
    \/ f = "ok" /\ v = regs[call.addr] /\ E = {} /\ sock = "open"
    \/ f = "reply_lost" /\ v = {} /\ E = {} /\ sock = "open"

WriteCameTo(f, E) ==
    \/ f = "not_sent" /\ E = {"ioctl_failed"} /\ ~Arrived
    \/ f = "ok" /\ E = errcode /\ Arrived /\ sock = "open"
    \/ f = "request_lost" /\ E = {"read_failed"} /\ ~Arrived /\ sock = "open"
    \/ f = "reply_lost" /\ E = {"read_failed"} /\ Arrived /\ sock = "open"

Implements == Progress' /\ (UNCHANGED Seen \/ Service!Next)

\* Taking the result of a read: with the luck f of this exchange, and those of the
\* exchanges before it, a read or readData that returns is that call.
LEMMA ReadImplements ==
    ASSUME CallInv, CallInv', Progress, pc # "idle", toSend.flag = "read", Settled,
           NEW v \in Value, NEW E \in SUBSET ErrorFlag, read_Result(v, E),
           NEW f \in Service!Fate, ReadCameTo(f, v, E)
    PROVE  Implements
<1> DEFINE a == call.addr
<1>1. /\ call.op \in {"read", "readData"} \cup TwoExchanges /\ call \in Calls /\ a \in Addr
      /\ call.data \in Seq(Value)
  BY CallType DEF toSend, Request_, Op
<1>2. call.op \in TwoExchanges => i = 0
  BY DEF toSend, Request_, TwoExchanges, CallInv, TypeOK, Position
<1>3. regs = before.regs /\ served = <<>> /\ ErrorSoFar /\ ReturnSoFar /\ SocketSoFar
  <2>1. i \in Nat /\ (call.op = "read" => i = 0)
    BY DEF CallInv, TypeOK, Position
  <2> QED
    BY <1>1, <1>2, <2>1 DEF Progress, BoardSoFar, TwoExchanges
<1>4. TypeOK /\ TypeOK' /\ UNCHANGED <<sock, regs, served, before>>
      /\ toBoard' = <<>> /\ toPC' = <<>>
  BY DEF CallInv, Settled
<1>5. f # "not_sent" => deviceIsOpen /\ sock = "open"
  BY DEF ReadCameTo, deviceIsOpen
<1>6. CASE call.op = "read"
  <2>1. Return(E) /\ ret' = v /\ UNCHANGED <<n, data>>
    BY <1>6 DEF read_Result, TwoExchanges, Return, NextExchange
  <2>2. i = 0 /\ n = 0 /\ data = <<>> /\ errcode = before.errcode
    BY <1>3, <1>6 DEF CallInv, Position, ReturnSoFar, ErrorSoFar, TwoExchanges
  <2> DEFINE luck == <<f>>
  <2>3. luck \in Seq(Service!Fate) /\ Len(luck) <= MaxLuck /\ Head(luck) = f
    BY CallsAssumption, LinkAssumption
  <2>4. PICK d : d = [Service!NoReturn(Seen) EXCEPT !.luck = luck]
    OBVIOUS
  <2>5. /\ d \in Device /\ d.open = deviceIsOpen /\ d.regs = before.regs /\ d.log = <<>>
        /\ d.luck = luck
    BY <1>4, <2>3, <2>4, BegunDoes
  <2>6. Service!FateOf(d) = f
    BY <2>3, <2>5 DEF Service!FateOf
  <2>7. PICK r : r = Service!read(d, a)
    OBVIOUS
  <2>8. /\ r \in Device /\ r.open = d.open /\ r.regs = d.regs /\ r.log = d.log
        /\ r.errcode = IF Service!SendFails(d) THEN {"ioctl_failed"} ELSE {}
        /\ r.ret = IF Service!Answered(d) THEN d.regs[a] ELSE {}
    BY <1>1, <2>5, <2>7, ReadDoes
  <2>9. r.errcode = E /\ r.ret = v
    BY <1>3, <1>5, <2>5, <2>6, <2>8 DEF ReadCameTo, Service!SendFails, Service!Answered
  <2>10. r \in Service!Outcomes(d, call)
    BY <1>6, <2>7 DEF Service!Outcomes, Service!Do
  <2>11. pc' = "idle" /\ errcode' = E
    BY <2>1 DEF Return
  <2>12. Service!Next
    <3> HIDE DEF luck
    <3> QED
      BY <1>3, <1>4, <1>6, <2>1, <2>2, <2>3, <2>4, <2>5, <2>8, <2>9, <2>10, <2>11, ReturnIsCall
  <2> QED
    BY <2>11, <2>12 DEF Implements, Progress
<1>7. CASE call.op \in TwoExchanges
  <2>1. NextExchange(E) /\ ret' = v /\ UNCHANGED <<n, data>>
    BY <1>7 DEF read_Result, TwoExchanges, Return, NextExchange
  <2>2. UNCHANGED Seen
    BY <1>4, <2>1, GoingOnIsHidden DEF NextExchange
  <2>3. FirstRead'
    BY <1>3, <1>4, <2>1 DEF FirstRead, ReadCameTo, NextExchange
  <2>4. i' = 1 /\ call' = call /\ pc' = "send"
    BY <1>2, <1>7, <2>1 DEF NextExchange
  <2>5. ErrorSoFar' /\ ReturnSoFar'
    BY <1>3, <1>7, <2>1, <2>3, <2>4 DEF ErrorSoFar, ReturnSoFar, TwoExchanges
  <2>6. BoardSoFar' /\ SocketSoFar'
    BY <1>3, <1>4, <1>7, <2>4 DEF BoardSoFar, SocketSoFar, TwoExchanges
  <2> QED
    BY <2>2, <2>5, <2>6 DEF Implements, Progress
<1>8. CASE call.op = "readData"
  <2>1. /\ data' = Append(data, v) /\ UNCHANGED ret
        /\ \/ E # {} /\ Return(E \cup {"read_data_failed"}) /\ UNCHANGED n
           \/ E = {} /\ n' = n + 1 /\ n' = Len(call.data) /\ Return(E)
           \/ E = {} /\ n' = n + 1 /\ n' # Len(call.data) /\ NextExchange(E)
    BY <1>8 DEF read_Result, TwoExchanges, Return, NextExchange
  <2>2. /\ i \in Nat /\ i < Len(call.data) /\ n = i /\ ret = {} /\ data \in Seq(Value)
        /\ Len(data) = i /\ \A k \in DOMAIN data : data[k] \in {before.regs[a], {}}
    BY <1>3, <1>8 DEF CallInv, TypeOK, Position, ReturnSoFar, TwoExchanges
  <2>3. v \in {before.regs[a], {}}
    BY <1>3 DEF ReadCameTo
  <2>4. deviceIsOpen
    BY <1>3, <1>8 DEF SocketSoFar
  <2>5. CASE NextExchange(E)
    <3>1. E = {} /\ i' = i + 1 /\ call' = call /\ pc' = "send" /\ errcode' = {}
      BY <2>1, <2>5 DEF NextExchange, Return
    <3>2. UNCHANGED Seen
      BY <1>4, <3>1, GoingOnIsHidden
    <3>3. Len(data') = i' /\ \A k \in DOMAIN data' : data'[k] \in {before'.regs[a], {}}
      BY <1>4, <2>1, <2>2, <2>3, <3>1
    <3>4. i' \in Nat \ {0}
      BY <2>2, <3>1
    <3>5. ErrorSoFar' /\ ReturnSoFar'
      BY <1>3, <1>8, <2>1, <2>2, <3>1, <3>3, <3>4 DEF ErrorSoFar, ReturnSoFar, TwoExchanges
    <3>6. BoardSoFar' /\ SocketSoFar'
      BY <1>3, <1>4, <1>8, <2>4, <3>1 DEF BoardSoFar, SocketSoFar, TwoExchanges, deviceIsOpen
    <3> QED
      BY <3>1, <3>2, <3>5, <3>6 DEF Implements, Progress
  <2>6. CASE ~NextExchange(E)
    <3>0. PICK m \in Nat \ {0} : m = i + 1
      BY <2>2
    <3> DEFINE luck == [k \in 1..m |-> IF k = m THEN f
                                       ELSE IF data[k] = before.regs[a] THEN "ok" ELSE "reply_lost"]
    <3>1. luck \in Seq(Service!Fate) /\ Len(luck) = m /\ m \in 1..Len(call.data)
      BY <1>1, <2>2, <3>0 DEF Service!Fate
    <3>2. m <= MaxLuck
      BY <1>1, <1>8, <3>1, CallsAssumption, LinkAssumption
    <3>3. luck[m] = f /\ \A k \in 1..m : k < m => luck[k] # "not_sent"
      BY <3>1
    <3>4. PICK d : d = [Service!NoReturn(Seen) EXCEPT !.luck = luck]
      OBVIOUS
    <3>5. /\ d \in Device /\ d.open /\ d.regs = before.regs /\ d.log = <<>>
          /\ d.luck = luck
      BY <1>4, <2>4, <3>1, <3>4, BegunDoes
    <3>6. f = "not_sent" \/ m = Len(call.data)
      BY <2>1, <2>2, <2>6, <3>0 DEF ReadCameTo
    <3>7. PICK r : r = Service!readData(d, a, Len(call.data))
      OBVIOUS
    <3>8. data' = [k \in 1..m |-> IF luck[k] = "ok" THEN before.regs[a] ELSE {}]
      <4>1. data' \in Seq(Value) /\ Len(data') = m /\ data'[m] = v
            /\ \A k \in 1..m : k # m => data'[k] = data[k]
        BY <2>1, <2>2, <3>0
      <4>2. \A k \in 1..m : data'[k] = IF luck[k] = "ok" THEN before.regs[a] ELSE {}
        <5> TAKE k \in 1..m
        <5>1. CASE k = m
          BY <1>3, <3>3, <4>1, <5>1 DEF ReadCameTo
        <5>2. CASE k # m
          <6>1. k \in DOMAIN data
            BY <2>2, <3>0, <5>2
          <6>2. data[k] \in {before.regs[a], {}}
            BY <2>2, <6>1
          <6>3. luck[k] = IF data[k] = before.regs[a] THEN "ok" ELSE "reply_lost"
            BY <5>2
          <6> QED
            BY <4>1, <5>2, <6>2, <6>3
        <5> QED
          BY <5>1, <5>2
      <4> QED
        BY <4>1, <4>2
    <3> HIDE DEF luck
    <3>9. /\ r \in Device /\ r.open /\ r.regs = d.regs /\ r.log = d.log
          /\ r.data = [k \in 1..m |-> IF d.luck[k] = "ok" THEN d.regs[a] ELSE {}]
          /\ r.n = IF d.luck[m] = "not_sent" THEN m - 1 ELSE Len(call.data)
          /\ r.errcode = IF d.luck[m] = "not_sent" THEN {"ioctl_failed", "read_data_failed"}
                         ELSE {}
      <4>1. Len(call.data) \in Nat /\ Len(d.luck) = m
        BY <1>1, <3>1, <3>5
      <4>2. \A k \in 1..m : k < m => d.luck[k] # "not_sent"
        BY <3>3, <3>5
      <4>3. d.luck[m] = "not_sent" \/ m = Len(call.data)
        BY <3>3, <3>5, <3>6
      <4> QED
        BY <1>1, <3>1, <3>5, <3>7, <4>1, <4>2, <4>3, ReadDataDoes
    <3>10. r.data = data'
      BY <3>5, <3>8, <3>9
    <3>11. pc' = "idle" /\ r.n = n' /\ r.errcode = errcode'
      <4>1. d.luck[m] = f /\ Len(call.data) \in Nat
        BY <1>1, <3>3, <3>5
      <4>2. CASE f = "not_sent"
        <5>1. E = {"ioctl_failed"}
          BY <4>2 DEF ReadCameTo
        <5>2. pc' = "idle" /\ errcode' = {"ioctl_failed", "read_data_failed"} /\ n' = n
          BY <2>1, <5>1 DEF Return
        <5> QED
          BY <2>2, <3>0, <3>9, <4>1, <4>2, <5>2
      <4>3. CASE f # "not_sent"
        <5>1. E = {}
          BY <4>3 DEF ReadCameTo
        <5>2. pc' = "idle" /\ errcode' = {} /\ n' = Len(call.data)
          BY <2>1, <2>6, <5>1 DEF Return
        <5> QED
          BY <3>9, <4>1, <4>3, <5>2
      <4> QED
        BY <4>2, <4>3
    <3>12. r \in Service!Outcomes(d, call)
      BY <1>8, <3>7 DEF Service!Outcomes, Service!Do
    <3>13. Service!Next
      <4>1. Len(luck) <= MaxLuck /\ UNCHANGED sock
        BY <1>4, <3>1, <3>2
      <4>2. r.open = deviceIsOpen /\ r.regs = regs' /\ r.log = served'
        BY <1>3, <1>4, <2>4, <3>5, <3>9
      <4>3. ret' = {} /\ n' = r.n /\ data' = r.data
        BY <2>1, <2>2, <3>10, <3>11
      <4>4. r \in Service!Outcomes([Service!NoReturn(Seen) EXCEPT !.luck = luck], call)
        BY <3>4, <3>12
      <4> QED
        BY <1>4, <1>8, <3>1, <3>9, <3>11, <4>1, <4>2, <4>3, <4>4, ReturnIsCall
    <3> QED
      BY <3>11, <3>13 DEF Implements, Progress
  <2> QED
    BY <2>5, <2>6
<1> QED
  BY <1>1, <1>6, <1>7, <1>8

\* Taking the result of a write: what the board has by now tells whether the
\* request arrived.
LEMMA WriteImplements ==
    ASSUME CallInv, CallInv', Progress, pc # "idle", toSend.flag = "write", Settled,
           NEW E \in SUBSET ErrorFlag, write_Result(E),
           NEW f \in Service!Fate, WriteCameTo(f, E)
    PROVE  Implements
<1> DEFINE a == call.addr
<1>1. /\ call.op \in {"write", "writeData"} \cup TwoExchanges /\ call \in Calls /\ a \in Addr
      /\ call.val \in Value /\ call.data \in Seq(Value)
  BY CallType DEF toSend, Request_, Op
<1>2. ErrorSoFar /\ ReturnSoFar /\ BoardSoFar /\ SocketSoFar
  BY DEF Progress
<1>3. /\ TypeOK /\ TypeOK' /\ UNCHANGED <<sock, regs, served, before>>
      /\ toBoard' = <<>> /\ toPC' = <<>> /\ served \in Seq(Addr \X Value)
      /\ i \in Nat /\ before.regs \in [Addr -> Value]
  BY DEF CallInv, TypeOK, Settled
<1>4. /\ f # "not_sent" => deviceIsOpen /\ sock = "open"
      /\ f \in {"ok", "reply_lost"} <=> Arrived
  BY DEF WriteCameTo, deviceIsOpen, Service!Fate
<1>5. CASE call.op = "write"
  <2>1. Return(E) /\ ret' = {} /\ UNCHANGED <<n, data>>
    BY <1>5 DEF write_Result
  <2>2. n = 0 /\ data = <<>> /\ errcode = before.errcode /\ i = 0
    BY <1>2, <1>5 DEF CallInv, Position, ReturnSoFar, ErrorSoFar, TwoExchanges
  <2>3. served = IF Arrived THEN <<<<a, call.val>>>> ELSE <<>>
    <3>1. /\ Len(served) \in {0, 1}
          /\ \A k \in DOMAIN served : served[k] = <<a, Words[k]>>
      BY <1>5, <2>2 DEF CallInv, Written
    <3>2. Arrived <=> Len(served) = 1
      BY <1>5, <2>2 DEF Arrived, TwoExchanges
    <3> QED
      BY <1>3, <1>5, <3>1, <3>2 DEF Words
  <2>4. regs = IF Arrived THEN Put(before.regs, a, call.val) ELSE before.regs
    BY <1>2, <2>3 DEF BoardSoFar
  <2> DEFINE luck == <<f>>
  <2>5. luck \in Seq(Service!Fate) /\ Len(luck) <= MaxLuck /\ Head(luck) = f
    BY CallsAssumption, LinkAssumption
  <2>6. PICK d : d = [Service!NoReturn(Seen) EXCEPT !.luck = luck]
    OBVIOUS
  <2>7. /\ d \in Device /\ d.open = deviceIsOpen /\ d.regs = before.regs /\ d.log = <<>>
        /\ d.errcode = errcode /\ d.luck = luck
    BY <1>3, <2>2, <2>5, <2>6, BegunDoes
  <2>8. Service!FateOf(d) = f
    BY <2>5, <2>7 DEF Service!FateOf
  <2>9. PICK r : r = Service!write(d, a, call.val)
    OBVIOUS
  <2>10. /\ r \in Device /\ r.open = d.open
         /\ r.regs = IF Service!BoardGets(d) THEN Put(d.regs, a, call.val) ELSE d.regs
         /\ r.log = IF Service!BoardGets(d) THEN Append(d.log, Entry(a, call.val)) ELSE d.log
         /\ r.errcode = IF Service!SendFails(d) THEN {"ioctl_failed"}
                        ELSE IF Service!Answered(d) THEN d.errcode ELSE {"read_failed"}
    <3>1. d \in Device /\ a \in Addr /\ call.val \in Value
      BY <1>1, <2>7
    <3> QED
      BY <2>9, <3>1, WriteDoes
  <2>11. Service!SendFails(d) <=> f = "not_sent"
    BY <1>4, <2>7, <2>8 DEF Service!SendFails
  <2>12. Service!BoardGets(d) <=> Arrived
    BY <1>4, <2>8, <2>11 DEF Service!BoardGets, Service!Fate
  <2>13. Service!Answered(d) <=> f = "ok"
    BY <2>8, <2>11 DEF Service!Answered
  <2>14. r.errcode = E
    BY <2>7, <2>10, <2>11, <2>13 DEF WriteCameTo
  <2>15. r.regs = regs /\ r.log = served
    <3>1. Append(<<>>, Entry(a, call.val)) = <<<<a, call.val>>>>
      BY DEF Entry
    <3> HIDE DEF luck
    <3> QED
      BY <2>3, <2>4, <2>7, <2>10, <2>12, <3>1
  <2>16. r \in Service!Outcomes(d, call)
    BY <1>5, <2>9 DEF Service!Outcomes, Service!Do
  <2>17. pc' = "idle" /\ errcode' = E
    BY <2>1 DEF Return
  <2>18. Service!Next
    <3> HIDE DEF luck
    <3> QED
      BY <1>3, <1>5, <2>1, <2>2, <2>5, <2>6, <2>7, <2>10, <2>14, <2>15, <2>16, <2>17, ReturnIsCall
  <2> QED
    BY <2>17, <2>18 DEF Implements, Progress
<1>6. CASE call.op \in TwoExchanges
  <2>1. Return(E) /\ ret' = {} /\ UNCHANGED <<n, data>>
    BY <1>6 DEF write_Result, TwoExchanges
  <2>2. i # 0 /\ n = 0 /\ data = <<>> /\ FirstRead
    BY <1>2, <1>6 DEF toSend, Request_, ReturnSoFar, ErrorSoFar, TwoExchanges
  <2> DEFINE f1 == IF errcode # {} THEN "not_sent"
                   ELSE IF ret = before.regs[a] THEN "ok" ELSE "reply_lost"
             luck == <<f1, f>>
             new == Modified(call.op, ret, call.val)
  <2>3. f1 \in Service!Fate
    BY DEF Service!Fate
  <2>4. luck \in Seq(Service!Fate) /\ Len(luck) <= MaxLuck
    BY <2>3, CallsAssumption, LinkAssumption
  <2>5. PICK d : d = [Service!NoReturn(Seen) EXCEPT !.luck = luck]
    OBVIOUS
  <2>6. /\ d \in Device /\ d.open = deviceIsOpen /\ d.regs = before.regs /\ d.log = <<>>
        /\ Len(d.luck) = 2 /\ d.luck[1] = f1 /\ d.luck[2] = f
    <3>1. Len(luck) = 2 /\ luck[1] = f1 /\ luck[2] = f
      OBVIOUS
    <3> HIDE DEF luck
    <3> QED
      BY <1>3, <2>4, <2>5, <3>1, BegunDoes
  <2>7. PICK r : r = Service!Do(d, call)
    OBVIOUS
  <2>8. served = IF Arrived THEN <<<<a, new>>>> ELSE <<>>
    BY <1>2, <1>6, <2>2 DEF BoardSoFar, Arrived
  <2>9. regs = IF Arrived THEN Put(before.regs, a, new) ELSE before.regs
    BY <1>2, <2>8 DEF BoardSoFar
  <2>10. (~deviceIsOpen \/ f1 = "not_sent") => ret = {} /\ errcode = {"ioctl_failed"}
    BY <2>2 DEF FirstRead, deviceIsOpen
  <2>11. ~(~deviceIsOpen \/ f1 = "not_sent") =>
           errcode = {} /\ ret = IF f1 = "ok" THEN before.regs[a] ELSE {}
    BY <2>2 DEF FirstRead
  <2> HIDE DEF f1
  <2>12. ret = IF d.open /\ f1 = "ok" THEN d.regs[a] ELSE {}
    BY <2>6, <2>10, <2>11
  <2> HIDE DEF luck, new
  <2>13. /\ r \in Device /\ r.open = d.open
         /\ IF d.open /\ f \in {"ok", "reply_lost"}
            THEN r.regs = Put(d.regs, a, new) /\ r.log = Append(d.log, Entry(a, new))
            ELSE r.regs = d.regs /\ r.log = d.log
         /\ r.errcode = IF ~d.open \/ f = "not_sent" THEN {"ioctl_failed"}
                        ELSE IF f # "ok" THEN {"read_failed"}
                        ELSE IF f1 = "not_sent" THEN {"ioctl_failed"} ELSE {}
    <3>1. d \in Device /\ Len(d.luck) = 2 /\ d.luck[1] = f1 /\ d.luck[2] = f
      BY <2>6
    <3>2. new = Modified(call.op, Found(d, call.addr), call.val)
      BY <2>12, <3>1 DEF new, Found
    <3> HIDE DEF f1
    <3> QED
      BY <1>1, <1>6, <2>7, <3>1, <3>2, ModifyDoes
  <2>14. d.open /\ f \in {"ok", "reply_lost"} <=> Arrived
    BY <1>4, <2>6
  <2>15. r.errcode = E
    BY <1>4, <2>6, <2>10, <2>11, <2>13 DEF WriteCameTo
  <2>16. r.regs = regs /\ r.log = served
    <3>1. Append(<<>>, Entry(a, new)) = <<<<a, new>>>>
      BY DEF Entry
    <3> QED
      BY <2>6, <2>8, <2>9, <2>13, <2>14, <3>1
  <2>17. r \in Service!Outcomes(d, call)
    BY <1>6, <2>7 DEF Service!Outcomes, TwoExchanges
  <2>18. pc' = "idle" /\ errcode' = E
    BY <2>1 DEF Return
  <2>19. Service!Next
    <3>1. ret' = {} /\ n' = 0 /\ data' = <<>>
      BY <2>1, <2>2
    <3>2. call.op \notin {"read", "writeData", "readData", "bulk", "ping"}
      BY <1>6 DEF TwoExchanges
    <3> QED
      BY <1>3, <2>4, <2>5, <2>6, <2>13, <2>15, <2>16, <2>17, <2>18, <3>1, <3>2, ReturnIsCall
  <2> QED
    BY <2>18, <2>19 DEF Implements, Progress
<1>7. CASE call.op = "writeData"
  <2>1. /\ ret' = {} /\ UNCHANGED data
        /\ \/ E # {} /\ Return(E \cup {"write_data_failed"}) /\ UNCHANGED n
           \/ E = {} /\ n' = n + 1 /\ n' = Len(call.data) /\ Return(E)
           \/ E = {} /\ n' = n + 1 /\ n' # Len(call.data) /\ NextExchange(E)
    BY <1>7 DEF write_Result, Return, NextExchange
  <2>2. /\ i < Len(call.data) /\ n = i /\ data = <<>> /\ errcode = before.errcode
        /\ i # 0 => errcode = {}
    BY <1>2, <1>7 DEF CallInv, Position, ReturnSoFar, ErrorSoFar
  <2>3. deviceIsOpen
    BY <1>2, <1>7 DEF SocketSoFar
  <2>4. CASE NextExchange(E)
    <3>1. E = {} /\ i' = i + 1 /\ call' = call /\ pc' = "send" /\ errcode' = {}
      BY <2>1, <2>4 DEF NextExchange, Return
    <3>2. UNCHANGED Seen
      BY <1>3, <3>1, GoingOnIsHidden
    <3>3. before.errcode = {}
      BY <2>2, <3>1 DEF WriteCameTo
    <3>4. ErrorSoFar' /\ ReturnSoFar'
      BY <1>3, <1>7, <2>1, <2>2, <3>1, <3>3 DEF ErrorSoFar, ReturnSoFar, TwoExchanges
    <3>5. BoardSoFar' /\ SocketSoFar'
      BY <1>2, <1>3, <1>7, <2>3, <3>1 DEF BoardSoFar, SocketSoFar, TwoExchanges, deviceIsOpen
    <3> QED
      BY <3>2, <3>4, <3>5 DEF Implements, Progress
  <2>5. CASE ~NextExchange(E)
    <3>0. PICK m \in Nat \ {0} : m = i + 1
      BY <1>3
    <3> DEFINE luck == [k \in 1..m |-> IF k = m THEN f ELSE "ok"]
    <3>1. luck \in Seq(Service!Fate) /\ Len(luck) = m /\ m \in 1..Len(call.data)
      <4>1. \A k \in 1..m : (IF k = m THEN f ELSE "ok") \in Service!Fate
        BY DEF Service!Fate
      <4>2. m \in 1..Len(call.data)
        BY <1>1, <1>3, <2>2, <3>0
      <4> QED
        BY <4>1, <4>2
    <3>2. Len(luck) <= MaxLuck
      BY <1>1, <1>7, <3>1, CallsAssumption, LinkAssumption
    <3>3. luck[m] = f /\ \A k \in 1..m : k < m => luck[k] = "ok"
      BY <3>1
    <3> HIDE DEF luck
    <3>4. PICK d : d = [Service!NoReturn(Seen) EXCEPT !.luck = luck]
      OBVIOUS
    <3>5. /\ d \in Device /\ d.open = deviceIsOpen /\ d.regs = before.regs /\ d.log = <<>>
          /\ d.errcode = errcode /\ d.luck = luck
      BY <1>3, <2>2, <3>1, <3>4, BegunDoes
    <3>6. f = "ok" /\ errcode = {} => m = Len(call.data)
      BY <2>1, <2>2, <2>5, <3>0 DEF WriteCameTo
    <3>7. PICK r : r = Service!writeData(d, a, call.data)
      OBVIOUS
    <3>15. PICK done : done = Arriving(f, m)
      OBVIOUS
    <3>8. /\ r \in Device /\ r.open
          /\ r.log = Entries(a, call.data, done)
          /\ r.regs = IF done = 0 THEN d.regs ELSE Put(d.regs, a, call.data[done])
          /\ r.n = IF f = "ok" /\ d.errcode = {} THEN m ELSE m - 1
          /\ r.errcode = IF f = "not_sent" THEN DataFailed({"ioctl_failed"})
                         ELSE IF f # "ok" THEN DataFailed({"read_failed"})
                         ELSE IF d.errcode = {} THEN {} ELSE DataFailed(d.errcode)
      <4>1. d.open /\ Len(d.luck) = m /\ d.luck[m] = f
        BY <2>3, <3>1, <3>3, <3>5
      <4>2. \A k \in 1..m : k < m => d.luck[k] = "ok" /\ d.errcode = {}
        <5>1. \A k \in 1..m : k < m => i # 0
          BY <3>0
        <5> QED
          BY <2>2, <3>3, <3>5, <5>1
      <4>3. d.luck[m] = "ok" /\ d.errcode = {} => m = Len(call.data)
        BY <3>5, <3>6, <4>1
      <4>4. /\ d \in Device /\ d.log = <<>> /\ a \in Addr /\ call.data \in Seq(Value)
            /\ m \in 1..Len(call.data)
        BY <1>1, <3>1, <3>5
      <4> HIDE DEF a
      <4>5. EndsAt(d, call.data, m) /\ m \in Nat
        BY <4>1, <4>2, <4>3, <4>4 DEF EndsAt
      <4> QED
        BY <3>7, <3>15, <4>1, <4>4, <4>5, WriteDataDoes
    <3>9. /\ Len(served) = done /\ done \in Nat
          /\ \A k \in DOMAIN served : served[k] = <<a, call.data[k]>>
      <4>1. /\ Len(served) \in {i, i + 1}
            /\ \A k \in DOMAIN served : served[k] = <<a, Words[k]>>
        BY <1>7 DEF CallInv, Written
      <4>2. Arrived <=> Len(served) = i + 1
        BY <1>7 DEF Arrived, TwoExchanges
      <4> QED
        BY <1>4, <1>7, <3>0, <3>15, <4>1, <4>2 DEF Words, Arriving
    <3>10. served = Entries(a, call.data, done)
      BY <1>3, <3>9 DEF Entries
    <3>11. r.regs = regs
      <4>1. CASE done = 0
        <5>1. served = <<>>
          BY <1>3, <3>9, <4>1
        <5> QED
          BY <1>2, <3>5, <3>8, <4>1, <5>1 DEF BoardSoFar
      <4>2. CASE done # 0
        <5>1. served # <<>> /\ served[done][2] = call.data[done]
          BY <1>3, <3>9, <4>2
        <5>2. regs = Put(before.regs, a, call.data[done])
          BY <1>2, <3>9, <5>1 DEF BoardSoFar
        <5> QED
          BY <3>5, <3>8, <4>2, <5>2
      <4> QED
        BY <4>1, <4>2
    <3>12. pc' = "idle" /\ r.n = n' /\ r.errcode = errcode'
      <4>1. CASE E = {}
        <5>1. f = "ok" /\ errcode = {}
          BY <4>1 DEF WriteCameTo
        <5>2. pc' = "idle" /\ errcode' = {} /\ n' = m
          BY <2>1, <2>2, <2>5, <3>0, <4>1 DEF Return
        <5> QED
          BY <3>5, <3>8, <5>1, <5>2
      <4>2. CASE E # {}
        <5>1. ~(f = "ok" /\ errcode = {})
          BY <4>2 DEF WriteCameTo
        <5>2. pc' = "idle" /\ errcode' = E \cup {"write_data_failed"} /\ n' = m - 1
          BY <1>3, <2>1, <2>2, <3>0, <4>2 DEF Return
        <5>3. r.errcode = E \cup {"write_data_failed"}
          BY <3>5, <3>8, <5>1 DEF WriteCameTo, DataFailed
        <5> QED
          BY <3>5, <3>8, <5>1, <5>2, <5>3
      <4> QED
        BY <4>1, <4>2
    <3>13. r \in Service!Outcomes([Service!NoReturn(Seen) EXCEPT !.luck = luck], call)
      BY <1>7, <3>4, <3>7 DEF Service!Outcomes, Service!Do
    <3>14. Service!Next
      <4>1. /\ r.open = deviceIsOpen /\ r.regs = regs' /\ r.log = served'
        BY <1>3, <2>3, <3>8, <3>10, <3>11
      <4>2. ret' = {} /\ data' = <<>> /\ UNCHANGED sock
        BY <1>3, <2>1, <2>2
      <4> QED
        BY <1>3, <1>7, <3>1, <3>2, <3>8, <3>12, <3>13, <4>1, <4>2, ReturnIsCall
    <3> QED
      BY <3>12, <3>14 DEF Implements, Progress
  <2> QED
    BY <2>4, <2>5
<1> QED
  BY <1>1, <1>5, <1>6, <1>7

\* What a block read and a ping came to.
NumberCameTo(f, k, E) ==
    IF call.op = "bulk"
    THEN \/ f = "not_sent" /\ k = toSend.words /\ E = {"ioctl_failed"}
         \/ f = "ok" /\ k <= toSend.words /\ E = errcode /\ sock = "open"
         \/ f = "reply_lost" /\ k = toSend.words /\ E = {"read_failed"} /\ sock = "open"
    ELSE \/ f = "not_sent" /\ k = 0 /\ E = before.errcode \cup {"write_failed"}
         \/ f = "ok" /\ k = 1 /\ E = before.errcode
         \/ f = "reply_lost" /\ k = 0 /\ E = before.errcode

\* Taking the result of a block read or of a ping.
LEMMA NumberImplements ==
    ASSUME CallInv, CallInv', Progress, pc # "idle", call.op \in {"bulk", "ping"}, Settled,
           NEW k \in Nat, NEW E \in SUBSET ErrorFlag, number_Result(k, E),
           NEW f \in Service!Fate, NumberCameTo(f, k, E)
    PROVE  Implements
<1>1. /\ i = 0 /\ ret = {} /\ data = <<>> /\ regs = before.regs /\ served = <<>>
      /\ call.op = "bulk" => errcode = before.errcode
      /\ call.op = "ping" => deviceIsOpen
  BY DEF Progress, CallInv, Position, ReturnSoFar, BoardSoFar, ErrorSoFar, SocketSoFar, TwoExchanges
<1>2. /\ TypeOK /\ TypeOK' /\ UNCHANGED <<sock, regs, served, before>>
      /\ call \in Calls /\ call.data \in Seq(Value)
  BY CallType DEF CallInv, Settled
<1>3. pc' = "idle" /\ errcode' = E /\ n' = k /\ ret' = {} /\ data' = <<>>
  BY <1>1 DEF number_Result, Return
<1> DEFINE luck == <<f>>
<1>4. luck \in Seq(Service!Fate) /\ Len(luck) <= MaxLuck /\ Head(luck) = f /\ luck # <<>>
  BY CallsAssumption, LinkAssumption
<1> HIDE DEF luck
<1>5. PICK d : d = [Service!NoReturn(Seen) EXCEPT !.luck = luck]
  OBVIOUS
<1>6. /\ d \in Device /\ d.open = deviceIsOpen /\ d.regs = before.regs /\ d.log = <<>>
      /\ d.errcode = before.errcode /\ d.luck = luck
  BY <1>2, <1>4, <1>5, BegunDoes
<1>7. Service!FateOf(d) = f
  BY <1>4, <1>6 DEF Service!FateOf
<1>8. CASE call.op = "bulk"
  <2> DEFINE limit == Service!Limit(call)
  <2>1. limit \in Nat /\ limit = toSend.words
    BY <1>2, <1>8, MaxBlkAssumption DEF Service!Limit, toSend, Request_, TwoExchanges, LimitedWords,
       MAX_BLOCKS_PER_UDP_PACKAGE
  <2>2. f # "not_sent" => deviceIsOpen
    BY <1>8 DEF NumberCameTo, deviceIsOpen
  <2>3. PICK taken \in 0..limit : f = "ok" => taken = k
    <3>1. f = "ok" => k \in 0..limit
      BY <1>8, <2>1 DEF NumberCameTo
    <3>2. 0 \in 0..limit
      BY <2>1
    <3> QED
      BY <3>1, <3>2
  <2> HIDE DEF limit
  <2>4. PICK r : r = Service!doIoctl(d, limit, taken)
    OBVIOUS
  <2>5. /\ r \in Device /\ r.open = d.open /\ r.regs = d.regs /\ r.log = d.log
        /\ r.n = IF Service!Answered(d) THEN taken ELSE limit
        /\ r.errcode = IF Service!SendFails(d) THEN {"ioctl_failed"}
                       ELSE IF Service!Answered(d) THEN d.errcode ELSE {"read_failed"}
    <3>1. PICK l, t : l = limit /\ t = taken
      OBVIOUS
    <3>2. d \in Device /\ {l, t} \subseteq Nat /\ r = Service!doIoctl(d, l, t)
      BY <1>6, <2>1, <2>4, <3>1
    <3>3. r \in Device /\ r.open = d.open /\ r.regs = d.regs /\ r.log = d.log
      BY <3>2, IoctlDoes
    <3>4. r.n = IF Service!Answered(d) THEN t ELSE l
      BY <3>2, IoctlDoes
    <3>5. r.errcode = IF Service!SendFails(d) THEN {"ioctl_failed"}
                      ELSE IF Service!Answered(d) THEN d.errcode ELSE {"read_failed"}
      BY <3>2, IoctlDoes
    <3> QED
      BY <3>1, <3>3, <3>4, <3>5
  <2>6. (Service!SendFails(d) <=> f = "not_sent") /\ (Service!Answered(d) <=> f = "ok")
    BY <1>6, <1>7, <2>2 DEF Service!SendFails, Service!Answered
  <2>7. r.errcode = E /\ r.n = k
    BY <1>1, <1>6, <1>8, <2>1, <2>3, <2>5, <2>6 DEF NumberCameTo
  <2>8. r \in Service!Outcomes(d, call)
    BY <1>8, <2>4 DEF Service!Outcomes, limit
  <2>9. Service!Next
    BY <1>1, <1>2, <1>3, <1>4, <1>5, <1>6, <1>8, <2>5, <2>7, <2>8, ReturnIsCall
  <2> QED
    BY <1>3, <2>9 DEF Implements, Progress
<1>9. CASE call.op = "ping"
  <2>1. d.open
    BY <1>1, <1>6, <1>9
  <2>2. PICK r : r = Service!deviceIsOnline(d)
    OBVIOUS
  <2>3. /\ r \in Device /\ r.open /\ r.regs = d.regs /\ r.log = d.log
        /\ r.n = IF Service!Answered(d) THEN 1 ELSE 0
        /\ r.errcode = IF Service!SendFails(d) THEN d.errcode \cup {"write_failed"}
                       ELSE d.errcode
    BY <1>6, <2>1, <2>2, OnlineDoes
  <2>4. (Service!SendFails(d) <=> f = "not_sent") /\ (Service!Answered(d) <=> f = "ok")
    BY <1>7, <2>1 DEF Service!SendFails, Service!Answered
  <2>5. r.errcode = E /\ r.n = k
    BY <1>6, <1>9, <2>3, <2>4 DEF NumberCameTo
  <2>6. r \in Service!Outcomes(d, call)
    BY <1>9, <2>2 DEF Service!Outcomes, Service!Do
  <2>7. Service!Next
    BY <1>1, <1>2, <1>3, <1>4, <1>5, <1>6, <1>9, <2>1, <2>3, <2>5, <2>6, ReturnIsCall
  <2> QED
    BY <1>3, <2>7 DEF Implements, Progress
<1> QED
  BY <1>8, <1>9

-----------------------------------------------------------------------------
(***************************************************************************)
(* The steps, each a step of the abstract layer or none.                   *)
(***************************************************************************)
\* openDevice and closeDevice show their caller the error flags and whether the
\* device is open, and nothing else.
LEMMA ReportIsShown ==
    ASSUME TypeOK, TypeOK', pc = "idle", pc' = "idle", UNCHANGED regs, noReturn, served' = <<>>
    PROVE  Service!Reports(errcode', deviceIsOpen')
<1>1. PICK x \in Device : x = Seen
  BY SeenIsDevice
<1>2. x.regs = regs
  BY <1>1, SeenIsDevice
<1> DEFINE p == Service!NoReturn(x)
<1>3. p \in Device /\ p.regs = regs /\ p.ret = {} /\ p.n = 0 /\ p.data = <<>> /\ p.log = <<>>
      /\ p.luck = <<>>
  BY <1>2, BareDevice
<1> HIDE DEF p
<1>4. PICK y \in Device : y = Seen'
  BY SeenIsDeviceThen
<1>5. /\ y.open = deviceIsOpen' /\ y.errcode = errcode' /\ y.regs = regs /\ y.ret = {}
      /\ y.n = 0 /\ y.data = <<>> /\ y.log = <<>> /\ y.luck = <<>>
  BY <1>4, SeenIsDeviceThen DEF noReturn
<1>6. PICK b \in BOOLEAN : b = deviceIsOpen'
  BY DEF deviceIsOpen
<1>7. PICK E \in SUBSET Service!ErrorFlag : E = errcode'
  BY <1>4, <1>5 DEF Device
<1>8. y = [p EXCEPT !.open = b, !.errcode = E]
  BY <1>3, <1>5, <1>6, <1>7 DEF Device
<1> QED
  BY <1>1, <1>4, <1>6, <1>7, <1>8 DEF Service!Reports, p

\* Nothing is reported but what was there.
LEMMA NothingIsShown ==
    ASSUME TypeOK, TypeOK', pc = "idle", noReturn, served' = <<>>, UNCHANGED <<sock, regs, errcode>>,
           pc' # "idle" => before' = [regs |-> regs, errcode |-> errcode]
    PROVE  Service!Next
<1>1. PICK x \in Device : x = Seen
  BY SeenIsDevice
<1>2. x.regs = regs /\ x.errcode = errcode /\ x.open = deviceIsOpen
  BY <1>1, SeenIsDevice
<1> DEFINE p == Service!NoReturn(x)
<1>3. /\ p \in Device /\ p.open = deviceIsOpen /\ p.errcode = errcode /\ p.regs = regs
      /\ p.ret = {} /\ p.n = 0 /\ p.data = <<>> /\ p.log = <<>> /\ p.luck = <<>>
  BY <1>2, BareDevice
<1> HIDE DEF p
<1>4. PICK y \in Device : y = Seen'
  BY SeenIsDeviceThen
<1>5. deviceIsOpen' = deviceIsOpen
  BY DEF deviceIsOpen
<1>6. /\ y.open = deviceIsOpen /\ y.errcode = errcode /\ y.regs = regs /\ y.ret = {}
      /\ y.n = 0 /\ y.data = <<>> /\ y.log = <<>> /\ y.luck = <<>>
  BY <1>4, <1>5, SeenIsDeviceThen DEF noReturn
<1>7. y = p
  BY <1>3, <1>6, SameDevice
<1> QED
  BY <1>1, <1>4, <1>7 DEF Service!Next, p

\* openDevice is Open of the abstract layer.
LEMMA OpenImplements ==
    ASSUME CallInv, CallInv', NEW p \in Connections, openDevice(p)
    PROVE  Implements
<1>1. TypeOK /\ TypeOK' /\ pc = "idle" /\ pc' = "idle"
  BY DEF CallInv, openDevice, idleUnchanged
<1>2. Seen.open = deviceIsOpen /\ Seen.errcode = errcode
  BY <1>1, SeenIsDevice
<1>3. Service!Reports(errcode', deviceIsOpen')
  BY <1>1, ReportIsShown DEF openDevice, idleUnchanged, linkUnchanged
<1>4. \/ deviceIsOpen /\ deviceIsOpen' /\ errcode' = errcode \cup {"already_open"}
      \/ ~deviceIsOpen /\ deviceIsOpen' /\ errcode' = {}
      \/ ~deviceIsOpen /\ errcode' = errcode \cup {"open_failed"}
  BY DEF openDevice, OpenFails, _createUDPsocket_fails, _bindUDPsocket_fails, deviceIsOpen
<1>5. Service!Open
  BY <1>2, <1>3, <1>4 DEF Service!Open, deviceIsOpen
<1> QED
  BY <1>1, <1>5 DEF Implements, Progress, Service!Next

\* closeDevice is Close of the abstract layer.
LEMMA CloseImplements ==
    ASSUME CallInv, CallInv', closeDevice
    PROVE  Implements
<1>1. TypeOK /\ TypeOK' /\ pc = "idle" /\ pc' = "idle"
  BY DEF CallInv, closeDevice
<1>2. Seen.open = deviceIsOpen /\ Seen.errcode = errcode
  BY <1>1, SeenIsDevice
<1>3. Service!Reports(errcode', deviceIsOpen')
  BY <1>1, ReportIsShown DEF closeDevice
<1>4. /\ ~deviceIsOpen'
      /\ \/ ~deviceIsOpen /\ errcode' = errcode \cup {"device_not_open"}
         \/ deviceIsOpen /\ errcode' = {}
         \/ deviceIsOpen /\ errcode' = errcode \cup {"close_failed"}
  BY DEF closeDevice, deviceIsOpen
<1>5. Service!Close
  <2>1. deviceIsOpen' = FALSE
    BY DEF closeDevice, deviceIsOpen
  <2>2. Service!Reports(errcode', FALSE)
    BY <1>3, <2>1
  <2> QED
    BY <1>2, <1>4, <2>2 DEF Service!Close
<1> QED
  BY <1>1, <1>5 DEF Implements, Progress, Service!Next

\* A transfer on a device that is not open is a call of the abstract layer.
LEMMA NotOpenIsCall ==
    ASSUME TypeOK, TypeOK', pc = "idle", pc' = "idle", ~deviceIsOpen, UNCHANGED <<sock, regs>>,
           noReturn, served' = <<>>, errcode' = errcode \cup {"device_not_open"},
           NEW c \in Calls, c.op \in {"writeData", "readData"}
    PROVE  Service!Next
<1>1. PICK x \in Device : x = Seen
  BY SeenIsDevice
<1>2. x.regs = regs /\ x.errcode = errcode /\ x.open = deviceIsOpen
  BY <1>1, SeenIsDevice
<1>3. PICK p : p = Service!NoReturn(x)
  OBVIOUS
<1>4. /\ p \in Device /\ ~p.open /\ p.errcode = errcode /\ p.regs = regs
      /\ p.n = 0 /\ p.data = <<>> /\ p.log = <<>>
  BY <1>2, <1>3, BareDevice
<1>5. <<>> \in Seq(Service!Fate) /\ 0 \in Nat
  OBVIOUS
<1>6. PICK d : d = [p EXCEPT !.luck = <<>>]
  OBVIOUS
<1>7. /\ d \in Device /\ ~d.open /\ d.errcode = errcode /\ d.regs = regs
      /\ d.n = 0 /\ d.data = <<>> /\ d.log = <<>>
  <2>1. \A l \in Seq(Service!Fate) : d = [p EXCEPT !.luck = l] =>
          /\ d \in Device /\ ~d.open /\ d.errcode = errcode /\ d.regs = regs
          /\ d.n = 0 /\ d.data = <<>> /\ d.log = <<>>
    BY <1>4 DEF Device
  <2> QED
    BY <1>5, <1>6, <2>1
<1>8. PICK e : e = [d EXCEPT !.errcode = @ \cup {"device_not_open"}, !.n = 0]
  OBVIOUS
<1>9. /\ e \in Device /\ ~e.open /\ e.errcode = errcode' /\ e.regs = regs
      /\ e.n = 0 /\ e.data = <<>> /\ e.log = <<>>
  <2>1. d.errcode \cup {"device_not_open"} \in SUBSET Service!ErrorFlag
    BY <1>7 DEF Device, Service!ErrorFlag
  <2>2. PICK F \in SUBSET Service!ErrorFlag : F = d.errcode \cup {"device_not_open"}
    BY <2>1
  <2>3. e = [d EXCEPT !.errcode = F, !.n = 0]
    BY <1>8, <2>2
  <2>4. F = errcode'
    BY <1>7, <2>2
  <2> QED
    BY <1>5, <1>7, <2>3, <2>4 DEF Device
<1>10. e = Service!Do(d, c)
  BY <1>7, <1>8 DEF Service!Do, Service!writeData, Service!readData
<1>11. PICK r : r = Service!Shows(e, c.op)
  OBVIOUS
<1>12. /\ r \in Device /\ r.open = e.open /\ r.errcode = e.errcode /\ r.regs = e.regs
       /\ r.ret = {} /\ r.n = 0 /\ r.data = <<>> /\ r.log = <<>> /\ r.luck = <<>>
  BY <1>9, <1>11, ShowsDoes
<1>13. deviceIsOpen' = deviceIsOpen
  BY DEF deviceIsOpen
<1>14. PICK y \in Device : y = Seen'
  BY SeenIsDeviceThen
<1>15. /\ y.open = deviceIsOpen /\ y.errcode = errcode' /\ y.regs = regs /\ y.ret = {}
       /\ y.n = 0 /\ y.data = <<>> /\ y.log = <<>> /\ y.luck = <<>>
  BY <1>13, <1>14, SeenIsDeviceThen DEF noReturn
<1>16. y = r
  <2>1. y.open = r.open
    BY <1>9, <1>12, <1>15 DEF Device
  <2> QED
    BY <1>9, <1>12, <1>15, <2>1, SameDevice
<1>17. Service!Call(c, <<>>)
  <2>1. e \in Service!Outcomes([Service!NoReturn(Seen) EXCEPT !.luck = <<>>], c)
    BY <1>1, <1>3, <1>6, <1>10 DEF Service!Outcomes
  <2> QED
    BY <1>11, <1>14, <1>16, <2>1 DEF Service!Call
<1>18. <<>> \in Service!Luck
  <2>1. <<>> \in [1..0 -> Service!Fate] /\ 0 \in 0..MaxLuck
    BY LinkAssumption
  <2> QED
    BY <2>1 DEF Service!Luck
<1> QED
  BY <1>17, <1>18 DEF Service!Next

\* The beginning of a call: the caller has what the call before returned.
LEMMA BeginImplements ==
    ASSUME CallInv, CallInv', NEW c \in Calls, BeginCall(c)
    PROVE  Implements
<1>1. /\ TypeOK /\ TypeOK' /\ pc = "idle" /\ noReturn /\ served' = <<>>
      /\ UNCHANGED <<sock, regs, toBoard, toPC>>
      /\ before' = [regs |-> regs, errcode |-> errcode]
  BY DEF CallInv, BeginCall
<1>2. CASE ReturnsAtOnce(c)
  <2>1. pc' = "idle" /\ errcode' = IF deviceIsOpen \/ c.op = "ping" THEN errcode
                                   ELSE errcode \cup {"device_not_open"}
    BY <1>1, <1>2 DEF BeginCall
  <2>2. CASE deviceIsOpen \/ c.op = "ping"
    BY <1>1, <2>1, <2>2, NothingIsShown DEF Implements, Progress
  <2>3. CASE ~(deviceIsOpen \/ c.op = "ping")
    <3>1. c.op \in {"writeData", "readData"}
      BY <1>2, <2>3 DEF ReturnsAtOnce
    <3>2. Service!Next
      BY <1>1, <2>1, <2>3, <3>1, NotOpenIsCall
    <3> QED
      BY <2>1, <3>2 DEF Implements, Progress
  <2> QED
    BY <2>2, <2>3
<1>3. CASE ~ReturnsAtOnce(c)
  <2>1. call' = c /\ i' = 0 /\ pc' = "send" /\ UNCHANGED errcode
    BY <1>3 DEF BeginCall
  <2>2. Service!Next
    BY <1>1, <2>1, NothingIsShown
  <2>3. before'.regs = regs /\ before'.errcode = errcode
    BY <1>1
  <2>4. ErrorSoFar' /\ ReturnSoFar'
    BY <1>1, <2>1, <2>3 DEF ErrorSoFar, ReturnSoFar, noReturn, TwoExchanges
  <2>5. BoardSoFar' /\ SocketSoFar'
    BY <1>1, <1>3, <2>1, <2>3 DEF BoardSoFar, SocketSoFar, ReturnsAtOnce, deviceIsOpen
  <2> QED
    BY <2>2, <2>4, <2>5 DEF Implements, Progress
<1> QED
  BY <1>2, <1>3

\* Whether a write arrived, from what is under way.
LEMMA NothingArrived ==
    ASSUME CallInv, Progress, pc # "idle", toSend.flag = "write", pc = "send" \/ toBoard # <<>>
    PROVE  ~Arrived
<1>1. call.op \in {"write", "writeData"} \cup TwoExchanges
  BY CallType DEF toSend, Request_, Op
<1>2. CASE call.op \in {"write", "writeData"}
  <2>1. Len(served) = i /\ i \in Nat
    BY <1>2 DEF CallInv, Written, TypeOK
  <2> QED
    BY <1>2, <2>1 DEF Arrived, TwoExchanges
<1>3. CASE call.op \in TwoExchanges
  <2>1. i # 0
    BY <1>3 DEF toSend, Request_, TwoExchanges
  <2> QED
    BY <1>3, <2>1 DEF Progress, BoardSoFar, Arrived
<1> QED
  BY <1>1, <1>2, <1>3

\* A write of which the answer is there has arrived.
LEMMA AnswerArrived ==
    ASSUME CallInv, Progress, pc # "idle", toSend.flag = "write", toPC # <<>>
    PROVE  Arrived
<1>1. call.op \in {"write", "writeData"} \cup TwoExchanges
  BY CallType DEF toSend, Request_, Op
<1>2. CASE call.op \in {"write", "writeData"}
  <2>1. Len(served) = i + 1
    BY <1>2 DEF CallInv, Written
  <2> QED
    BY <1>2, <2>1 DEF Arrived, TwoExchanges
<1>3. CASE call.op \in TwoExchanges
  <2>1. i # 0
    BY <1>3 DEF toSend, Request_, TwoExchanges
  <2> QED
    BY <1>3, <2>1 DEF Progress, BoardSoFar, Arrived
<1> QED
  BY <1>1, <1>2, <1>3

\* A request that is sent is none of the caller's concern.
LEMMA SendImplements ==
    ASSUME CallInv, CallInv', Progress, _sendBuffer
    PROVE  Implements
<1>1. toBoard' = <<toSend>> /\ toPC' = <<>> /\ pc = "send" /\ pc' = "wait" /\ sock = "open"
      /\ UNCHANGED <<sock, errcode, call, i, ret, n, data, regs, fifo, served, before>>
  BY NothingBefore, NoOld, PushOne DEF _sendBuffer, NothingUnderWay
<1>2. ErrorSoFar /\ ReturnSoFar /\ BoardSoFar /\ SocketSoFar
  BY <1>1 DEF Progress
<1>3. ErrorSoFar'
  BY <1>1, <1>2 DEF ErrorSoFar, FirstRead
<1>4. ReturnSoFar' /\ SocketSoFar'
  BY <1>1, <1>2 DEF ReturnSoFar, SocketSoFar, deviceIsOpen
<1>5. BoardSoFar'
  BY <1>1, <1>2 DEF BoardSoFar
<1> QED
  BY <1>1, <1>3, <1>4, <1>5, GoingOnIsHidden DEF Implements, Progress

\* A request that is not sent ends the exchange with the luck not_sent; a ping goes on
\* to wait, and its caller sees nothing of it yet.
LEMMA SendFailsImplements ==
    ASSUME CallInv, CallInv', Progress, _sendBuffer_fails
    PROVE  Implements
<1>1. pc = "send" /\ Settled
  BY NothingBefore, NoOld DEF _sendBuffer_fails, NothingUnderWay, Settled
<1>2. {"ioctl_failed"} \in SUBSET ErrorFlag /\ {} \in Value /\ "not_sent" \in Service!Fate
  BY DEF ErrorFlag, Value, Service!Fate
<1>3. ErrorSoFar /\ ReturnSoFar /\ BoardSoFar /\ SocketSoFar
  BY <1>1 DEF Progress
<1>4. CASE call.op = "ping"
  <2>1. /\ errcode' = errcode \cup {"write_failed"} /\ pc' = "wait"
        /\ UNCHANGED <<call, i, ret, n, data, sock, regs, served, before>>
        /\ toBoard' = <<>> /\ toPC' = <<>>
    BY <1>1, <1>4 DEF _sendBuffer_fails, Settled
  <2>2. errcode = before.errcode
    BY <1>1, <1>3, <1>4 DEF ErrorSoFar
  <2>3. ErrorSoFar'
    BY <1>4, <2>1, <2>2 DEF ErrorSoFar, NothingUnderWay, TwoExchanges
  <2>4. ReturnSoFar' /\ SocketSoFar'
    BY <1>3, <1>4, <2>1 DEF ReturnSoFar, SocketSoFar, deviceIsOpen
  <2>5. BoardSoFar'
    BY <1>3, <1>4, <2>1 DEF BoardSoFar, TwoExchanges
  <2> QED
    BY <1>1, <2>1, <2>3, <2>4, <2>5, GoingOnIsHidden DEF Implements, Progress
<1>5. CASE call.op # "ping" /\ toSend.flag = "read"
  <2>1. read_Result({}, {"ioctl_failed"})
    BY <1>5 DEF _sendBuffer_fails
  <2>2. ReadCameTo("not_sent", {}, {"ioctl_failed"})
    BY DEF ReadCameTo
  <2> QED
    BY <1>1, <1>2, <1>5, <2>1, <2>2, ReadImplements
<1>6. CASE call.op # "ping" /\ toSend.flag = "write"
  <2>1. write_Result({"ioctl_failed"})
    BY <1>6 DEF _sendBuffer_fails
  <2>2. ~Arrived
    BY <1>1, <1>6, NothingArrived
  <2>3. WriteCameTo("not_sent", {"ioctl_failed"})
    BY <2>2 DEF WriteCameTo
  <2> QED
    BY <1>1, <1>2, <1>6, <2>1, <2>3, WriteImplements
<1>7. CASE call.op # "ping" /\ toSend.flag = "bulk"
  <2>1. number_Result(toSend.words, {"ioctl_failed"}) /\ toSend.words \in Nat /\ call.op = "bulk"
    BY <1>1, <1>7, RequestType DEF _sendBuffer_fails, Datagram
  <2>2. NumberCameTo("not_sent", toSend.words, {"ioctl_failed"})
    BY <2>1 DEF NumberCameTo
  <2> QED
    BY <1>1, <1>2, <2>1, <2>2, NumberImplements
<1>8. call.op # "ping" => toSend.flag # "ping"
  BY <1>1, CallType DEF toSend, Request_, Op
<1> QED
  BY <1>1, <1>4, <1>5, <1>6, <1>7, <1>8, RequestType

\* An answer ends the exchange with the luck ok.
LEMMA AnswerImplements ==
    ASSUME CallInv, CallInv', Progress, _readBuffer
    PROVE  Implements
<1>1. PICK m \in Datagram : m = Head(toPC)
  BY AnswerTaken
<1>2. pc = "wait" /\ Settled /\ toPC # <<>> /\ IsAnswer(m) /\ sock = "open"
  BY <1>1, AnswerTaken DEF _readBuffer
<1>3. Accept(m) /\ m.val \in Value /\ m.words \in Nat
  BY <1>1 DEF _readBuffer, Datagram
<1>4. /\ {} \in SUBSET ErrorFlag /\ errcode \in SUBSET ErrorFlag
      /\ "ok" \in Service!Fate
  BY DEF CallInv, TypeOK, Service!Fate
<1>5. CASE toSend.flag = "read"
  <2>1. read_Result(m.val, {}) /\ m.val = regs[call.addr]
    BY <1>2, <1>3, <1>5 DEF Accept, IsAnswer
  <2>2. ReadCameTo("ok", m.val, {})
    BY <1>2, <2>1 DEF ReadCameTo
  <2> QED
    BY <1>2, <1>3, <1>4, <1>5, <2>1, <2>2, ReadImplements
<1>6. CASE toSend.flag = "write"
  <2>1. write_Result(errcode)
    BY <1>2, <1>3, <1>6 DEF Accept, IsAnswer
  <2>2. WriteCameTo("ok", errcode)
    BY <1>2, <1>6, AnswerArrived DEF WriteCameTo
  <2> QED
    BY <1>2, <1>4, <1>6, <2>1, <2>2, WriteImplements
<1>7. CASE toSend.flag = "bulk"
  <2>1. number_Result(m.words, errcode) /\ m.words <= toSend.words /\ call.op = "bulk"
    BY <1>2, <1>3, <1>7, RequestType DEF Accept, IsAnswer
  <2>2. NumberCameTo("ok", m.words, errcode)
    BY <1>2, <2>1 DEF NumberCameTo
  <2> QED
    BY <1>2, <1>3, <1>4, <2>1, <2>2, NumberImplements
<1>8. CASE toSend.flag = "ping"
  <2>1. number_Result(1, errcode) /\ call.op = "ping"
    BY <1>2, <1>3, <1>8, CallType DEF Accept, IsAnswer, toSend, Request_, Op
  <2>2. errcode = before.errcode
    BY <1>2, <2>1 DEF Progress, ErrorSoFar, NothingUnderWay
  <2>3. NumberCameTo("ok", 1, errcode)
    BY <2>1, <2>2 DEF NumberCameTo
  <2> QED
    BY <1>2, <1>4, <2>1, <2>3, NumberImplements
<1> QED
  BY <1>2, <1>5, <1>6, <1>7, <1>8, RequestType

\* Without an answer the exchange ends with the luck reply_lost, or request_lost if
\* the board has not done the write.
LEMMA TimeoutImplements ==
    ASSUME CallInv, CallInv', Progress, ~Late, _readBuffer_timeout
    PROVE  Implements
<1>1. pc = "wait" /\ Settled /\ NothingUnderWay /\ TimedOut
  BY NothingBefore DEF _readBuffer_timeout, NothingUnderWay, Settled
<1>2. /\ {"read_failed"} \in SUBSET ErrorFlag /\ {} \in SUBSET ErrorFlag /\ {} \in Value
      /\ errcode \in SUBSET ErrorFlag
      /\ {"not_sent", "request_lost", "reply_lost"} \subseteq Service!Fate
  BY DEF ErrorFlag, Value, CallInv, TypeOK, Service!Fate
<1>3. call.op # "ping" => sock = "open"
  BY <1>1 DEF Progress, SocketSoFar
<1>4. CASE toSend.flag = "read"
  <2>1. read_Result({}, {}) /\ call.op # "ping"
    BY <1>1, <1>4 DEF TimedOut, toSend, Request_, TwoExchanges
  <2>2. ReadCameTo("reply_lost", {}, {})
    BY <1>3, <2>1 DEF ReadCameTo
  <2> QED
    BY <1>1, <1>2, <1>4, <2>1, <2>2, ReadImplements
<1>5. CASE toSend.flag = "write"
  <2>1. write_Result({"read_failed"}) /\ call.op # "ping"
    BY <1>1, <1>5 DEF TimedOut, toSend, Request_, TwoExchanges
  <2>2. PICK f \in Service!Fate : f = IF Arrived THEN "reply_lost" ELSE "request_lost"
    BY <1>2
  <2>3. WriteCameTo(f, {"read_failed"})
    BY <1>3, <2>1, <2>2 DEF WriteCameTo
  <2> QED
    BY <1>1, <1>2, <1>5, <2>1, <2>3, WriteImplements
<1>6. CASE toSend.flag = "bulk"
  <2>1. number_Result(toSend.words, {"read_failed"}) /\ toSend.words \in Nat /\ call.op = "bulk"
    BY <1>1, <1>6, RequestType DEF TimedOut, Datagram
  <2>2. NumberCameTo("reply_lost", toSend.words, {"read_failed"})
    BY <1>3, <2>1 DEF NumberCameTo
  <2> QED
    BY <1>1, <1>2, <2>1, <2>2, NumberImplements
<1>7. CASE toSend.flag = "ping"
  <2>1. number_Result(0, errcode) /\ call.op = "ping"
    BY <1>1, <1>7, CallType DEF TimedOut, toSend, Request_, Op
  <2>2. PICK f \in Service!Fate : f = IF errcode = before.errcode THEN "reply_lost" ELSE "not_sent"
    BY <1>2
  <2>3. errcode = before.errcode \/ errcode = before.errcode \cup {"write_failed"}
    BY <1>1, <2>1 DEF Progress, ErrorSoFar
  <2>4. NumberCameTo(f, 0, errcode)
    BY <2>1, <2>2, <2>3 DEF NumberCameTo
  <2> QED
    BY <1>1, <1>2, <2>1, <2>4, NumberImplements
<1> QED
  BY <1>1, <1>4, <1>5, <1>6, <1>7, RequestType

\* Of two writes to one register the second one stays.
LEMMA PutTwice ==
    ASSUME NEW r \in [Addr -> Value], NEW a \in Addr, NEW x, NEW v
    PROVE  Put(Put(r, a, x), a, v) = Put(r, a, v)
  BY DEF Put

\* The board serves the request: the driver has not learnt of it.
LEMMA ServeImplements ==
    ASSUME CallInv, CallInv', Progress, Serve
    PROVE  Implements
<1>1. toBoard = <<toSend>> /\ toPC = <<>> /\ pc = "wait" /\ sock = "open"
  BY DEF Serve, CallInv, Link, NothingUnderWay, RequestUnderWay, AnswerUnderWay
<1>2. Head(toBoard) = toSend /\ Tail(toBoard) = <<>> /\ toBoard # <<>>
  BY <1>1
<1>3. /\ UNCHANGED <<sock, errcode, call, i, pc, ret, n, data, before>> /\ toBoard' = <<>>
      /\ regs' = IF toSend.flag = "write" THEN [regs EXCEPT ![toSend.addr] = toSend.val] ELSE regs
      /\ served' = IF toSend.flag = "write" /\ toSend.fresh
                   THEN Append(served, <<toSend.addr, toSend.val>>) ELSE served
  BY <1>2 DEF Serve, driverVars
<1>4. ErrorSoFar /\ ReturnSoFar /\ BoardSoFar /\ SocketSoFar
  BY <1>1 DEF Progress
<1>5. ErrorSoFar'
  <2>1. ~NothingUnderWay
    BY <1>2 DEF NothingUnderWay
  <2>2. call.op = "ping" => errcode = before.errcode
    BY <1>4, <2>1 DEF ErrorSoFar
  <2> QED
    BY <1>1, <1>3, <1>4, <2>2 DEF ErrorSoFar, FirstRead, TwoExchanges
<1>6. ReturnSoFar' /\ SocketSoFar'
  BY <1>3, <1>4 DEF ReturnSoFar, SocketSoFar, deviceIsOpen
<1>7. BoardSoFar'
  <2>1. CASE toSend.flag # "write"
    <3>1. UNCHANGED <<regs, served>> /\ (call.op \in TwoExchanges => i = 0)
      BY <1>3, <2>1 DEF toSend, Request_, TwoExchanges
    <3> QED
      BY <1>3, <1>4, <3>1 DEF BoardSoFar
  <2>2. CASE toSend.flag = "write"
    <3> DEFINE a == call.addr
               v == toSend.val
    <3>1. /\ regs' = Put(regs, a, v) /\ served' = Append(served, Entry(a, v))
          /\ call.op \in {"write", "writeData"} \cup TwoExchanges
          /\ call.op \in TwoExchanges => i # 0 /\ v = Modified(call.op, ret, call.val)
      <4>1. toSend.fresh /\ toSend.addr = a /\ call.op \in Op
        BY <1>1, RequestType, CallType
      <4>2. regs' = Put(regs, a, v) /\ served' = Append(served, Entry(a, v))
        BY <1>3, <2>2, <4>1 DEF Put, Entry
      <4>3. /\ call.op \in {"write", "writeData"} \cup TwoExchanges
            /\ call.op \in TwoExchanges => i # 0 /\ v = Modified(call.op, ret, call.val)
        BY <2>2, <4>1 DEF toSend, Request_, TwoExchanges, Op
      <4> QED
        BY <4>2, <4>3
    <3>2. served \in Seq(Addr \X Value) /\ before.regs \in [Addr -> Value] /\ a \in Addr
          /\ v \in Value
      BY <1>1, CallType, RequestType DEF CallInv, TypeOK, Datagram
    <3> HIDE DEF a, v
    <3>3. /\ served' # <<>> /\ served'[Len(served')][2] = v
          /\ served = <<>> => served' = <<<<a, v>>>>
      <4>1. Entry(a, v) \in Addr \X Value /\ Entry(a, v)[2] = v
        BY <3>2 DEF Entry
      <4>2. served' # <<>> /\ served'[Len(served')] = Entry(a, v)
        BY <3>1, <3>2, <4>1
      <4>3. served = <<>> => served' = <<<<a, v>>>>
        BY <3>1 DEF Entry
      <4> QED
        BY <4>1, <4>2, <4>3
    <3>4. regs' = Put(before.regs, a, v)
      <4>1. CASE served = <<>>
        BY <1>4, <3>1, <4>1 DEF BoardSoFar
      <4>2. CASE served # <<>>
        <5>1. PICK x : regs = Put(before.regs, a, x)
          BY <1>4, <4>2 DEF BoardSoFar, a
        <5> QED
          BY <3>1, <3>2, <5>1, PutTwice
      <4> QED
        BY <4>1, <4>2
    <3>5. regs' = IF served' = <<>> THEN before'.regs
                  ELSE Put(before'.regs, call'.addr, served'[Len(served')][2])
      BY <1>3, <3>3, <3>4 DEF a
    <3>6. call.op \in TwoExchanges => i # 0 /\ served = <<>>
      BY <1>2, <1>4, <3>1 DEF BoardSoFar
    <3>7. call.op \in TwoExchanges =>
            served' = <<<<call'.addr, Modified(call'.op, ret', call'.val)>>>>
      BY <1>3, <3>1, <3>3, <3>6 DEF a
    <3>8. call.op \notin {"write", "writeData"} => call.op \in TwoExchanges
      BY <3>1
    <3> QED
      BY <1>1, <1>3, <3>3, <3>5, <3>6, <3>7, <3>8 DEF BoardSoFar, TwoExchanges
  <2> QED
    BY <2>1, <2>2
<1>8. UNCHANGED Seen
  BY <1>1, <1>3, GoingOnIsHidden
<1> QED
  BY <1>5, <1>6, <1>7, <1>8 DEF Implements, Progress

\* A word of the DAQ, or a datagram that is lost: the driver has not learnt of
\* it.
LEMMA EnvironmentImplements ==
    ASSUME CallInv, CallInv', Progress, DaqWord \/ Lose
    PROVE  Implements
<1>1. CASE DaqWord
  <2>1. UNCHANGED <<sock, errcode, call, i, pc, ret, n, data, toBoard, toPC, regs, served, before>>
    BY <1>1 DEF DaqWord, driverVars
  <2>2. UNCHANGED <<Seen, Progress>>
    BY <2>1 DEF Seen, deviceIsOpen, Progress, ErrorSoFar, FirstRead, ReturnSoFar, BoardSoFar,
       SocketSoFar, NothingUnderWay
  <2> QED
    BY <2>2 DEF Implements
<1>2. CASE Lose
  <2>1. UNCHANGED <<sock, errcode, call, i, pc, ret, n, data, regs, served, before>>
    BY <1>2 DEF Lose, driverVars
  <2>2. toBoard' = <<>> /\ toPC' = <<>> /\ pc = "wait" /\ ~NothingUnderWay
    <3>1. CASE RequestUnderWay
      BY <1>2, <3>1 DEF Lose, CallInv, Link, NothingUnderWay, RequestUnderWay, AnswerUnderWay
    <3>2. CASE AnswerUnderWay
      <4>1. toBoard = <<>> /\ toPC # <<>> /\ Tail(toPC) = <<>>
        BY <3>2 DEF AnswerUnderWay
      <4> QED
        BY <1>2, <4>1 DEF Lose, CallInv, Link, NothingUnderWay
    <3> QED
      BY <1>2, <3>1, <3>2 DEF Lose, CallInv, Link, NothingUnderWay
  <2>3. ErrorSoFar /\ ReturnSoFar /\ BoardSoFar /\ SocketSoFar
    BY <2>2 DEF Progress
  <2>4. ErrorSoFar'
    BY <2>1, <2>2, <2>3 DEF ErrorSoFar, FirstRead
  <2>5. ReturnSoFar' /\ SocketSoFar'
    BY <2>1, <2>3 DEF ReturnSoFar, SocketSoFar, deviceIsOpen
  <2>6. BoardSoFar'
    BY <2>1, <2>2, <2>3 DEF BoardSoFar
  <2>7. UNCHANGED Seen
    BY <2>1, <2>2, GoingOnIsHidden
  <2> QED
    BY <2>4, <2>5, <2>6, <2>7 DEF Implements, Progress
<1> QED
  BY <1>1, <1>2

\* A step that changes nothing.
LEMMA StutterImplements ==
    ASSUME Progress, UNCHANGED vars
    PROVE  Implements
<1>1. UNCHANGED <<sock, errcode, call, i, pc, ret, n, data, toBoard, toPC, regs, served, before>>
  BY DEF vars, driverVars
<1>2. UNCHANGED <<Seen, Progress>>
  BY <1>1 DEF Seen, deviceIsOpen, Progress, ErrorSoFar, FirstRead, ReturnSoFar, BoardSoFar,
     SocketSoFar, NothingUnderWay
<1> QED
  BY <1>2 DEF Implements

-----------------------------------------------------------------------------
\* Every step keeps Progress and is a step of the abstract layer or hidden from
\* it.
LEMMA StepImplements == ~Late /\ CallInv /\ Progress /\ [Next]_vars => Implements
<1> SUFFICES ASSUME ~Late, CallInv, Progress, [Next]_vars PROVE Implements
  OBVIOUS
<1>1. CallInv'
  BY StepKeeps
<1> QED
  BY <1>1, OpenImplements, CloseImplements, BeginImplements, SendImplements, SendFailsImplements,
     AnswerImplements, TimeoutImplements, ServeImplements, EnvironmentImplements,
     StutterImplements DEF Next

\* The driver begins as the abstract layer does.
LEMMA InitImplements == Init => Progress /\ Service!Init
<1> SUFFICES ASSUME Init PROVE Progress /\ Service!Init
  OBVIOUS
<1>1. Progress
  BY DEF Init, Progress
<1>2. [a \in Addr |-> {}] \in [Addr -> SUBSET Bits]
  OBVIOUS
<1>3. Seen = [open |-> FALSE, errcode |-> {}, regs |-> regs, ret |-> {}, n |-> 0,
              data |-> <<>>, log |-> <<>>, luck |-> <<>>]
  BY DEF Init, Seen, deviceIsOpen
<1>4. regs \in [Addr -> SUBSET Bits]
  BY <1>2 DEF Init
<1> QED
  BY <1>1, <1>3, <1>4 DEF Service!Init

\* Next to the types and the datagrams under way, what a call under way has come to:
\* its error code, its result and the registers are those that a luck explains.
THEOREM CallSoFar == ASSUME ~Late PROVE Spec => []Progress
<1>1. Init => CallInv /\ Progress
  BY InitCall, InitImplements
<1>2. CallInv /\ Progress /\ [Next]_vars => (CallInv /\ Progress)'
  BY StepKeeps, StepImplements DEF Implements
<1> QED
  BY <1>1, <1>2, PTL DEF Spec

\* Every step of the driver, the network and the board is a step of the abstract
\* access layer, or one of which its caller sees nothing: whatever is lost, a call
\* comes to one of the outcomes GalUdpCalls computes.
THEOREM DriverImplementsService == ASSUME ~Late PROVE Spec => ImplementsService
<1>1. CallInv /\ Progress /\ [Next]_vars => [UNCHANGED Seen \/ Service!Next]_vars
  BY StepImplements DEF Implements
<1>2. Init => Service!Init
  BY InitImplements
<1> QED
  BY <1>1, <1>2, DriverInvariant, CallSoFar, PTL DEF Spec, ImplementsService

\* The same as a refinement: a behaviour of the driver is one of the abstract layer.
COROLLARY DriverRefinesService == ASSUME ~Late PROVE Spec => Service!Spec
<1>1. CallInv /\ Progress /\ [Next]_vars => [Service!Next]_Seen
  BY StepImplements DEF Implements
<1>2. Init => Service!Init
  BY InitImplements
<1> QED
  BY <1>1, <1>2, DriverInvariant, CallSoFar, PTL DEF Spec, Service!Spec
=============================================================================
