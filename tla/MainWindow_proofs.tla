-------------------------- MODULE MainWindow_proofs --------------------------
(***************************************************************************)
(* Proofs about the configuration software, for any registers, any         *)
(* addresses of the PC, any number of waiting words and whatever becomes   *)
(* of the exchanges with the board.                                        *)
(*                                                                         *)
(* Two of its displays: that of the connection, and the list of the DAQ    *)
(* words of a readout.                                                     *)
(***************************************************************************)
EXTENDS MainWindow, SequenceTheorems, TLAPS

\* One of the two buttons is enabled, and what they and the messages say is so.
WindowInv == buttons \in {{"Connect"}, {"Disconnect"}} /\ ConnectionIsAsShown

LEMMA InitWindow == Init => WindowInv
  BY DEF Init, WindowInv, ConnectionIsAsShown

\* openDevice() leaves no error only of a device that was not open, and then the
\* socket is there.
LEMMA OpenedIsOpen ==
    ASSUME NEW remote, Opened(remote).errcode = {}
    PROVE  sock = "none" /\ Opened(remote).sock = "open"
  BY DEF Opened, deviceIsOpen

LEMMA ConnectKeeps ==
    ASSUME WindowInv, NEW remote, Connect(remote)
    PROVE  WindowInv'
<1>1. buttons = {"Connect"} /\ sock # "open"
  <2>1. "Connect" \in buttons
    BY DEF Connect
  <2> QED
    BY <2>1 DEF WindowInv, ConnectionIsAsShown
<1>2. CASE own = 0 \/ remote = "empty"
  <2>1. log' = {"field is empty"} /\ UNCHANGED <<sock, buttons>>
    BY <1>2 DEF Connect
  <2> QED
    BY <1>1, <2>1 DEF WindowInv, ConnectionIsAsShown
<1>3. CASE ~(own = 0 \/ remote = "empty")
  <2> DEFINE r == Opened(remote)
  <2>1. Shown(r, "opened", "Disconnect")
    BY <1>3 DEF Connect
  <2>2. CASE r.errcode = {}
    BY <2>1, <2>2, OpenedIsOpen DEF Shown, Error, lastActionSuccessful, WindowInv, ConnectionIsAsShown
  <2>3. CASE r.errcode # {}
    <3>1. sock' # "open"
      BY <1>1, <2>1, <2>3 DEF Shown, Opened
    <3>2. log' = {"error"} /\ buttons' = buttons
      BY <2>1, <2>3 DEF Shown, Error, lastActionSuccessful
    <3> QED
      BY <1>1, <3>1, <3>2 DEF WindowInv, ConnectionIsAsShown
  <2> QED
    BY <2>2, <2>3
<1> QED
  BY <1>2, <1>3

LEMMA DisconnectKeeps ==
    ASSUME WindowInv, Disconnect
    PROVE  WindowInv'
<1>1. buttons = {"Disconnect"} /\ (~CloseMayFail => sock = "open")
  BY DEF WindowInv, ConnectionIsAsShown, Disconnect
<1>2. PICK fails \in {sock = "closed", sock = "closed" \/ CloseMayFail} :
         Shown(Closed(fails), "closed", "Connect")
  BY DEF Disconnect
<1>3. sock' = "none"
  BY <1>2 DEF Shown, Closed
<1>4. CASE Closed(fails).errcode = {}
  BY <1>2, <1>3, <1>4 DEF Shown, Error, lastActionSuccessful, WindowInv, ConnectionIsAsShown
<1>5. CASE Closed(fails).errcode # {}
  <2>1. CloseMayFail
    BY <1>1, <1>5, GuiAssumption DEF Closed, deviceIsOpen
  <2>2. log' = {"error"} /\ buttons' = buttons
    BY <1>2, <1>5 DEF Shown, Error, lastActionSuccessful
  <2> QED
    BY <1>1, <1>3, <2>1, <2>2 DEF WindowInv, ConnectionIsAsShown
<1> QED
  BY <1>4, <1>5

\* No other slot has anything to do with the socket.
LEMMA OthersKeep ==
    ASSUME WindowInv, UNCHANGED <<sock, buttons>>, "opened" \notin log', "closed" \notin log'
    PROVE  WindowInv'
  BY DEF WindowInv, ConnectionIsAsShown

LEMMA StepKeepsWindow ==
    ASSUME WindowInv, [Next]_vars
    PROVE  WindowInv'
<1>1. ASSUME NEW remote \in {"empty", "bad", "good"}, Connect(remote) PROVE WindowInv'
  BY <1>1, ConnectKeeps
<1>2. CASE Disconnect
  BY <1>2, DisconnectKeeps
<1>3. CASE RefreshOwnIP \/ ChooseOwnIP \/ DMAclear \/ DaqWord \/ HostChanges
  BY <1>3, OthersKeep DEF RefreshOwnIP, ChooseOwnIP, DMAclear, DaqWord, HostChanges, view
<1>4. ASSUME NEW luck \in Lucks, Ping(luck) PROVE WindowInv'
  BY <1>4, OthersKeep DEF Ping, view
<1>5. ASSUME NEW luck \in Lucks, NEW a \in Addresses, RegisterRead(a, luck) PROVE WindowInv'
  <2>1. UNCHANGED <<sock, buttons>> /\ log' \in {{"error", "Register read failed!"}, {}}
    BY <1>5 DEF RegisterRead
  <2> QED
    BY <2>1, OthersKeep
<1>6. ASSUME NEW luck \in Lucks, NEW a \in Addresses, NEW v, RegisterWrite(a, v, luck)
      PROVE WindowInv'
  <2>1. UNCHANGED <<sock, buttons>> /\ log' \in {{"error", "Register write failed!"}, {}}
    BY <1>6 DEF RegisterWrite
  <2> QED
    BY <2>1, OthersKeep
<1>7. ASSUME NEW luck \in Lucks, NEW n \in 1..2, NEW ready \in InitReadout, DMAread(n, ready, luck)
      PROVE WindowInv'
  <2>1. UNCHANGED <<sock, buttons>> /\ log' = {}
    BY <1>7 DEF DMAread
  <2> QED
    BY <2>1, OthersKeep
<1>8. CASE UNCHANGED vars
  BY <1>8 DEF vars, view, WindowInv, ConnectionIsAsShown
<1> QED
  BY <1>1, <1>2, <1>3, <1>4, <1>5, <1>6, <1>7, <1>8 DEF Next

\* What the window says of the connection is so: it says "opened" only of a
\* socket that can be used and "closed" only of none, and as long as close()
\* has not failed the Disconnect button is there as long as the socket that was
\* opened is (Connect, Disconnect, Error).
THEOREM WindowTellsTheTruth == Spec => []ConnectionIsAsShown
<1>1. WindowInv => ConnectionIsAsShown
  BY DEF WindowInv
<1> QED
  BY <1>1, InitWindow, StepKeepsWindow, PTL DEF Spec

-----------------------------------------------------------------------------
(***************************************************************************)
(* The list of a readout.                                                  *)
(***************************************************************************)
Word == SUBSET Nat
Fields == {"open", "errcode", "regs", "ret", "n", "data", "log", "luck", "rb", "buf", "fifo"}

\* The device has its fields, and sequences of words wait in the board.
DeviceInv == DOMAIN dev = Fields /\ dev.fifo \in Seq(Word)

\* The front of a sequence and the rest of it.
LEMMA FrontAndRest ==
    ASSUME NEW S, NEW q \in Seq(S), NEW k \in 0..Len(q)
    PROVE  /\ SubSeq(q, 1, k) \in Seq(S) /\ Len(SubSeq(q, 1, k)) = k
           /\ SubSeq(q, k + 1, Len(q)) \in Seq(S)
           /\ q = SubSeq(q, 1, k) \o SubSeq(q, k + 1, Len(q))
<1> DEFINE Taken == SubSeq(q, 1, k)
           Left == SubSeq(q, k + 1, Len(q))
<1>1. Len(q) \in Nat /\ \A i \in 1..Len(q) : q[i] \in S
  BY LenProperties, ElementOfSeq
<1>2. 1 \in Int /\ k \in Int /\ k + 1 \in Int /\ Len(q) \in Int
      /\ (\A i \in 1..k : q[i] \in S) /\ (\A i \in k + 1..Len(q) : q[i] \in S)
  BY <1>1
<1>3. Taken \in Seq(S) /\ Len(Taken) = IF 1 <= k THEN k - 1 + 1 ELSE 0
  BY <1>2, SubSeqProperties
<1>4. Left \in Seq(S)
  BY <1>2, SubSeqProperties
<1>5. Taken \o Left = SubSeq(q, 1, Len(q))
  <2>1. 1 \in 1..Len(q) + 1 /\ k \in 1 - 1..Len(q) /\ Len(q) \in k..Len(q)
    BY <1>1
  <2> QED
    BY <2>1, ConcatAdjacentSubSeq
<1>6. SubSeq(q, 1, Len(q)) = q
  BY SubSeqFull
<1>7. Len(Taken) = k
  BY <1>1, <1>3
<1> HIDE DEF Taken, Left
<1> QED
  BY <1>3, <1>4, <1>5, <1>6, <1>7 DEF Taken, Left

\* An answer put into an empty stream, cut to its length and listed without its header, is
\* the words in the answer.
LEMMA ListOfAnswer ==
    ASSUME NEW words \in Seq(Word), NEW old \in Seq(Word), NEW k \in Nat, Len(words) = k
    PROVE  Listed(Grown(SubSeq(old, 1, 0) \o (<<Header>> \o words) \o SubSeq(old, 0 + k + 2, Len(old)),
                        0 + k + 1)) = words
<1> DEFINE answer == <<Header>> \o words
           rest == SubSeq(old, 0 + k + 2, Len(old))
           whole == SubSeq(old, 1, 0) \o answer \o rest
           cut == Grown(whole, 0 + k + 1)
<1>1. <<Header>> \in Seq(Word) /\ Len(<<Header>>) = 1 /\ <<Header>>[1] = Header
  BY DEF Word, Header
<1>2. /\ answer \in Seq(Word) /\ Len(answer) = k + 1
      /\ \A i \in 1..k : answer[i + 1] = words[i]
  BY <1>1, ConcatProperties
<1>3. SubSeq(old, 1, 0) = <<>>
  BY SubSeqEmpty
<1>4. rest \in Seq(Word)
  <2>1. Len(old) \in Nat /\ \A i \in 1..Len(old) : old[i] \in Word
    BY LenProperties, ElementOfSeq
  <2>2. \A i \in 0 + k + 2..Len(old) : old[i] \in Word
    BY <2>1
  <2> QED
    BY <2>1, <2>2, SubSeqProperties
<1>5. whole = answer \o rest
  BY <1>2, <1>3, ConcatEmptySeq
<1>6. /\ Len(whole) = k + 1 + Len(rest) /\ Len(rest) \in Nat
      /\ \A i \in 1..k + 1 : whole[i] = answer[i]
  <2>1. Len(rest) \in Nat
    BY <1>4, LenProperties
  <2>2. /\ Len(answer \o rest) = Len(answer) + Len(rest)
        /\ \A i \in 1..Len(answer) + Len(rest) :
              (answer \o rest)[i] = IF i <= Len(answer) THEN answer[i] ELSE rest[i - Len(answer)]
    <3> HIDE DEF answer, rest
    <3> QED
      BY <1>2, <1>4, ConcatProperties
  <2> HIDE DEF answer, rest, whole
  <2> QED
    BY <1>2, <1>5, <2>1, <2>2
<1> HIDE DEF answer, rest, whole
<1>7. cut = [j \in 1..k + 1 |-> answer[j]]
  BY <1>6 DEF Grown
<1>8. cut = answer
  BY <1>2, <1>7, LenProperties
<1>9. Listed(answer) = SubSeq(answer, 2, k + 1)
  BY <1>2 DEF Listed
<1>10. /\ SubSeq(answer, 2, k + 1) \in Seq(Word) /\ Len(SubSeq(answer, 2, k + 1)) = k
       /\ \A i \in 1..k : SubSeq(answer, 2, k + 1)[i] = answer[i + 1]
  <2>1. \A i \in 2..k + 1 : answer[i] \in Word
    BY <1>2, ElementOfSeq
  <2>2. /\ SubSeq(answer, 2, k + 1) \in Seq(Word)
        /\ Len(SubSeq(answer, 2, k + 1)) = IF 2 <= k + 1 THEN k + 1 - 2 + 1 ELSE 0
        /\ \A i \in 1..k + 1 - 2 + 1 : SubSeq(answer, 2, k + 1)[i] = answer[2 + i - 1]
    BY <2>1, SubSeqProperties
  <2> QED
    BY <2>2
<1>11. SubSeq(answer, 2, k + 1) = words
  BY <1>2, <1>10, SeqEqual
<1> QED
  BY <1>8, <1>9, <1>11 DEF answer, rest, whole

\* A readout with truncate takes from the board what it puts behind the header, and
\* nothing is left in the buffer of one that fails.
LEMMA ReadoutTakesFront ==
    ASSUME NEW d, DOMAIN d = Fields, d.fifo \in Seq(Word), d.buf = <<>>,
           NEW n \in Nat \ {0}, NEW ready
    PROVE  LET r == readOutputBuffer(d, n, 0, TRUE, ready)
           IN  /\ DOMAIN r = Fields /\ r.fifo \in Seq(Word)
               /\ Listed(r.buf) # <<>> => d.fifo = Listed(r.buf) \o r.fifo
<1> DEFINE r == readOutputBuffer(d, n, 0, TRUE, ready)
           room == [d EXCEPT !.buf = IF Len(@) < 0 + n + 1 THEN Grown(@, 0 + n + 1) ELSE @, !.n = 0]
           lim == IF n > MAX_BLOCKS_PER_UDP_PACKAGE THEN MAX_BLOCKS_PER_UDP_PACKAGE ELSE n
           taken == BulkReadTarget(lim, Len(d.fifo))
           b == bulk(room, n, 0)
           got == doReadout(room, n, 0)
<1>1. Listed(<<>>) = <<>>
  <2>1. Len(<<>>) = 0
    OBVIOUS
  <2> QED
    BY <2>1, SubSeqEmpty DEF Listed
<1>2. /\ DOMAIN room = Fields /\ room.fifo = d.fifo /\ room.open = d.open
      /\ room.buf \in Seq(Word)
  <2>1. room.buf = Grown(<<>>, n + 1)
    BY DEF Fields
  <2>2. Grown(<<>>, n + 1) = [j \in 1..n + 1 |-> {}]
    BY DEF Grown
  <2>3. [j \in 1..n + 1 |-> {}] \in Seq(Word)
    BY DEF Word
  <2> QED
    BY <2>1, <2>2, <2>3 DEF Fields
<1>3. taken \in 0..Len(d.fifo)
  BY MaxBlkAssumption, LenProperties DEF BulkReadTarget, MAX_BLOCKS_PER_UDP_PACKAGE
<1> HIDE DEF room, taken
<1>4. /\ DOMAIN b = Fields
      /\ b.fifo = IF BoardGets(room) THEN SubSeq(d.fifo, taken + 1, Len(d.fifo)) ELSE d.fifo
      /\ b.buf = IF Answered(room)
                 THEN SubSeq(room.buf, 1, 0) \o (<<Header>> \o SubSeq(d.fifo, 1, taken))
                         \o SubSeq(room.buf, 0 + taken + 2, Len(room.buf))
                 ELSE room.buf
      /\ Answered(room) => b.n = taken
      /\ b.errcode = {} => Answered(room)
  BY <1>2 DEF bulk, Fields, taken
<1> DEFINE f == d.fifo
           front == SubSeq(f, 1, taken)
           rest == SubSeq(f, taken + 1, Len(f))
<1>11. /\ front \in Seq(Word) /\ Len(front) = taken /\ rest \in Seq(Word)
      /\ f = front \o rest /\ taken \in Nat
  <2>1. f \in Seq(Word) /\ taken \in 0..Len(f) /\ Len(f) \in Nat
    BY <1>3, LenProperties
  <2>2. taken \in Nat
    BY <2>1
  <2> HIDE DEF f
  <2> QED
    BY <2>1, <2>2, FrontAndRest, Zenon
<1>5. b.fifo \in Seq(Word)
  <2>1. b.fifo = IF BoardGets(room) THEN rest ELSE f
    BY <1>4
  <2> HIDE DEF f, rest
  <2> QED
    BY <1>11, <2>1 DEF f
<1> HIDE DEF b
<1>6. /\ DOMAIN got = Fields /\ got.fifo = b.fifo /\ got.buf = b.buf /\ got.n = b.n
      /\ got.errcode = b.errcode
  BY <1>4 DEF doReadout, RbFails, Fields, b
<1> HIDE DEF got
<1>7. CASE ~d.open
  <2>1. r = [RbFails(d, {"device_not_open"}) EXCEPT !.n = 0]
    BY <1>7 DEF readOutputBuffer
  <2>2. DOMAIN r = Fields /\ r.fifo = d.fifo /\ r.buf = <<>>
    BY <2>1 DEF RbFails, Fields
  <2> QED
    BY <1>1, <2>2
<1>8. CASE d.open /\ ready < 0
  <2>1. r = [RbFails(room, {"read_failed"}) EXCEPT !.buf = <<>>, !.n = 0]
    BY <1>8 DEF readOutputBuffer, room
  <2>2. DOMAIN r = Fields /\ r.fifo = d.fifo /\ r.buf = <<>>
    BY <1>2, <2>1 DEF RbFails, Fields
  <2> QED
    BY <1>1, <2>2
<1>9. CASE d.open /\ ~(ready < 0) /\ got.errcode # {}
  <2>1. r = [got EXCEPT !.buf = <<>>, !.n = 0]
    BY <1>9 DEF readOutputBuffer, room, got, lastActionSuccessful
  <2>2. DOMAIN r = Fields /\ r.fifo = b.fifo /\ r.buf = <<>>
    BY <1>6, <2>1 DEF Fields
  <2> QED
    BY <1>1, <1>5, <2>2
<1>10. CASE d.open /\ ~(ready < 0) /\ got.errcode = {}
  <2>1. r = [got EXCEPT !.buf = Grown(@, 0 + got.n + 1)]
    BY <1>10 DEF readOutputBuffer, room, got, lastActionSuccessful
  <2>2. Answered(room) /\ BoardGets(room)
    BY <1>4, <1>6, <1>10 DEF Answered, BoardGets
  <2>3. DOMAIN r = Fields /\ r.fifo = b.fifo /\ r.buf = Grown(got.buf, 0 + taken + 1)
    BY <1>4, <1>6, <2>1, <2>2 DEF Fields
  <2>4. got.buf = SubSeq(room.buf, 1, 0) \o (<<Header>> \o front)
                    \o SubSeq(room.buf, 0 + taken + 2, Len(room.buf))
    BY <1>4, <1>6, <2>2
  <2>5. r.fifo = rest
    BY <1>4, <2>2, <2>3
  <2> HIDE DEF f, front, rest, r
  <2>6. Listed(r.buf) = front
    BY <1>2, <1>11, <2>3, <2>4, ListOfAnswer
  <2> QED
    BY <1>11, <2>3, <2>5, <2>6 DEF f, r
<1> QED
  BY <1>7, <1>8, <1>9, <1>10

\* What a register call does to the device.
LEMMA CallsKeepFields ==
    ASSUME NEW d, DOMAIN d = Fields, NEW a, NEW v
    PROVE  /\ DOMAIN read(d, a) = Fields /\ read(d, a).fifo = d.fifo
           /\ DOMAIN write(d, a, v) = Fields /\ write(d, a, v).fifo = d.fifo
  BY DEF read, write, Fields

LEMMA BegunAndEnded ==
    ASSUME DeviceInv, NEW luck, NEW d, DOMAIN d = Fields
    PROVE  /\ DOMAIN Begun(luck) = Fields /\ Begun(luck).fifo = dev.fifo
           /\ DOMAIN Ended(d) = Fields /\ Ended(d).fifo = d.fifo
  BY DEF DeviceInv, Begun, Ended, Fields

LEMMA InitDevice == Init => DeviceInv
<1> SUFFICES ASSUME Init PROVE DeviceInv
  OBVIOUS
<1>1. DOMAIN dev = Fields /\ dev.fifo = <<>>
  BY DEF Init, Fields
<1> QED
  BY <1>1, EmptySeq DEF DeviceInv

\* A readout lists the front of the fifo and leaves the rest.
LEMMA ReadListsFront ==
    ASSUME DeviceInv, NEW n \in 1..2, NEW ready, NEW luck, DMAread(n, ready, luck)
    PROVE  DeviceInv' /\ (lines' # <<>> => dev.fifo = lines' \o dev'.fifo)
<1> DEFINE d == [Begun(luck) EXCEPT !.buf = <<>>]
           r == readOutputBuffer(d, n, 0, TRUE, ready)
<1>1. DOMAIN d = Fields /\ d.fifo = dev.fifo /\ d.buf = <<>>
  BY BegunAndEnded DEF DeviceInv, Fields
<1>2. dev' = [Ended(r) EXCEPT !.buf = <<>>] /\ lines' = Listed(r.buf)
  BY DEF DMAread
<1> HIDE DEF d
<1>3. /\ DOMAIN r = Fields /\ r.fifo \in Seq(Word)
      /\ Listed(r.buf) # <<>> => d.fifo = Listed(r.buf) \o r.fifo
  <2>1. n \in Nat \ {0} /\ d.fifo \in Seq(Word)
    BY <1>1 DEF DeviceInv
  <2> QED
    BY <1>1, <2>1, ReadoutTakesFront
<1> HIDE DEF r
<1>4. DOMAIN dev' = Fields /\ dev'.fifo = r.fifo
  BY <1>2, <1>3, BegunAndEnded DEF Fields
<1> QED
  BY <1>1, <1>2, <1>3, <1>4 DEF DeviceInv

LEMMA StepKeepsDevice ==
    ASSUME DeviceInv, [Next]_vars
    PROVE  /\ DeviceInv'
           /\ vars' = vars \/ (last'[1] = "DMAread" /\ lines' # <<>> => dev.fifo = lines' \o dev'.fifo)
<1> DEFINE Taken == last'[1] = "DMAread" /\ lines' # <<>> => dev.fifo = lines' \o dev'.fifo
<1>1. ASSUME DOMAIN dev' = Fields, dev'.fifo = dev.fifo PROVE DeviceInv'
  BY <1>1 DEF DeviceInv
<1>2. ASSUME NEW e PROVE LET d == [dev EXCEPT !.errcode = e] IN DOMAIN d = Fields /\ d.fifo = dev.fifo
  BY DEF DeviceInv, Fields
<1>3. ASSUME NEW remote, Connect(remote) PROVE DeviceInv' /\ Taken
  <2>1. last' = <<"Connect">>
    BY <1>3 DEF Connect
  <2>2. dev' = dev \/ \E e : dev' = [dev EXCEPT !.errcode = e]
    BY <1>3 DEF Connect, Shown
  <2> QED
    BY <1>1, <1>2, <2>1, <2>2 DEF DeviceInv
<1>4. CASE Disconnect
  <2>1. last' = <<"Disconnect">> /\ \E e : dev' = [dev EXCEPT !.errcode = e]
    BY <1>4 DEF Disconnect, Shown
  <2> QED
    BY <1>1, <1>2, <2>1
<1>5. CASE RefreshOwnIP \/ ChooseOwnIP \/ DMAclear \/ HostChanges
  <2>1. dev' = dev /\ last' \in {<<"RefreshOwnIP">>, <<"ChooseOwnIP">>, <<"DMAclear">>, <<"HostChanges">>}
    BY <1>5 DEF RefreshOwnIP, ChooseOwnIP, DMAclear, HostChanges
  <2> QED
    BY <1>1, <2>1 DEF DeviceInv
<1>6. CASE DaqWord
  <2>1. PICK w \in 1..2 : dev' = [dev EXCEPT !.fifo = Append(@, {w})]
    BY <1>6 DEF DaqWord
  <2>2. DOMAIN dev' = Fields /\ dev'.fifo = Append(dev.fifo, {w}) /\ {w} \in Word
    BY <2>1 DEF DeviceInv, Fields, Word
  <2>3. last' = <<"DaqWord">>
    BY <1>6 DEF DaqWord
  <2> QED
    BY <2>2, <2>3 DEF DeviceInv
<1>7. ASSUME NEW luck, Ping(luck) PROVE DeviceInv' /\ Taken
  <2>1. last' = <<"Ping">> /\ (dev' = dev \/ \E e : dev' = [dev EXCEPT !.errcode = e])
    BY <1>7 DEF Ping
  <2> QED
    BY <1>1, <1>2, <2>1 DEF DeviceInv
<1>8. ASSUME NEW luck, NEW a, RegisterRead(a, luck) PROVE DeviceInv' /\ Taken
  <2>1. dev' = Ended(read(Begun(luck), a)) /\ last'[1] = "RegisterRead"
    BY <1>8 DEF RegisterRead
  <2> QED
    BY <1>1, <2>1, BegunAndEnded, CallsKeepFields DEF DeviceInv
<1>9. ASSUME NEW luck, NEW a, NEW v, RegisterWrite(a, v, luck) PROVE DeviceInv' /\ Taken
  <2>1. dev' = Ended(write(Begun(luck), a, v)) /\ last'[1] = "RegisterWrite"
    BY <1>9 DEF RegisterWrite
  <2> QED
    BY <1>1, <2>1, BegunAndEnded, CallsKeepFields DEF DeviceInv
<1>10. CASE UNCHANGED vars
  BY <1>10 DEF vars, view, DeviceInv
<1> QED
  BY <1>3, <1>4, <1>5, <1>6, <1>7, <1>8, <1>9, <1>10, ReadListsFront DEF Next

\* The words listed after a read are the first of the board's fifo, all that
\* were taken from it, in order (DMAread, readOutputBuffer, doIoctl).
THEOREM ListIsFront == Spec => ListIsFifoFront
<1>1. DeviceInv /\ [Next]_vars
        => [last'[1] = "DMAread" /\ lines' # <<>> => dev.fifo = lines' \o dev'.fifo]_vars
  BY StepKeepsDevice
<1>2. DeviceInv /\ [Next]_vars => DeviceInv'
  BY StepKeepsDevice
<1> QED
  BY <1>1, <1>2, InitDevice, PTL DEF Spec, ListIsFifoFront
=============================================================================
