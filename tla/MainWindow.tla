----------------------------- MODULE MainWindow -----------------------------
(***************************************************************************)
(* The configuration software (MainWindow): what its buttons do with the   *)
(* device and what the user sees of it. The device is the one of MrfTal;   *)
(* the slots run one after the other in the event loop, so that each is    *)
(* one step.                                                               *)
(***************************************************************************)
EXTENDS MrfTal, FiniteSets

CONSTANTS
    Addresses,     \* registers the user reads and writes
    Interfaces,    \* IP addresses the PC may have, as numbers: their order
    HostsChange,   \* the PC may lose and get addresses
    CloseMayFail,  \* close() may fail
    Lucks,         \* what may become of the exchanges of a slot
    MaxFifo        \* bound: DAQ words that wait in the board

ASSUME GuiAssumption ==
    Interfaces \subseteq Nat \ {0} /\ HostsChange \in BOOLEAN /\ CloseMayFail \in BOOLEAN

VARIABLES
    dev,      \* the device, as in MrfTal
    sock,     \* _UDPsocket: "none" (-1), "open", or "closed" with its number kept
    hosts,    \* external: the addresses of the PC
    list,     \* comboBox_ownIPAdresses
    own,      \* its current text; 0 if it is empty
    buttons,  \* the enabled ones of Connect and Disconnect
    log,      \* the messages of the last slot
    value,    \* lineEdit_registerValue
    lines,    \* textEdit_DMAoutput
    count,    \* label_DMAwordcount
    last      \* history: the last slot, and whether its exchanges went well

view == <<list, own, buttons, value, lines, count>>
vars == <<dev, sock, hosts, view, log, last>>

deviceIsOpen == sock # "none"

\* The device at the beginning of a call: sendto() fails on a closed socket.
Begun(luck) ==
    [dev EXCEPT !.open = deviceIsOpen, !.log = <<>>,
                !.luck = IF sock = "closed" THEN <<"not_sent", "not_sent">> ELSE luck]
\* At its end: what no slot looks at is dropped.
Ended(d) == [d EXCEPT !.luck = <<>>, !.log = <<>>, !.n = 0, !.ret = {}, !.rb = {}]
Error(d) == ~lastActionSuccessful(d)
Least(S) == CHOOSE x \in S : \A y \in S : x <= y

-----------------------------------------------------------------------------
\* openDevice(): bind() fails for an address the PC does not have any more.
Opened(remote) ==
    IF deviceIsOpen THEN [sock |-> sock, errcode |-> dev.errcode \cup {"already_open"}]
    ELSE IF remote # "good" THEN [sock |-> "none", errcode |-> dev.errcode \cup {"open_failed"}]
    ELSE IF own \notin hosts THEN [sock |-> "closed", errcode |-> dev.errcode \cup {"open_failed"}]
    ELSE [sock |-> "open", errcode |-> {}]

\* closeDevice(): the number is gone even if close() fails.
Closed(fails) ==
    [sock |-> "none",
     errcode |-> IF ~deviceIsOpen THEN dev.errcode \cup {"device_not_open"}
                 ELSE IF fails THEN dev.errcode \cup {"close_failed"} ELSE {}]

\* Mutated: the buttons change whatever Error() says.
Shown_Always(r, message, pressed) ==
    /\ sock' = r.sock /\ dev' = [dev EXCEPT !.errcode = r.errcode]
    /\ log' = {message} /\ buttons' = {pressed}

\* A slot that has opened or closed the device says so and changes the buttons.
Shown(r, message, pressed) ==
    /\ sock' = r.sock /\ dev' = [dev EXCEPT !.errcode = r.errcode]
    /\ IF Error(r) THEN log' = {"error"} /\ UNCHANGED buttons
       ELSE log' = {message} /\ buttons' = {pressed}

Connect(remote) ==
    /\ "Connect" \in buttons
    /\ IF own = 0 \/ remote = "empty"
       THEN log' = {"field is empty"} /\ UNCHANGED <<dev, sock, buttons>>
       ELSE Shown(Opened(remote), "opened", "Disconnect")
    /\ last' = <<"Connect">> /\ UNCHANGED <<hosts, list, own, value, lines, count>>

Disconnect ==
    /\ "Disconnect" \in buttons
    /\ \E fails \in {sock = "closed", sock = "closed" \/ CloseMayFail} :
          Shown(Closed(fails), "closed", "Connect")
    /\ last' = <<"Disconnect">> /\ UNCHANGED <<hosts, list, own, value, lines, count>>

\* refreshOwnIP: the old choice stays if it is still there, or the first of the
\* list is chosen.
RefreshOwnIP ==
    /\ list' = hosts
    /\ own' = IF own \in hosts THEN own ELSE IF hosts = {} THEN 0 ELSE Least(hosts)
    /\ log' = {} /\ last' = <<"RefreshOwnIP">>
    /\ UNCHANGED <<dev, sock, hosts, buttons, value, lines, count>>
ChooseOwnIP ==
    /\ own' \in list /\ log' = {} /\ last' = <<"ChooseOwnIP">>
    /\ UNCHANGED <<dev, sock, hosts, list, buttons, value, lines, count>>

\* Ping shows a picture, which no other slot looks at; a request that cannot be
\* sent leaves its error behind.
Ping(luck) ==
    /\ dev' = IF deviceIsOpen /\ SendFails(Begun(luck))
              THEN [dev EXCEPT !.errcode = @ \cup {"write_failed"}] ELSE dev
    /\ log' = {} /\ last' = <<"Ping">>
    /\ UNCHANGED <<sock, hosts, view>>

\* A call on a device that is not open is a call that cannot be sent.
RegisterRead(a, luck) ==
    /\ LET r == read(Begun(luck), a) IN dev' = Ended(r) /\ value' = r.ret
    /\ log' = IF Error(dev') THEN {"error", "Register read failed!"} ELSE {}
    /\ last' = <<"RegisterRead", luck = <<>>>>
    /\ UNCHANGED <<sock, hosts, list, own, buttons, lines, count>>

RegisterWrite(a, v, luck) ==
    /\ dev' = Ended(write(Begun(luck), a, v))
    /\ value' = v
    /\ log' = IF Error(dev') THEN {"error", "Register write failed!"} ELSE {}
    /\ last' = <<"RegisterWrite", luck = <<>>>>
    /\ UNCHANGED <<sock, hosts, list, own, buttons, lines, count>>

\* Mutated: the words are listed from the first on.
Listed_All(words) == words

\* The first word of the stream is the header of the answer.
Listed(words) == SubSeq(words, 2, Len(words))

\* The count is unsigned: the number before 0 is the largest, here -1.
DMAread(n, ready, luck) ==
    LET r == readOutputBuffer([Begun(luck) EXCEPT !.buf = <<>>], n, 0, TRUE, ready)
    IN  /\ dev' = [Ended(r) EXCEPT !.buf = <<>>]
        /\ count' = Len(r.buf) - 1
        /\ lines' = Listed(r.buf)
        /\ log' = {} /\ last' = <<"DMAread">>
        /\ UNCHANGED <<sock, hosts, list, own, buttons, value>>
DMAclear ==
    /\ lines' = <<>> /\ log' = {} /\ last' = <<"DMAclear">>
    /\ UNCHANGED <<dev, sock, hosts, list, own, buttons, value, count>>

\* External: a DAQ word comes in, the PC gets or loses an address.
DaqWord ==
    /\ Len(dev.fifo) < MaxFifo
    /\ \E w \in 1..2 : dev' = [dev EXCEPT !.fifo = Append(@, {w})]
    /\ last' = <<"DaqWord">> /\ log' = {} /\ UNCHANGED <<sock, hosts, view>>
HostChanges ==
    /\ HostsChange /\ hosts' \in SUBSET Interfaces
    /\ last' = <<"HostChanges">> /\ log' = {} /\ UNCHANGED <<dev, sock, view>>

Init ==
    /\ dev = [open |-> FALSE, errcode |-> {}, regs |-> [a \in Addresses |-> {}], ret |-> {},
              n |-> 0, data |-> <<>>, log |-> <<>>, luck |-> <<>>,
              rb |-> {}, buf |-> <<>>, fifo |-> <<>>]
    /\ sock = "none" /\ hosts \in SUBSET Interfaces
    /\ list = hosts /\ own = IF hosts = {} THEN 0 ELSE Least(hosts)
    /\ buttons = {"Connect"}
    /\ log = {} /\ value = {} /\ lines = <<>> /\ count = 0 /\ last = <<"none">>

Next ==
    \/ \E remote \in {"empty", "bad", "good"} : Connect(remote)
    \/ Disconnect \/ RefreshOwnIP \/ ChooseOwnIP \/ DMAclear \/ DaqWord \/ HostChanges
    \/ \E luck \in Lucks :
          \/ Ping(luck)
          \/ \E a \in Addresses : RegisterRead(a, luck)
          \/ \E a \in Addresses, v \in {{}, Bits} : RegisterWrite(a, v, luck)
          \/ \E n \in 1..2, ready \in InitReadout : DMAread(n, ready, luck)
Spec == Init /\ [][Next]_vars

-----------------------------------------------------------------------------
\* What the window says of the connection is so: it says "opened" only of a
\* socket that can be used and "closed" only of none, and as long as close()
\* has not failed the Disconnect button is there as long as the socket that was
\* opened is (Connect, Disconnect, Error).
ConnectionIsAsShown ==
    /\ "opened" \in log => sock = "open"
    /\ "closed" \in log => sock = "none"
    /\ sock = "open" => buttons = {"Disconnect"}
    /\ ~CloseMayFail => ("Disconnect" \in buttons => sock = "open")

\* The words listed after a read are the first of the board's fifo, all that
\* were taken from it, in order (DMAread, readOutputBuffer).
ListIsFifoFront ==
    [][last'[1] = "DMAread" /\ lines' # <<>> => dev.fifo = lines' \o dev'.fifo]_vars

\* The number in front of "words read" is the number of words listed.
CountIsWordsRead == last[1] = "DMAread" => count = Len(lines)

\* "Register write failed!" is logged of a write that failed.
WriteMessageIsTrue ==
    [][last'[1] = "RegisterWrite" /\ sock = "open" /\ last'[2]
         => "Register write failed!" \notin log']_vars
=============================================================================
