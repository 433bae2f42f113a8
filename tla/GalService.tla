----------------------------- MODULE GalService -----------------------------
(***************************************************************************)
(* What the generic access layer promises its caller: a call happens at    *)
(* once, and the board has what GalUdpCalls says it has, whatever becomes  *)
(* of the datagrams behind it.  MrfGalUdp implements this module as long   *)
(* as no answer comes after the timeout.                                   *)
(***************************************************************************)
EXTENDS GalUdpCalls

CONSTANTS Calls,      \* the calls the program makes: records op, addr, val, data
          Addr,       \* the registers of the board
          MaxLuck,    \* exchanges of one call that may go wrong
          MaxWords    \* words of one block read

VARIABLE dev

NoReturn(d) == [d EXCEPT !.ret = {}, !.n = 0, !.data = <<>>, !.log = <<>>, !.luck = <<>>]

\* A device after a call, with only what that call returns.
Shows(d, op) ==
    [NoReturn(d) EXCEPT
        !.log = d.log,
        !.ret = IF op = "read" THEN d.ret ELSE {},
        !.data = IF op = "readData" THEN d.data ELSE <<>>,
        !.n = IF op \in {"writeData", "readData", "bulk", "ping"} THEN d.n ELSE 0]

Do(d, c) ==
    CASE c.op = "read"      -> read(d, c.addr)
      [] c.op = "write"     -> write(d, c.addr, c.val)
      [] c.op = "or"        -> writeOr(d, c.addr, c.val)
      [] c.op = "and"       -> writeAnd(d, c.addr, c.val)
      [] c.op = "xor"       -> writeXor(d, c.addr, c.val)
      [] c.op = "writeData" -> writeData(d, c.addr, c.data)
      [] c.op = "readData"  -> readData(d, c.addr, Len(c.data))
      [] c.op = "ping"      -> deviceIsOnline(d)

\* How many words a block read finds in the board is not up to the caller.
Limit(c) == IF Len(c.data) > MaxWords THEN MaxWords ELSE Len(c.data)
Outcomes(d, c) ==
    IF c.op = "bulk" THEN {doIoctl(d, Limit(c), taken) : taken \in 0..Limit(c)}
    ELSE {Do(d, c)}

Call(c, luck) ==
    \E d \in Outcomes([NoReturn(dev) EXCEPT !.luck = luck], c) : dev' = Shows(d, c.op)

Reports(errcode, open) ==
    dev' = [NoReturn(dev) EXCEPT !.open = open, !.errcode = errcode]

\* openDevice() may fail and count as open all the same.
Open ==
    \/ dev.open /\ Reports(dev.errcode \cup {"already_open"}, TRUE)
    \/ ~dev.open /\ Reports({}, TRUE)
    \/ ~dev.open /\ \E open \in BOOLEAN : Reports(dev.errcode \cup {"open_failed"}, open)

\* closeDevice() leaves the device closed in any case.
Close ==
    \/ ~dev.open /\ Reports(dev.errcode \cup {"device_not_open"}, FALSE)
    \/ dev.open /\ Reports({}, FALSE)
    \/ dev.open /\ Reports(dev.errcode \cup {"close_failed"}, FALSE)

Init ==
    \E regs \in [Addr -> SUBSET Bits] :
        dev = [open |-> FALSE, errcode |-> {}, regs |-> regs, ret |-> {}, n |-> 0,
               data |-> <<>>, log |-> <<>>, luck |-> <<>>]

Luck == UNION {[1..k -> Fate] : k \in 0..MaxLuck}

Next ==
    \/ dev' = NoReturn(dev)   \* the caller has what it asked for
    \/ Open
    \/ Close
    \/ \E c \in Calls, luck \in Luck : Call(c, luck)

Spec == Init /\ [][Next]_dev
=============================================================================
