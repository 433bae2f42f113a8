---------------------------- MODULE GalUdpCalls ----------------------------
(***************************************************************************)
(* The calls of the generic access layer over UDP (TMrfGal_Udp and the     *)
(* functions it inherits from TMrfGal) as their caller sees them: each one *)
(* a function from the device before the call to the device after it.      *)
(*                                                                         *)
(* A device is a record:                                                   *)
(*   open     whether _UDPsocket is a socket that can be used;             *)
(*   errcode  the set of error flags (the code keeps their binary OR);     *)
(*   regs     the registers of the board, a value being the set of the     *)
(*            bits that are set, so that {} is the number 0;               *)
(*   ret      the register value a call returns;                           *)
(*   n        the number of words, or the truth value as 0 or 1;           *)
(*   data     the words readData() puts into its TMrfData;                 *)
(*   log      history: the writes the board carried out, in their order;   *)
(*   luck     what becomes of the datagrams the call exchanges, one entry  *)
(*            per exchange; an exchange without an entry goes well.        *)
(*                                                                         *)
(* No answer comes later than the timeout here: MrfGalUdp has the network  *)
(* and shows when the driver keeps to these operators.                     *)
(***************************************************************************)
EXTENDS Naturals, Sequences, SequencesExt

CONSTANT Bits   \* the bits of a register

\* mrf_error: "success" is the empty set of flags.
ErrorFlag == {"open_failed", "close_failed", "device_not_open", "read_failed",
              "write_failed", "ioctl_failed", "already_open", "read_data_failed",
              "write_data_failed", "invalid_request", "read_device_failed"}

\* What becomes of a request and its answer: all is well, sendto() fails,
\* the request is lost, the answer is lost (poll() ends without it).
Fate == {"ok", "not_sent", "request_lost", "reply_lost"}

FateOf(d) == IF d.luck = <<>> THEN "ok" ELSE Head(d.luck)
NextLuck(d) == IF d.luck = <<>> THEN <<>> ELSE Tail(d.luck)
SendFails(d) == ~d.open \/ FateOf(d) = "not_sent"
BoardGets(d) == ~SendFails(d) /\ FateOf(d) # "request_lost"
Answered(d) == ~SendFails(d) /\ FateOf(d) = "ok"

\* TMrfGal::lastActionSuccessful
lastActionSuccessful(d) == d.errcode = {}

\* write(): a confirmed write leaves the error code as it was.
write(d, a, v) ==
    [d EXCEPT !.luck = NextLuck(d),
              !.regs = IF BoardGets(d) THEN [@ EXCEPT ![a] = v] ELSE @,
              !.log = IF BoardGets(d) THEN Append(@, <<a, v>>) ELSE @,
              !.errcode = IF SendFails(d) THEN {"ioctl_failed"}
                          ELSE IF Answered(d) THEN @ ELSE {"read_failed"}]

\* read(): whatever came back, the error code is success at the end and the
\* value is what is in the answer, 0 if there is none.
read(d, a) ==
    [d EXCEPT !.luck = NextLuck(d),
              !.ret = IF Answered(d) THEN d.regs[a] ELSE {},
              !.errcode = IF SendFails(d) THEN {"ioctl_failed"} ELSE {}]

\* The read-modify-write calls TMrfGal makes of read() and write().
writeOr(d, a, v) == LET r == read(d, a) IN write(r, a, r.ret \cup v)
writeAnd(d, a, v) == LET r == read(d, a) IN write(r, a, r.ret \cap v)
writeXor(d, a, v) ==
    LET r == read(d, a) IN write(r, a, (r.ret \ v) \cup (v \ r.ret))
setFlag(d, a, mask, state) ==
    IF state THEN writeOr(d, a, mask) ELSE writeAnd(d, a, Bits \ mask)
getFlag(d, a, mask) ==
    LET r == read(d, a)
    IN  [r EXCEPT !.n = IF r.ret \cap mask # {} THEN 1 ELSE 0]

\* The device with the first k exchanges of the call behind it.
Passed(d, k) == [d EXCEPT !.luck = SubSeq(@, k + 1, Len(@))]

\* writeData(): word after word until the error code is not 0 any more; n is
\* the number of words before that one.
writeData(d, a, words) ==
    LET done(k) ==   \* k words are written and confirmed
            [Passed(d, k) EXCEPT !.n = k,
                                 !.regs = IF k = 0 THEN @ ELSE [@ EXCEPT ![a] = words[k]],
                                 !.log = @ \o [j \in 1..k |-> <<a, words[j]>>]]
        word(k) == write(done(k - 1), a, words[k])
        failing == {k \in DOMAIN words : ~lastActionSuccessful(word(k))}
    IN  IF ~d.open THEN [d EXCEPT !.errcode = @ \cup {"device_not_open"}, !.n = 0]
        ELSE IF failing = {} THEN done(Len(words))
        ELSE [word(Min(failing)) EXCEPT !.errcode = @ \cup {"write_data_failed"}]

\* readData(): as many words from one register as data has, as long as the
\* error code is 0; the word that failed is in data, but not counted.
readData(d, a, count) ==
    LET word(k) == read(Passed(d, k - 1), a)
        failing == {k \in 1..count : ~lastActionSuccessful(word(k))}
        last == IF failing = {} THEN count ELSE Min(failing)
        got == [word(last) EXCEPT !.data = [k \in 1..last |-> word(k).ret]]
    IN  IF ~d.open THEN [d EXCEPT !.errcode = @ \cup {"device_not_open"}, !.n = 0]
        ELSE IF count = 0 THEN [d EXCEPT !.n = 0, !.data = <<>>]
        ELSE IF failing = {} THEN [got EXCEPT !.n = count]
        ELSE [got EXCEPT !.n = last - 1, !.errcode = @ \cup {"read_data_failed"}]

\* doIoctl() with a block read of at most "limit" words: the board has "taken"
\* words; without an answer the number stays what was asked for.
doIoctl(d, limit, taken) ==
    [d EXCEPT !.luck = NextLuck(d),
              !.n = IF Answered(d) THEN taken ELSE limit,
              !.errcode = IF SendFails(d) THEN {"ioctl_failed"}
                          ELSE IF Answered(d) THEN @ ELSE {"read_failed"}]

\* deviceIsOnline(): a ping; n is the truth value.
deviceIsOnline(d) ==
    IF ~d.open THEN [d EXCEPT !.n = 0]
    ELSE [d EXCEPT !.luck = NextLuck(d),
                   !.n = IF Answered(d) THEN 1 ELSE 0,
                   !.errcode = IF SendFails(d) THEN @ \cup {"write_failed"} ELSE @]
=============================================================================
