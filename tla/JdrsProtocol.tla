---------------------------- MODULE JdrsProtocol ----------------------------
(***************************************************************************)
(* The vocabulary shared by the readout PC and the ML605 board: the        *)
(* identifier in the first byte of every datagram, the identifier that     *)
(* answers it, and the sizes of the replies.                               *)
(***************************************************************************)
EXTENDS Integers

CONSTANT MAX_BLK_WORDS_PER_PKG  \* DAQ words that fit behind the header word (367)

ASSUME MaxBlkAssumption == MAX_BLK_WORDS_PER_PKG \in Nat \ {0}

\* A register, a DAQ word and the header are all four bytes long.
REG_BULK_LEN_BYTES == 4
UDP_PAYLOAD_BYTES == (MAX_BLK_WORDS_PER_PKG + 1) * REG_BULK_LEN_BYTES

(***************************************************************************)
(* what_to_do: requests of the PC, answers of the board, "drop" (the byte  *)
(* xAA the board swallows without an answer) and "nothing" (every byte     *)
(* value that has no meaning).                                             *)
(***************************************************************************)
Request == {"ping", "read", "write", "cntread", "cntreset", "bulk"}
Answer == {"pong", "confirm", "error", "timeout"}
WhatToDo == Request \cup Answer \cup {"nothing", "drop"}

\* The identifier of the answer to a request.
ReplyFlag(w) ==
    IF w = "ping" THEN "pong"
    ELSE IF w \in {"write", "cntreset"} THEN "confirm"
    ELSE IF w \in {"read", "cntread", "bulk", "timeout"} THEN w
    ELSE "error"

\* Bytes of the answer, as far as the request's identifier alone tells.
ReplyBytes(w) == IF w \in {"read", "cntread"} THEN 8 ELSE 4

\* Mutated: the limit is forgotten.
BulkReadTarget_NoLimit(request, fifo) == IF request > fifo THEN fifo ELSE request

\* How many DAQ words a bulk reply carries, and the bytes that takes.
BulkReadTarget(request, fifo) ==
    IF request > MAX_BLK_WORDS_PER_PKG /\ fifo > MAX_BLK_WORDS_PER_PKG
    THEN MAX_BLK_WORDS_PER_PKG
    ELSE IF fifo = 0 THEN 0
    ELSE IF request > fifo THEN fifo
    ELSE request

BulkReplyBytes(words) == (words + 1) * REG_BULK_LEN_BYTES
=============================================================================
