----------------------------- MODULE UdpWrapper -----------------------------
(***************************************************************************)
(* The request/reply engine of the board, ethernet_core_wrapper.vhd: the   *)
(* processes tx_proc_combinatorial and tx_proc_sequential and the process  *)
(* that captures the register read.  One step is one rising edge of the    *)
(* 125 MHz clock.  The inputs of the engine are variables this module      *)
(* never changes: a module that instantiates it wires them to the state of *)
(* the components around it.                                               *)
(*                                                                         *)
(* A two-byte address and a four-byte value are latched whole with their   *)
(* last byte: the halves are used by nobody before that.                   *)
(***************************************************************************)
EXTENDS JdrsProtocol

CONSTANTS
    Addr,               \* register addresses
    ZeroAddr,           \* the address x"0000"
    Value,              \* register contents and DAQ words
    timeout_for_waiting,\* clock cycles to wait for the DAQ fifo (20)
    Port,               \* where requests come from
    RxCountMod,         \* rx_count is 8 bits wide (256)
    PkgCtrMod,          \* rx_pkg_ctr_int is 32 bits wide
    BlkCtrMod           \* tx_blk_ctr_int is 16 bits wide

ASSUME WrapperAssumption ==
    /\ ZeroAddr \in Addr
    /\ 0 \in Value /\ Value \subseteq Nat
    /\ timeout_for_waiting \in Nat /\ timeout_for_waiting > 2
    /\ RxCountMod \in Nat \ {0} /\ PkgCtrMod \in Nat \ {0} /\ BlkCtrMod \in Nat \ {0}

VARIABLES
    state, rx_count, tx_count, tx_blk_byte_count, timeout_for_waiting_count,
    rx_pkg_ctr_int, tx_blk_ctr_int, tx_count_target, tx_hdr, tx_start_reg,
    what_to_do,
    register_access_int, register_write_or_read_int, register_addr_int,
    register_write_data_int,
    bulk_mode_int, bulk_read_cnt_req, bulk_read_target_set,
    bulk_read_enable, bulk_data_local, bulk_data_wheel,
    register_access_delayed, register_read_ready_delayed, register_read_data_int,
    out_latch           \* data_out(_valid) outside the states that drive it

VARIABLES               \* inputs
    rx,                 \* [start, valid, last, kind, addr, data, src, broadcast]
    udp_tx_result, udp_tx_data_out_ready,
    reg,                \* [ready, data]: REGISTER_READ_READY, REGISTER_READ_DATA
    blk                 \* [valid, empty, count, data]: REGISTER_BLK_*

counters == <<rx_count, tx_count, tx_blk_byte_count, timeout_for_waiting_count>>
registerVars == <<register_access_int, register_write_or_read_int, register_addr_int,
                  register_write_data_int>>
bulkVars == <<bulk_mode_int, bulk_read_cnt_req, bulk_read_target_set>>
replyVars == <<tx_count_target, tx_hdr, tx_start_reg>>
statistics == <<rx_pkg_ctr_int, tx_blk_ctr_int>>
fifoVars == <<bulk_read_enable, bulk_data_local, bulk_data_wheel>>
captureVars == <<register_access_delayed, register_read_ready_delayed,
                 register_read_data_int>>
vars == <<state, counters, registerVars, bulkVars, replyVars, statistics, fifoVars,
          captureVars, what_to_do, out_latch>>
inputs == <<rx, udp_tx_result, udp_tx_data_out_ready, reg, blk>>

State == {"IDLE", "WAIT_RX_DONE", "WAIT_DATA_OUT_RDY", "DATA_OUT", "FINISH_SEND"}

(***************************************************************************)
(* The byte on data_out: [what, val, idx], byte idx (3 the last) of val.   *)
(***************************************************************************)
OutByte(what, val, idx) == [what |-> what, val |-> val, idx |-> idx]
NoByte == OutByte("zero", 0, 0)

DataByte ==
    IF tx_count = 0 THEN OutByte(ReplyFlag(what_to_do), 0, 0)
    ELSE IF tx_count = 1 THEN OutByte("switch", 0, 0)
    ELSE IF tx_count \in {2, 3} /\ what_to_do = "bulk"
         THEN OutByte("blk_ctr", tx_blk_ctr_int, tx_count)
    ELSE IF tx_count \in 4..7 /\ what_to_do = "read"
         THEN OutByte("word", register_read_data_int, tx_count - 4)
    ELSE IF tx_count \in 4..7 /\ what_to_do = "cntread"
         THEN OutByte("word", rx_pkg_ctr_int, tx_count - 4)
    ELSE IF tx_count > 3 /\ what_to_do = "bulk"
         THEN OutByte("word", bulk_data_wheel.word, bulk_data_wheel.turn)
    ELSE NoByte

Sending == state = "DATA_OUT" /\ udp_tx_result # "ERR"

\* Mutated: fetches also with the last byte of the last word.
GetNextBulkWord_Greedy ==
    /\ Sending /\ ~rx.broadcast /\ what_to_do = "bulk" /\ ~blk.empty
    /\ \/ tx_count = REG_BULK_LEN_BYTES - 1
       \/ tx_blk_byte_count = REG_BULK_LEN_BYTES - 1

\* Ask for the next DAQ word: once with the last header byte, then with the
\* last byte of every word that another one follows.
GetNextBulkWord ==
    /\ Sending /\ ~rx.broadcast /\ what_to_do = "bulk" /\ ~blk.empty
    /\ \/ tx_count = REG_BULK_LEN_BYTES - 1
       \/ /\ tx_count > REG_BULK_LEN_BYTES - 1
          /\ tx_blk_byte_count = REG_BULK_LEN_BYTES - 1
          /\ tx_count < tx_count_target - 1

\* Mutated: one byte early, one byte late.
LastByte_Early == tx_count >= tx_count_target - 2
LastByte_Late == tx_count >= tx_count_target

LastByte ==
    \/ tx_count >= tx_count_target - 1
    \/ what_to_do = "bulk" /\ blk.empty /\ tx_count % 4 = 3

\* Outputs to the UDP layer.
data_out_valid ==
    IF Sending THEN udp_tx_data_out_ready ELSE state # "IDLE" /\ out_latch.valid
data_out ==
    IF ~Sending THEN out_latch.byte
    ELSE IF rx.broadcast THEN OutByte("rx_count", rx_count, 0)
    ELSE DataByte
data_out_last == Sending /\ udp_tx_data_out_ready /\ LastByte

\* Outputs to the register control.
REGISTER_ACCESS == register_access_int /\ ~bulk_mode_int /\ ~register_access_delayed
REGISTER_ADDR == IF register_access_int THEN register_addr_int ELSE ZeroAddr
REGISTER_WRITE_DATA == IF register_access_int THEN register_write_data_int ELSE 0
REGISTER_WRITE_OR_READ == register_write_or_read_int /\ register_access_int
REGISTER_BLK_EN == bulk_mode_int /\ register_access_int
REGISTER_BLK_RDEN == bulk_read_enable /\ register_access_int

-----------------------------------------------------------------------------
Init ==
    /\ state = "IDLE" /\ what_to_do = "nothing"
    /\ rx_count = 0 /\ tx_count = 0 /\ tx_blk_byte_count = 0
    /\ timeout_for_waiting_count = 0
    /\ rx_pkg_ctr_int = 0 /\ tx_blk_ctr_int = 0
    /\ tx_count_target = 0 /\ tx_start_reg = FALSE
    /\ tx_hdr = [dst |-> rx.src, data_length |-> 0]
    /\ register_access_int = FALSE /\ register_write_or_read_int = FALSE
    /\ register_addr_int = ZeroAddr /\ register_write_data_int = 0
    /\ bulk_mode_int = FALSE /\ bulk_read_cnt_req = 0 /\ bulk_read_target_set = FALSE
    /\ bulk_read_enable = FALSE /\ bulk_data_local = 0
    /\ bulk_data_wheel = [word |-> 0, turn |-> 0]
    /\ register_access_delayed = FALSE /\ register_read_ready_delayed = FALSE
    /\ register_read_data_int = 0
    /\ out_latch = [valid |-> FALSE, byte |-> NoByte]

\* IDLE, no datagram: nothing changes.
Idle ==
    /\ state = "IDLE" /\ ~rx.start
    /\ UNCHANGED <<state, counters, registerVars, bulkVars, replyVars, statistics, what_to_do>>

\* IDLE, user data arrives: its byte, if there is one in this cycle, tells what to do.
StartRequest ==
    /\ state = "IDLE" /\ rx.start
    /\ state' = IF rx.last THEN "WAIT_DATA_OUT_RDY" ELSE "WAIT_RX_DONE"
    /\ rx_count' = 0 /\ tx_count' = 0 /\ tx_blk_byte_count' = 0
    /\ timeout_for_waiting_count' = 0
    /\ IF rx.valid
       THEN /\ what_to_do' = rx.kind
            /\ tx_count_target' = ReplyBytes(rx.kind)
            /\ register_write_or_read_int' = (rx.kind = "write")
            /\ rx_pkg_ctr_int' = (rx_pkg_ctr_int + 1) % PkgCtrMod
       ELSE UNCHANGED <<what_to_do, tx_count_target, register_write_or_read_int,
                        rx_pkg_ctr_int>>
    /\ UNCHANGED <<register_access_int, register_addr_int, register_write_data_int,
                   bulkVars, tx_hdr, tx_start_reg, tx_blk_ctr_int>>

\* Mutated: the access starts with the last but one byte.
LatchByte_Early ==
    /\ register_addr_int' =
         IF what_to_do \in {"read", "write", "bulk"} /\ rx_count = 6
         THEN rx.addr ELSE register_addr_int
    /\ register_write_data_int' =
         IF what_to_do = "write" /\ rx_count = 10 THEN rx.data ELSE register_write_data_int
    /\ bulk_read_cnt_req' =
         IF what_to_do = "bulk" /\ rx_count = 10 THEN rx.data ELSE bulk_read_cnt_req
    /\ register_access_int' = (
         \/ register_access_int
         \/ what_to_do = "read" /\ rx_count = 5
         \/ what_to_do \in {"write", "bulk"} /\ rx_count = 9)
    /\ bulk_mode_int' = (bulk_mode_int \/ (what_to_do = "bulk" /\ rx_count = 10))

\* What a byte of the datagram does, by its position: address, value, word count.
LatchByte ==
    /\ register_addr_int' =
         IF what_to_do \in {"read", "write", "bulk"} /\ rx_count = 6
         THEN rx.addr ELSE register_addr_int
    /\ register_write_data_int' =
         IF what_to_do = "write" /\ rx_count = 10 THEN rx.data ELSE register_write_data_int
    /\ bulk_read_cnt_req' =
         IF what_to_do = "bulk" /\ rx_count = 10 THEN rx.data ELSE bulk_read_cnt_req
    /\ register_access_int' = (
         \/ register_access_int
         \/ what_to_do = "read" /\ rx_count = 6
         \/ what_to_do \in {"write", "bulk"} /\ rx_count = 10)
    /\ bulk_mode_int' = (bulk_mode_int \/ (what_to_do = "bulk" /\ rx_count = 10))

ReceiveByte ==
    /\ state = "WAIT_RX_DONE"
    /\ state' = IF rx.last THEN "WAIT_DATA_OUT_RDY" ELSE state
    /\ IF rx.valid
       THEN LatchByte /\ rx_count' = (rx_count + 1) % RxCountMod
       ELSE UNCHANGED <<rx_count, register_addr_int, register_write_data_int,
                        bulk_read_cnt_req, register_access_int, bulk_mode_int>>
    /\ UNCHANGED <<tx_count, tx_blk_byte_count, timeout_for_waiting_count,
                   register_write_or_read_int, bulk_read_target_set, replyVars, statistics,
                   what_to_do>>

\* Mutated: does not wait for the size of a bulk reply; waits for data in the fifo.
ContinueToSendData_Early ==
    IF what_to_do = "bulk" THEN bulk_mode_int /\ blk.valid ELSE what_to_do # "drop"
\* The reply can be started at once, unless it is a bulk reply whose size is not set.
ContinueToSendData ==
    IF what_to_do = "bulk" THEN bulk_mode_int /\ blk.valid /\ bulk_read_target_set
    ELSE what_to_do # "drop"

\* Mutated: the wait lasts one cycle longer.
WaitingTimedOut_Late ==
    ~ContinueToSendData /\ timeout_for_waiting_count = timeout_for_waiting

\* Mutated: the wait has no end.
WaitingTimedOut_Never == FALSE

WaitingTimedOut ==
    ~ContinueToSendData /\ timeout_for_waiting_count = timeout_for_waiting - 1

\* What the wait for the reply's data does to the register and bulk access.
PrepareAccess ==
    /\ register_access_int' = (
         \/ register_access_int
         \/ what_to_do = "read"
         \/ what_to_do = "bulk" /\ ~bulk_mode_int)
    /\ register_addr_int' =
         IF what_to_do = "read" /\ ~register_access_int THEN ZeroAddr ELSE register_addr_int
    /\ bulk_mode_int' = (bulk_mode_int \/ what_to_do = "bulk")
    /\ IF what_to_do = "bulk" /\ bulk_mode_int /\ blk.valid /\ ~bulk_read_target_set
       THEN /\ bulk_read_target_set' = TRUE
            /\ tx_count_target' = BulkReplyBytes(BulkReadTarget(bulk_read_cnt_req, blk.count))
       ELSE UNCHANGED <<bulk_read_target_set, tx_count_target>>

WaitDataOutRdy ==
    /\ state = "WAIT_DATA_OUT_RDY"
    /\ PrepareAccess
    /\ timeout_for_waiting_count' =
         IF what_to_do = "write" \/ WaitingTimedOut THEN timeout_for_waiting_count
         ELSE (timeout_for_waiting_count + 1) % 256
    /\ what_to_do' = IF WaitingTimedOut THEN "timeout" ELSE what_to_do
    /\ IF ContinueToSendData \/ WaitingTimedOut
       THEN /\ tx_hdr' = [dst |-> rx.src, data_length |-> tx_count_target]
            /\ tx_start_reg' = TRUE
            /\ state' = "DATA_OUT"
       ELSE /\ state' = IF what_to_do = "drop" THEN "IDLE" ELSE state
            /\ UNCHANGED <<tx_hdr, tx_start_reg>>
    /\ UNCHANGED <<rx_count, tx_count, tx_blk_byte_count, register_write_or_read_int,
                   register_write_data_int, bulk_read_cnt_req, statistics>>

\* DATA_OUT, the UDP layer reports an error: the reply is given up.
AbortReply ==
    /\ state = "DATA_OUT" /\ udp_tx_result = "ERR"
    /\ tx_start_reg' = FALSE /\ state' = "IDLE"
    /\ UNCHANGED <<counters, registerVars, bulkVars, tx_count_target, tx_hdr, statistics,
                   what_to_do>>

\* Mutated: reading the package counter resets it as well.
SendByte_ResetsOnRead ==
    /\ Sending
    /\ tx_start_reg' = (tx_start_reg /\ udp_tx_result # "SENDING")
    /\ rx_pkg_ctr_int' = IF what_to_do \in {"cntreset", "cntread"} THEN 0 ELSE rx_pkg_ctr_int
    /\ tx_blk_byte_count' =
         IF what_to_do = "bulk" /\ tx_count > REG_BULK_LEN_BYTES - 1
         THEN (tx_blk_byte_count + 1) % REG_BULK_LEN_BYTES ELSE tx_blk_byte_count
    /\ IF udp_tx_data_out_ready /\ LastByte
       THEN state' = "FINISH_SEND" /\ UNCHANGED tx_count
       ELSE /\ UNCHANGED state
            /\ tx_count' = IF udp_tx_data_out_ready THEN tx_count + 1 ELSE tx_count
    /\ UNCHANGED <<rx_count, timeout_for_waiting_count, registerVars, bulkVars,
                   tx_count_target, tx_hdr, tx_blk_ctr_int, what_to_do>>

\* DATA_OUT: a byte is offered, and goes out if the UDP layer takes it.
SendByte ==
    /\ Sending
    /\ tx_start_reg' = (tx_start_reg /\ udp_tx_result # "SENDING")
    /\ rx_pkg_ctr_int' = IF ~rx.broadcast /\ what_to_do = "cntreset" THEN 0 ELSE rx_pkg_ctr_int
    /\ tx_blk_byte_count' =
         IF ~rx.broadcast /\ what_to_do = "bulk" /\ tx_count > REG_BULK_LEN_BYTES - 1
         THEN IF tx_blk_byte_count = REG_BULK_LEN_BYTES - 1 THEN 0
              ELSE (tx_blk_byte_count + 1) % 16
         ELSE tx_blk_byte_count
    /\ IF udp_tx_data_out_ready /\ LastByte
       THEN state' = "FINISH_SEND" /\ UNCHANGED tx_count
       ELSE /\ UNCHANGED state
            /\ tx_count' = IF udp_tx_data_out_ready THEN tx_count + 1 ELSE tx_count
    /\ UNCHANGED <<rx_count, timeout_for_waiting_count, registerVars, bulkVars,
                   tx_count_target, tx_hdr, tx_blk_ctr_int, what_to_do>>

FinishSend ==
    /\ state = "FINISH_SEND"
    /\ state' = "IDLE" /\ what_to_do' = "nothing"
    /\ IF what_to_do \in {"write", "read", "bulk"}
       THEN /\ register_access_int' = FALSE /\ register_write_or_read_int' = FALSE
            /\ register_addr_int' = ZeroAddr /\ register_write_data_int' = 0
       ELSE UNCHANGED registerVars
    /\ IF what_to_do = "bulk"
       THEN /\ bulk_mode_int' = FALSE /\ bulk_read_cnt_req' = 0
            /\ bulk_read_target_set' = FALSE
            /\ tx_blk_ctr_int' = (tx_blk_ctr_int + 1) % BlkCtrMod
       ELSE UNCHANGED <<bulkVars, tx_blk_ctr_int>>
    /\ UNCHANGED <<counters, replyVars, rx_pkg_ctr_int>>

\* Mutated: the captured register survives the end of the access.
CaptureRegister_Keeps ==
    /\ register_access_delayed' = register_access_int
    /\ register_read_ready_delayed' = reg.ready
    /\ register_read_data_int' =
         IF reg.ready /\ ~register_read_ready_delayed THEN reg.data
         ELSE register_read_data_int

\* The registers that are clocked in every state.
CaptureRegister ==
    /\ register_access_delayed' = register_access_int
    /\ register_read_ready_delayed' = reg.ready
    /\ register_read_data_int' =
         IF ~register_access_int THEN 0
         ELSE IF reg.ready /\ ~register_read_ready_delayed THEN reg.data
         ELSE register_read_data_int

CaptureBulkWord ==
    /\ bulk_read_enable' = GetNextBulkWord
    /\ bulk_data_local' = blk.data
    /\ bulk_data_wheel' =
         IF GetNextBulkWord THEN [word |-> bulk_data_local, turn |-> 0]
         ELSE IF udp_tx_data_out_ready
              THEN [bulk_data_wheel EXCEPT !.turn = (@ + 1) % REG_BULK_LEN_BYTES]
         ELSE bulk_data_wheel

Fsm == \/ Idle \/ StartRequest \/ ReceiveByte \/ WaitDataOutRdy
       \/ AbortReply \/ SendByte \/ FinishSend

\* One rising clock edge.
Clk == /\ Fsm
       /\ CaptureRegister /\ CaptureBulkWord
       /\ out_latch' = [valid |-> data_out_valid, byte |-> data_out]

Spec == Init /\ [][Clk]_vars

-----------------------------------------------------------------------------
(* What the components around the engine promise about its inputs. *)

What == WhatToDo \cup {"switch", "blk_ctr", "word", "rx_count", "zero"}
Byte == [what : What, val : Nat, idx : Nat]
InputOK ==
    /\ rx \in [start : BOOLEAN, valid : BOOLEAN, last : BOOLEAN, kind : WhatToDo,
               addr : Addr, data : Value, src : Port, broadcast : BOOLEAN]
    /\ udp_tx_result \in {"NONE", "SENDING", "ERR", "SENT"}
    /\ udp_tx_data_out_ready \in BOOLEAN
    /\ reg \in [ready : BOOLEAN, data : Value]
    /\ blk \in [valid : BOOLEAN, empty : BOOLEAN, count : Nat, data : Value]
    \* the register control answers a bulk access in the cycle it is made
    /\ blk.valid = REGISTER_BLK_EN

TypeOK ==
    /\ state \in State /\ what_to_do \in WhatToDo
    /\ rx_count \in Nat /\ tx_count \in Nat /\ tx_blk_byte_count \in Nat
    /\ timeout_for_waiting_count \in Nat
    /\ rx_pkg_ctr_int \in Nat /\ tx_blk_ctr_int \in Nat
    /\ tx_count_target \in 0..UDP_PAYLOAD_BYTES
    /\ tx_hdr \in [dst : Port, data_length : 0..UDP_PAYLOAD_BYTES]
    /\ tx_start_reg \in BOOLEAN
    /\ register_access_int \in BOOLEAN /\ register_write_or_read_int \in BOOLEAN
    /\ register_addr_int \in Addr /\ register_write_data_int \in Value
    /\ bulk_mode_int \in BOOLEAN /\ bulk_read_cnt_req \in Value
    /\ bulk_read_target_set \in BOOLEAN
    /\ bulk_read_enable \in BOOLEAN /\ bulk_data_local \in Value
    /\ bulk_data_wheel \in [word : Value, turn : Nat]
    /\ register_access_delayed \in BOOLEAN /\ register_read_ready_delayed \in BOOLEAN
    /\ register_read_data_int \in Value
    /\ out_latch \in [valid : BOOLEAN, byte : Byte]

\* The length in the UDP header is the number of bytes that will be sent, and the
\* byte being sent is one of them: whatever the requests (aborted and truncated
\* ones included), the fill of the fifo and the errors of the layers below.  The
\* size of a bulk reply is set in one cycle and the header in a later one, so a
\* timeout between the two would announce a length that is not sent.
HeaderAnnouncesReply ==
    state \in {"DATA_OUT", "FINISH_SEND"} =>
        /\ tx_hdr.data_length = tx_count_target
        /\ tx_count = 0 \/ tx_count < tx_count_target

\* A reply's data is waited for at most timeout_for_waiting cycles, also when the
\* bulk access is left over from an aborted reply without the register access and
\* the fifo therefore never answers.
WaitIsBounded ==
    state = "WAIT_DATA_OUT_RDY" => timeout_for_waiting_count < timeout_for_waiting

(***************************************************************************)
(* Why the header is right, step by step: the inductive invariant.         *)
(***************************************************************************)
\* The counters the reply needs are cleared before the reply is prepared.
CountersCleared ==
    /\ state \in {"WAIT_RX_DONE", "WAIT_DATA_OUT_RDY"} => tx_count = 0
    /\ state = "WAIT_RX_DONE" => timeout_for_waiting_count = 0

\* While a bulk request waits, its size is set in the second cycle at the latest
\* or never (the bulk access is left over without the register access): the
\* timeout cannot come between the size and the header.
BulkSizedEarly ==
    /\ ~bulk_mode_int => ~bulk_read_target_set
    /\ state = "WAIT_DATA_OUT_RDY" /\ what_to_do = "bulk" =>
         \/ bulk_mode_int /\ ~register_access_int
         \/ bulk_mode_int /\ bulk_read_target_set
         \/ bulk_mode_int /\ timeout_for_waiting_count <= 1
         \/ timeout_for_waiting_count = 0

ReplyInv ==
    TypeOK /\ CountersCleared /\ BulkSizedEarly /\ HeaderAnnouncesReply /\ WaitIsBounded
=============================================================================
