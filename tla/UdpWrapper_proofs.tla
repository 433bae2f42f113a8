-------------------------- MODULE UdpWrapper_proofs --------------------------
(***************************************************************************)
(* What holds of the reply engine for every size of the fifo's bulk        *)
(* transfer, every timeout, every width of the counters and every set of   *)
(* addresses and values, as long as the components around it keep InputOK. *)
(***************************************************************************)
EXTENDS UdpWrapper, TLAPS

\* A bulk reply never carries more words than fit into a UDP datagram, although
\* only one of the two numbers it is made of need be small: the smaller one wins.
LEMMA BulkTargetFits ==
    ASSUME NEW request \in Nat, NEW fifo \in Nat
    PROVE  /\ BulkReadTarget(request, fifo) \in 0..MAX_BLK_WORDS_PER_PKG
           /\ BulkReadTarget(request, fifo) <= request
           /\ BulkReadTarget(request, fifo) <= fifo
           /\ BulkReplyBytes(BulkReadTarget(request, fifo)) \in 0..UDP_PAYLOAD_BYTES
  <1>1. MAX_BLK_WORDS_PER_PKG \in Nat \ {0}
    BY MaxBlkAssumption
  <1>2. /\ BulkReadTarget(request, fifo) \in 0..MAX_BLK_WORDS_PER_PKG
        /\ BulkReadTarget(request, fifo) <= request
        /\ BulkReadTarget(request, fifo) <= fifo
    BY <1>1 DEF BulkReadTarget
  <1> QED
    BY <1>1, <1>2 DEF BulkReplyBytes, UDP_PAYLOAD_BYTES, REG_BULK_LEN_BYTES

-----------------------------------------------------------------------------
(* TypeOK in two halves: what the state machine assigns, and what is clocked *)
(* in every state.                                                           *)
FsmTypeOK ==
    /\ state \in State /\ what_to_do \in WhatToDo
    /\ rx_count \in Nat /\ tx_count \in Nat /\ tx_blk_byte_count \in Nat
    /\ timeout_for_waiting_count \in Nat
    /\ rx_pkg_ctr_int \in Nat /\ tx_blk_ctr_int \in Nat
    /\ tx_count_target \in 0..UDP_PAYLOAD_BYTES
    /\ tx_hdr \in [dst : Port, data_length : 0..UDP_PAYLOAD_BYTES]
    /\ tx_start_reg \in BOOLEAN
    /\ register_access_int \in BOOLEAN /\ register_write_or_read_int \in BOOLEAN
    /\ register_addr_int \in Addr /\ register_write_data_int \in Value
    /\ bulk_mode_int \in BOOLEAN /\ bulk_read_cnt_req \in Value
    /\ bulk_read_target_set \in BOOLEAN
CaptureTypeOK ==
    /\ bulk_read_enable \in BOOLEAN /\ bulk_data_local \in Value
    /\ bulk_data_wheel \in [word : Value, turn : Nat]
    /\ register_access_delayed \in BOOLEAN /\ register_read_ready_delayed \in BOOLEAN
    /\ register_read_data_int \in Value
    /\ out_latch \in [valid : BOOLEAN, byte : Byte]

LEMMA TypeOKHalves == TypeOK <=> FsmTypeOK /\ CaptureTypeOK
  BY DEF TypeOK, FsmTypeOK, CaptureTypeOK

\* The answers to single requests fit as well.
LEMMA ReplyBytesFit ==
    ASSUME NEW w PROVE ReplyBytes(w) \in 0..UDP_PAYLOAD_BYTES
  BY MaxBlkAssumption DEF ReplyBytes, UDP_PAYLOAD_BYTES, REG_BULK_LEN_BYTES

\* A counter that wraps around stays a number, whatever its width.
LEMMA WrapsToNat ==
    ASSUME NEW n \in Nat, NEW m \in Nat \ {0} PROVE (n + 1) % m \in Nat
  OBVIOUS

\* The fields of the received byte.
LEMMA RxFields ==
    ASSUME InputOK
    PROVE  /\ rx.kind \in WhatToDo /\ rx.addr \in Addr /\ rx.data \in Value
           /\ rx.src \in Port
  BY DEF InputOK

LEMMA InitTypeOK == ASSUME Init, InputOK PROVE TypeOK
  <1> USE WrapperAssumption, MaxBlkAssumption DEF Init
  <1>1. /\ what_to_do \in WhatToDo
        /\ NoByte \in Byte
    BY DEF WhatToDo, NoByte, OutByte, Byte, What
  <1>2. 0 \in 0..UDP_PAYLOAD_BYTES
    BY DEF UDP_PAYLOAD_BYTES, REG_BULK_LEN_BYTES
  <1>3. FsmTypeOK
    BY <1>1, <1>2, RxFields DEF FsmTypeOK, State
  <1>4. CaptureTypeOK
    BY <1>1 DEF CaptureTypeOK
  <1> QED
    BY <1>3, <1>4, TypeOKHalves

\* Every action of the state machine keeps the types of what it assigns.
LEMMA FsmKeepsTypes ==
    ASSUME FsmTypeOK, InputOK, Fsm PROVE FsmTypeOK'
  <1> USE WrapperAssumption, MaxBlkAssumption DEF FsmTypeOK, State
  <1>1. CASE Idle
    BY <1>1 DEF Idle, counters, registerVars, bulkVars, replyVars, statistics
  <1>2. CASE StartRequest
    <2>1. ReplyBytes(rx.kind) \in 0..UDP_PAYLOAD_BYTES
      BY ReplyBytesFit
    <2>2. /\ what_to_do' \in WhatToDo /\ tx_count_target' \in 0..UDP_PAYLOAD_BYTES
          /\ register_write_or_read_int' \in BOOLEAN
      BY <1>2, <2>1, RxFields DEF StartRequest
    <2>3. rx_pkg_ctr_int' \in Nat
      BY <1>2, WrapsToNat DEF StartRequest
    <2> QED
      BY <1>2, <2>2, <2>3 DEF StartRequest, bulkVars
  <1>3. CASE ReceiveByte
    <2>1. rx_count' \in Nat
      BY <1>3, WrapsToNat DEF ReceiveByte
    <2>2. /\ register_addr_int' \in Addr /\ register_write_data_int' \in Value
          /\ bulk_read_cnt_req' \in Value
      BY <1>3, RxFields DEF ReceiveByte, LatchByte
    <2>3. register_access_int' \in BOOLEAN /\ bulk_mode_int' \in BOOLEAN
      BY <1>3 DEF ReceiveByte, LatchByte
    <2> QED
      BY <1>3, <2>1, <2>2, <2>3 DEF ReceiveByte, replyVars, statistics
  <1>4. CASE WaitDataOutRdy
    <2>1. bulk_read_cnt_req \in Nat /\ blk.count \in Nat
      BY DEF InputOK
    <2>2. BulkReplyBytes(BulkReadTarget(bulk_read_cnt_req, blk.count)) \in 0..UDP_PAYLOAD_BYTES
      BY <2>1, BulkTargetFits
    <2>3. tx_count_target' \in 0..UDP_PAYLOAD_BYTES
      BY <1>4, <2>2 DEF WaitDataOutRdy, PrepareAccess
    <2>4. what_to_do' \in WhatToDo
      BY <1>4 DEF WaitDataOutRdy, WhatToDo, Answer
    <2>5. timeout_for_waiting_count' \in Nat
      BY <1>4, WrapsToNat DEF WaitDataOutRdy
    <2>6. /\ register_access_int' \in BOOLEAN /\ bulk_mode_int' \in BOOLEAN
          /\ bulk_read_target_set' \in BOOLEAN
      BY <1>4 DEF WaitDataOutRdy, PrepareAccess
    <2>7. register_addr_int' \in Addr
      BY <1>4 DEF WaitDataOutRdy, PrepareAccess
    <2>8. /\ tx_hdr' \in [dst : Port, data_length : 0..UDP_PAYLOAD_BYTES]
          /\ tx_start_reg' \in BOOLEAN /\ state' \in State
      <3>1. CASE ContinueToSendData \/ WaitingTimedOut
        <4>1. /\ tx_hdr' = [dst |-> rx.src, data_length |-> tx_count_target]
              /\ tx_start_reg' = TRUE /\ state' = "DATA_OUT"
          BY <1>4, <3>1 DEF WaitDataOutRdy
        <4>2. rx.src \in Port
          BY RxFields
        <4> QED
          BY <4>1, <4>2
      <3>2. CASE ~(ContinueToSendData \/ WaitingTimedOut)
        BY <1>4, <3>2 DEF WaitDataOutRdy
      <3> QED
        BY <3>1, <3>2
    <2> QED
      BY <1>4, <2>3, <2>4, <2>5, <2>6, <2>7, <2>8 DEF WaitDataOutRdy, statistics
  <1>5. CASE AbortReply
    BY <1>5 DEF AbortReply, counters, registerVars, bulkVars, statistics
  <1>6. CASE SendByte
    BY <1>6 DEF SendByte, Sending, registerVars, bulkVars, REG_BULK_LEN_BYTES
  <1>7. CASE FinishSend
    <2>1. what_to_do' \in WhatToDo
      BY <1>7 DEF FinishSend, WhatToDo
    <2>2. tx_blk_ctr_int' \in Nat
      BY <1>7, WrapsToNat DEF FinishSend
    <2> QED
      BY <1>7, <2>1, <2>2 DEF FinishSend, counters, registerVars, bulkVars, replyVars
  <1> QED
    BY <1>1, <1>2, <1>3, <1>4, <1>5, <1>6, <1>7 DEF Fsm

\* What is on data_out is a byte, whatever the state.
LEMMA OutByteIsByte ==
    ASSUME NEW what \in What, NEW val \in Nat, NEW idx \in Nat
    PROVE  OutByte(what, val, idx) \in Byte
  BY DEF OutByte, Byte

LEMMA DataOutIsByte ==
    ASSUME FsmTypeOK, CaptureTypeOK PROVE data_out \in Byte
  <1>1. /\ register_read_data_int \in Nat /\ rx_pkg_ctr_int \in Nat
        /\ tx_blk_ctr_int \in Nat /\ bulk_data_wheel.word \in Nat
        /\ bulk_data_wheel.turn \in Nat /\ tx_count \in Nat /\ rx_count \in Nat
        /\ out_latch.byte \in Byte
    BY WrapperAssumption DEF FsmTypeOK, CaptureTypeOK
  <1>2. ReplyFlag(what_to_do) \in What
    BY DEF ReplyFlag, FsmTypeOK, What, WhatToDo, Request, Answer
  <1>3. {"switch", "blk_ctr", "word", "rx_count", "zero"} \subseteq What
    BY DEF What
  <1>4. tx_count \in 4..7 => tx_count - 4 \in Nat
    BY <1>1
  <1>5. /\ OutByte(ReplyFlag(what_to_do), 0, 0) \in Byte
        /\ OutByte("switch", 0, 0) \in Byte
        /\ OutByte("blk_ctr", tx_blk_ctr_int, tx_count) \in Byte
        /\ tx_count \in 4..7 =>
             /\ OutByte("word", register_read_data_int, tx_count - 4) \in Byte
             /\ OutByte("word", rx_pkg_ctr_int, tx_count - 4) \in Byte
        /\ OutByte("word", bulk_data_wheel.word, bulk_data_wheel.turn) \in Byte
        /\ NoByte \in Byte
        /\ OutByte("rx_count", rx_count, 0) \in Byte
    BY <1>1, <1>2, <1>3, <1>4, OutByteIsByte DEF NoByte
  <1> QED
    BY <1>1, <1>5 DEF data_out, DataByte

LEMMA CaptureKeepsTypes ==
    ASSUME FsmTypeOK, CaptureTypeOK, InputOK, Clk PROVE CaptureTypeOK'
  <1> USE WrapperAssumption DEF CaptureTypeOK
  <1>1. GetNextBulkWord \in BOOLEAN /\ data_out_valid \in BOOLEAN
    BY DEF GetNextBulkWord, data_out_valid, Sending, InputOK
  <1>2. bulk_data_wheel' \in [word : Value, turn : Nat]
    BY DEF Clk, CaptureBulkWord, REG_BULK_LEN_BYTES
  <1>3. out_latch' \in [valid : BOOLEAN, byte : Byte]
    BY <1>1, DataOutIsByte DEF Clk
  <1> QED
    BY <1>1, <1>2, <1>3 DEF Clk, CaptureRegister, CaptureBulkWord, InputOK, FsmTypeOK

LEMMA ClkKeepsTypes ==
    ASSUME TypeOK, InputOK, Clk PROVE TypeOK'
  <1>1. FsmTypeOK /\ CaptureTypeOK
    BY TypeOKHalves
  <1>2. FsmTypeOK'
    BY <1>1, FsmKeepsTypes DEF Clk
  <1>3. CaptureTypeOK'
    BY <1>1, CaptureKeepsTypes
  <1> QED
    BY <1>2, <1>3 DEF TypeOK, FsmTypeOK, CaptureTypeOK

-----------------------------------------------------------------------------
(* The reply invariant, one lemma per part. *)

LEMMA ClkKeepsCountersCleared ==
    ASSUME ReplyInv, InputOK, Clk PROVE CountersCleared'
  <1> USE DEF ReplyInv, CountersCleared
  <1>1. CASE Idle
    BY <1>1 DEF Idle, counters
  <1>2. CASE StartRequest
    BY <1>2 DEF StartRequest
  <1>3. CASE ReceiveByte
    BY <1>3 DEF ReceiveByte
  <1>4. CASE WaitDataOutRdy
    BY <1>4 DEF WaitDataOutRdy
  <1>5. CASE AbortReply \/ SendByte \/ FinishSend
    BY <1>5 DEF AbortReply, SendByte, FinishSend, Sending
  <1> QED
    BY <1>1, <1>2, <1>3, <1>4, <1>5 DEF Clk, Fsm

\* A bulk request that waits has its size set in its second cycle, or never.
LEMMA ClkKeepsBulkSizedEarly ==
    ASSUME ReplyInv, InputOK, Clk PROVE BulkSizedEarly'
  <1> USE DEF ReplyInv, BulkSizedEarly
  <1>1. CASE Idle
    BY <1>1 DEF Idle, bulkVars
  <1>2. CASE StartRequest
    BY <1>2 DEF StartRequest, bulkVars
  <1>3. CASE ReceiveByte
    BY <1>3 DEF ReceiveByte, LatchByte, CountersCleared
  <1>4. CASE WaitDataOutRdy
    <2>1. CASE what_to_do # "bulk"
      BY <1>4, <2>1 DEF WaitDataOutRdy, PrepareAccess
    <2>2. CASE what_to_do = "bulk" /\ ~bulk_mode_int
      <3>1. timeout_for_waiting_count = 0
        BY <1>4, <2>2 DEF WaitDataOutRdy
      <3>2. ~WaitingTimedOut
        BY <3>1, WrapperAssumption DEF WaitingTimedOut
      <3>3. timeout_for_waiting_count' = 1
        <4>1. timeout_for_waiting_count' = (timeout_for_waiting_count + 1) % 256
          BY <1>4, <2>2, <3>2 DEF WaitDataOutRdy
        <4> QED
          BY <3>1, <4>1
      <3>4. bulk_mode_int'
        BY <1>4, <2>2 DEF WaitDataOutRdy, PrepareAccess
      <3> QED
        BY <3>3, <3>4
    <2>3. CASE what_to_do = "bulk" /\ bulk_mode_int /\ ~register_access_int
      BY <1>4, <2>3 DEF WaitDataOutRdy, PrepareAccess
    <2>4. CASE what_to_do = "bulk" /\ bulk_mode_int /\ register_access_int
      <3>1. blk.valid
        BY <2>4 DEF InputOK, REGISTER_BLK_EN
      <3>2. bulk_mode_int' /\ bulk_read_target_set'
        BY <1>4, <2>4, <3>1 DEF WaitDataOutRdy, PrepareAccess, TypeOK
      <3> QED
        BY <3>2
    <2> QED
      BY <2>1, <2>2, <2>3, <2>4 DEF TypeOK
  <1>5. CASE AbortReply \/ SendByte \/ FinishSend
    BY <1>5 DEF AbortReply, SendByte, FinishSend, Sending, bulkVars
  <1> QED
    BY <1>1, <1>2, <1>3, <1>4, <1>5 DEF Clk, Fsm

LEMMA ClkKeepsHeader ==
    ASSUME ReplyInv, InputOK, Clk PROVE HeaderAnnouncesReply'
  <1> USE DEF ReplyInv, HeaderAnnouncesReply
  <1>1. CASE Idle \/ StartRequest \/ ReceiveByte \/ AbortReply \/ FinishSend
    BY <1>1 DEF Idle, StartRequest, ReceiveByte, AbortReply, FinishSend
  <1>2. CASE WaitDataOutRdy
    <2>1. SUFFICES ASSUME state' = "DATA_OUT"
                   PROVE  /\ tx_hdr'.data_length = tx_count_target'
                          /\ tx_count' = 0
      BY <1>2 DEF WaitDataOutRdy
    <2>2. tx_count' = 0
      BY <1>2 DEF WaitDataOutRdy, CountersCleared
    <2>3. tx_hdr'.data_length = tx_count_target
      BY <1>2, <2>1 DEF WaitDataOutRdy
    \* The size is not being set in the cycle that writes the header.
    <2>4. ~(what_to_do = "bulk" /\ bulk_mode_int /\ blk.valid /\ ~bulk_read_target_set)
      <3> SUFFICES ASSUME what_to_do = "bulk", bulk_mode_int, blk.valid, ~bulk_read_target_set
                   PROVE  FALSE
        OBVIOUS
      <3>1. WaitingTimedOut
        BY <1>2, <2>1 DEF WaitDataOutRdy, ContinueToSendData
      <3>2. timeout_for_waiting_count <= 1
        BY <1>2 DEF WaitDataOutRdy, BulkSizedEarly, InputOK, REGISTER_BLK_EN, TypeOK
      <3> QED
        BY <3>1, <3>2, WrapperAssumption DEF WaitingTimedOut
    <2>5. tx_count_target' = tx_count_target
      BY <1>2, <2>4 DEF WaitDataOutRdy, PrepareAccess
    <2> QED
      BY <2>2, <2>3, <2>5
  <1>3. CASE SendByte
    <2>1. tx_hdr' = tx_hdr /\ tx_count_target' = tx_count_target
      BY <1>3 DEF SendByte
    <2>2. tx_count' = tx_count \/ (~LastByte /\ tx_count' = tx_count + 1)
      BY <1>3 DEF SendByte
    <2>3. ~LastByte => tx_count + 1 < tx_count_target
      BY DEF LastByte, TypeOK
    <2> QED
      BY <1>3, <2>1, <2>2, <2>3 DEF SendByte, Sending
  <1> QED
    BY <1>1, <1>2, <1>3 DEF Clk, Fsm

LEMMA ClkKeepsWaitBounded ==
    ASSUME ReplyInv, InputOK, Clk PROVE WaitIsBounded'
  <1> USE WrapperAssumption DEF ReplyInv, WaitIsBounded
  <1>1. CASE Idle \/ AbortReply \/ SendByte \/ FinishSend
    BY <1>1 DEF Idle, AbortReply, SendByte, FinishSend, Sending
  <1>2. CASE StartRequest
    BY <1>2 DEF StartRequest
  <1>3. CASE ReceiveByte
    BY <1>3 DEF ReceiveByte, CountersCleared
  <1>4. CASE WaitDataOutRdy
    <2>1. CASE ContinueToSendData \/ WaitingTimedOut
      BY <1>4, <2>1 DEF WaitDataOutRdy
    <2>2. CASE ~ContinueToSendData /\ ~WaitingTimedOut
      <3>1. timeout_for_waiting_count + 1 < timeout_for_waiting
        BY <1>4, <2>2 DEF WaitDataOutRdy, WaitingTimedOut, TypeOK
      <3>2. timeout_for_waiting_count' <= timeout_for_waiting_count + 1
        BY <1>4, <2>2 DEF WaitDataOutRdy, TypeOK
      <3>3. timeout_for_waiting_count' \in Nat
        BY ClkKeepsTypes DEF TypeOK
      <3> QED
        BY <3>1, <3>2, <3>3 DEF TypeOK
    <2> QED
      BY <2>1, <2>2
  <1> QED
    BY <1>1, <1>2, <1>3, <1>4 DEF Clk, Fsm

-----------------------------------------------------------------------------
\* Whatever the requests, the fifo and the layers below do, the reply engine
\* keeps the reply invariant.
THEOREM ReplyInvariant == Spec /\ []InputOK => []ReplyInv
  <1>1. Init /\ InputOK => ReplyInv
    BY InitTypeOK, WrapperAssumption
    DEF Init, ReplyInv, CountersCleared, BulkSizedEarly, HeaderAnnouncesReply, WaitIsBounded
  <1>2. ReplyInv /\ InputOK /\ [Clk]_vars => ReplyInv'
    <2> SUFFICES ASSUME ReplyInv, InputOK, [Clk]_vars PROVE ReplyInv'
      OBVIOUS
    <2>1. CASE Clk
      BY <2>1, ClkKeepsTypes, ClkKeepsCountersCleared, ClkKeepsBulkSizedEarly,
         ClkKeepsHeader, ClkKeepsWaitBounded DEF ReplyInv
    <2>2. CASE UNCHANGED vars
      BY <2>2 DEF vars, counters, registerVars, bulkVars, replyVars, statistics, fifoVars,
         captureVars, ReplyInv, TypeOK, CountersCleared, BulkSizedEarly,
         HeaderAnnouncesReply, WaitIsBounded
    <2> QED
      BY <2>1, <2>2
  <1> QED
    BY <1>1, <1>2, PTL DEF Spec

\* Every register of the reply engine keeps within its width.
THEOREM TypeCorrect == Spec /\ []InputOK => []TypeOK
  BY ReplyInvariant, PTL DEF ReplyInv

\* The length in the UDP header is the number of bytes that are sent.
THEOREM HeaderIsRight == Spec /\ []InputOK => []HeaderAnnouncesReply
  BY ReplyInvariant, PTL DEF ReplyInv

\* The wait for a reply's data ends within timeout_for_waiting cycles.
THEOREM WaitEnds == Spec /\ []InputOK => []WaitIsBounded
  BY ReplyInvariant, PTL DEF ReplyInv
=============================================================================
