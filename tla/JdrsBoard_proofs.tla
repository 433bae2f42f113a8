--------------------------- MODULE JdrsBoard_proofs ---------------------------
(***************************************************************************)
(* The board, for every size of a datagram, every set of addresses and     *)
(* values, any requests (whole, cut off, meaningless), any fill of the     *)
(* fifo and any answers to the questions for an address.                   *)
(*                                                                         *)
(* BoardInv carries the proof about the reply engine over to the board:    *)
(* its assumption on the inputs is what the register control and the UDP   *)
(* transmitter promise.  StageInv relates the states of the engine,        *)
(* UDP_TX, IPv4_TX and arp_REQ and the three byte counters: who has        *)
(* started whom, who has taken his start back, and that no counter is      *)
(* off.  TransferInv says that the fifo does not run dry within a bulk     *)
(* reply, PopsInv relates the words taken to the bytes sent, and WireInv   *)
(* says what the frame consists of so far.  The second half is about what  *)
(* the replies say.                                                        *)
(*                                                                         *)
(* ~MacStalls is needed because a byte is lost when the MAC refuses it,    *)
(* Unicast because the engine sends its own byte count in answer to a      *)
(* broadcast, whatever was asked for.                                      *)
(***************************************************************************)
EXTENDS JdrsBoard, SequenceTheorems, TLAPS

\* What has been proved of the reply engine, with its inputs wired as in JdrsBoard.
WP == INSTANCE UdpWrapper_proofs WITH
    udp_tx_result <- WireOfUdp!udp_tx_result,
    udp_tx_data_out_ready <- WireOfUdp!udp_tx_data_out_ready,
    reg <- [ready |-> R!REG_VALID, data |-> R!REG_DATA_OUT],
    blk <- [valid |-> R!REG_BLK_VALID, empty |-> R!REG_BLK_EMPTY,
            count |-> R!REG_BLK_COUNT, data |-> R!REG_BLK_DOUT]

-----------------------------------------------------------------------------
(* W and WP are the same module: their definitions say the same.           *)
LEMMA SameClk == W!Clk => WP!Clk
  BY DEF W!Clk, WP!Clk, W!Fsm, WP!Fsm,
     W!Idle, WP!Idle, W!StartRequest, WP!StartRequest, W!ReceiveByte, WP!ReceiveByte,
     W!WaitDataOutRdy, WP!WaitDataOutRdy, W!AbortReply, WP!AbortReply, W!SendByte, WP!SendByte,
     W!FinishSend, WP!FinishSend, W!CaptureRegister, WP!CaptureRegister,
     W!CaptureBulkWord, WP!CaptureBulkWord, W!LatchByte, WP!LatchByte,
     W!PrepareAccess, WP!PrepareAccess, W!ContinueToSendData, WP!ContinueToSendData,
     W!WaitingTimedOut, WP!WaitingTimedOut, W!GetNextBulkWord, WP!GetNextBulkWord,
     W!LastByte, WP!LastByte, W!Sending, WP!Sending, W!data_out, WP!data_out,
     W!data_out_valid, WP!data_out_valid, W!DataByte, WP!DataByte, W!OutByte, WP!OutByte,
     W!NoByte, WP!NoByte, W!counters, WP!counters, W!registerVars, WP!registerVars,
     W!bulkVars, WP!bulkVars, W!replyVars, WP!replyVars, W!statistics, WP!statistics,
     W!REG_BULK_LEN_BYTES, WP!REG_BULK_LEN_BYTES, W!ReplyFlag, WP!ReplyFlag,
     W!ReplyBytes, WP!ReplyBytes, W!BulkReplyBytes, WP!BulkReplyBytes,
     W!BulkReadTarget, WP!BulkReadTarget

LEMMA SameInit == W!Init => WP!Init
  BY DEF W!Init, WP!Init, W!NoByte, WP!NoByte, W!OutByte, WP!OutByte

LEMMA SameReplyInv == /\ W!ReplyInv <=> WP!ReplyInv
                      /\ W!ReplyInv' <=> WP!ReplyInv'
  BY DEF W!ReplyInv, WP!ReplyInv, W!TypeOK, WP!TypeOK, W!CountersCleared, WP!CountersCleared,
     W!BulkSizedEarly, WP!BulkSizedEarly, W!HeaderAnnouncesReply, WP!HeaderAnnouncesReply,
     W!WaitIsBounded, WP!WaitIsBounded, W!State, WP!State, W!Byte, WP!Byte, W!What, WP!What,
     W!WhatToDo, WP!WhatToDo, W!Request, WP!Request, W!Answer, WP!Answer,
     W!UDP_PAYLOAD_BYTES, WP!UDP_PAYLOAD_BYTES, W!REG_BULK_LEN_BYTES, WP!REG_BULK_LEN_BYTES

LEMMA SameInputOK == W!InputOK => WP!InputOK
  BY DEF W!InputOK, WP!InputOK, W!WhatToDo, WP!WhatToDo, W!Request, WP!Request,
     W!Answer, WP!Answer, W!REGISTER_BLK_EN, WP!REGISTER_BLK_EN

LEMMA ConstantsOK == WP!WrapperAssumption /\ WP!MaxBlkAssumption
  <1>1. 0 \in Value
    <2>1. 5 \in Value /\ \A v \in Value : 0..v \subseteq Value
      BY ValueAssumption
    <2>2. 0 \in 0..5
      OBVIOUS
    <2> QED
      BY <2>1, <2>2
  <1> QED
    BY <1>1, BoardAssumption, ValueAssumption, PacketAssumption, MaxBlkAssumption
    DEF WP!WrapperAssumption, WP!MaxBlkAssumption

\* One clock cycle of the reply engine keeps its invariant.
LEMMA EngineStep ==
    ASSUME W!ReplyInv, W!InputOK, W!Clk PROVE W!ReplyInv'
  <1>1. WP!ReplyInv /\ WP!InputOK /\ WP!Clk
    BY SameReplyInv, SameInputOK, SameClk
  <1>2. WP!TypeOK
    BY <1>1 DEF WP!ReplyInv
  <1>3. /\ WP!TypeOK' /\ WP!CountersCleared' /\ WP!BulkSizedEarly'
        /\ WP!HeaderAnnouncesReply' /\ WP!WaitIsBounded'
    BY <1>1, <1>2, ConstantsOK, WP!ClkKeepsTypes, WP!ClkKeepsCountersCleared,
       WP!ClkKeepsBulkSizedEarly, WP!ClkKeepsHeader, WP!ClkKeepsWaitBounded
  <1>4. WP!ReplyInv'
    BY <1>3 DEF WP!ReplyInv
  <1> QED
    BY <1>4, SameReplyInv

-----------------------------------------------------------------------------
(* Types, for every configuration of the board and its environment.        *)

EnvOK == pkt \in Packets /\ pos \in -1..(pkt.len - 1)

\* The register file holds values, and the counter that can fill the fifo is behind
\* the number of words that have been written.
RegistersOK ==
    /\ r_led_config \in 0..31 /\ r_led_config \in Value /\ r_led_knight_rider = 5
    /\ r_spill_active \in 0..1
    /\ r_dev0_fifo_fillType \in 0..7 /\ r_dev0_fifo_fillType \in Value
    /\ r_dev_config \in [R!Device -> Value] /\ mmcm_reg \in [{"MMCM", "MMCM_LAST"} -> Value]
    /\ dev0_fifo \in Seq(Value) /\ Len(dev0_fifo) <= FifoDepth
    /\ dev0_fifo_fill_ctr \in 0..produced /\ produced \in 0..MaxWords

\* A reply is made of whole words, the first of them the header.
WholeWords == state # "IDLE" => tx_count_target >= 4 /\ tx_count_target % 4 = 0

BoardInv == EnvOK /\ RegistersOK /\ udp_result_reg \in U!Result /\ W!ReplyInv /\ WholeWords

\* Small numbers are values.
LEMMA SmallValues ==
    ASSUME NEW v \in Nat, v <= 5 \/ v <= FifoDepth \/ v <= MaxWords \/ \E w \in Value : v <= w
    PROVE  v \in Value
  <1>1. \A w \in Value : 0..w \subseteq Value /\ w \in Nat
    BY ValueAssumption
  <1>2. PICK w \in Value : v <= w
    BY ValueAssumption
  <1>3. v \in 0..w
    BY <1>1, <1>2
  <1> QED
    BY <1>1, <1>2, <1>3

\* What the register control hands out is a value.
LEMMA RegisterOutputs ==
    ASSUME RegistersOK
    PROVE  /\ R!dev0_fifo_dout \in Value /\ R!dev0_fifo_count \in 0..FifoDepth
           /\ R!dev0_fifo_count \in Value /\ R!dev0_fifo_count <= Len(dev0_fifo)
  <1>1. Len(dev0_fifo) \in Nat /\ Len(dev0_fifo) <= FifoDepth /\ CountLag \in Nat
    BY BoardAssumption DEF RegistersOK
  <1>2. R!dev0_fifo_count \in 0..FifoDepth /\ R!dev0_fifo_count <= Len(dev0_fifo)
    BY <1>1, BoardAssumption DEF R!dev0_fifo_count
  <1>3. R!dev0_fifo_count \in Value
    BY <1>2, SmallValues
  <1>4. 0 \in Value
    BY SmallValues
  <1>5. dev0_fifo # <<>> => Head(dev0_fifo) \in Value
    BY HeadTailProperties DEF RegistersOK
  <1> QED
    BY <1>2, <1>3, <1>4, <1>5 DEF R!dev0_fifo_dout, R!dev0_fifo_empty

LEMMA ReadsAreValues ==
    ASSUME RegistersOK PROVE R!REG_DATA_OUT \in Value
  <1> DEFINE a == WireOfWrapper!REGISTER_ADDR
             c == CHOOSE d \in R!Device : a = R!ConfigOf[d]
             s == CHOOSE d \in R!Device : a = R!StatusOf[d]
  <1>1. /\ R!dev0_fifo_dout \in Value /\ R!dev0_fifo_count \in Value
        /\ 0 \in Value /\ 1 \in Value /\ 5 \in Value
    BY RegisterOutputs, SmallValues
  <1>2. /\ r_led_config \in Value /\ r_led_knight_rider \in Value
        /\ r_spill_active \in Value /\ r_dev0_fifo_fillType \in Value
        /\ a \in {"MMCM", "MMCM_LAST"} => mmcm_reg[a] \in Value
    BY <1>1 DEF RegistersOK
  <1>3. (\E d \in R!Device : a = R!ConfigOf[d]) => r_dev_config[c] \in Value
    <2>1. (\E d \in R!Device : a = R!ConfigOf[d]) => c \in R!Device
      OBVIOUS
    <2> QED
      BY <2>1 DEF RegistersOK
  <1>4. (\E d \in R!Device : a = R!StatusOf[d])
           => [d \in {"DEV0", "DEV1"} |-> 1][s] \in Value
    <2>1. (\E d \in R!Device : a = R!StatusOf[d]) => s \in R!Device
      OBVIOUS
    <2> QED
      BY <1>1, <2>1 DEF R!Device
  <1> HIDE DEF a, c, s
  <1> QED
    BY <1>1, <1>2, <1>3, <1>4 DEF R!REG_DATA_OUT, a, c, s

LEMMA PacketTypes ==
    ASSUME EnvOK
    PROVE  /\ pkt.kind \in WhatToDo /\ pkt.addr \in Addr /\ pkt.data \in Value
           /\ pkt.alias \in WhatToDo /\ pkt.src \in Port /\ pkt.broadcast \in BOOLEAN
           /\ pkt.len \in Nat \ {0} /\ pos \in Int
  BY PacketAssumption DEF EnvOK

\* What the components around the reply engine promise it.
LEMMA InputTypes ==
    ASSUME EnvOK, RegistersOK, udp_result_reg \in U!Result PROVE W!InputOK
  <1>1. rx \in [start : BOOLEAN, valid : BOOLEAN, last : BOOLEAN, kind : WhatToDo,
                addr : Addr, data : Value, src : Port, broadcast : BOOLEAN]
    BY PacketTypes DEF rx, WhatToDo
  <1>2. WireOfUdp!udp_tx_result \in {"NONE", "SENDING", "ERR", "SENT"}
    BY DEF WireOfUdp!udp_tx_result, U!Result
  <1>3. WireOfUdp!udp_tx_data_out_ready \in BOOLEAN
    BY DEF WireOfUdp!udp_tx_data_out_ready
  <1>4. [ready |-> R!REG_VALID, data |-> R!REG_DATA_OUT] \in [ready : BOOLEAN, data : Value]
    <2>1. R!REG_VALID \in BOOLEAN
      BY DEF R!REG_VALID
    <2> QED
      BY <2>1, ReadsAreValues
  <1>5. /\ R!REG_BLK_VALID \in BOOLEAN /\ R!REG_BLK_EMPTY \in BOOLEAN
        /\ R!REG_BLK_COUNT \in Nat /\ R!REG_BLK_DOUT \in Value
        /\ R!REG_BLK_VALID = W!REGISTER_BLK_EN
    <2>1. WireOfWrapper!REGISTER_BLK_EN \in BOOLEAN
      BY DEF WireOfWrapper!REGISTER_BLK_EN
    <2>2. R!REG_BLK_VALID = W!REGISTER_BLK_EN
      BY DEF R!REG_BLK_VALID, W!REGISTER_BLK_EN, WireOfWrapper!REGISTER_BLK_EN
    <2>3. 0 \in Value
      BY SmallValues
    <2>4. R!REG_BLK_COUNT \in Nat /\ R!REG_BLK_DOUT \in Value
      BY <2>3, RegisterOutputs DEF R!REG_BLK_COUNT, R!REG_BLK_DOUT
    <2> QED
      BY <2>1, <2>2, <2>4 DEF R!REG_BLK_VALID, R!REG_BLK_EMPTY
  <1> QED
    BY <1>1, <1>2, <1>3, <1>4, <1>5 DEF W!InputOK, W!WhatToDo, WhatToDo, W!Request, Request,
       W!Answer, Answer

LEMMA InputsOK == BoardInv => W!InputOK
  BY InputTypes DEF BoardInv

LEMMA InitBoard == Init => BoardInv
  <1> SUFFICES ASSUME Init PROVE BoardInv
    OBVIOUS
  <1>1. EnvOK
    BY PacketAssumption DEF Init, EnvOK
  <1>2. 0 \in Value
    BY SmallValues
  <1>3. RegistersOK
    <2>1. <<>> \in Seq(Value) /\ Len(<<>>) = 0
      OBVIOUS
    <2> QED
      BY <1>2, <2>1, BoardAssumption DEF Init, R!Init, RegistersOK
  <1>4. udp_result_reg \in U!Result
    BY DEF Init, U!Init, U!Result
  <1>5. W!InputOK
    BY <1>1, <1>3, <1>4, InputTypes
  <1>6. W!ReplyInv
    <2>1. WP!Init /\ WP!InputOK
      BY <1>5, SameInit, SameInputOK DEF Init
    <2>2. WP!TypeOK
      BY <2>1, ConstantsOK, WP!InitTypeOK
    <2>3. WP!ReplyInv
      BY <2>1, <2>2, ConstantsOK
      DEF WP!Init, WP!ReplyInv, WP!CountersCleared, WP!BulkSizedEarly,
          WP!HeaderAnnouncesReply, WP!WaitIsBounded
    <2> QED
      BY <2>3, SameReplyInv
  <1>7. WholeWords
    BY DEF Init, W!Init, WholeWords
  <1> QED
    BY <1>1, <1>3, <1>4, <1>6, <1>7 DEF BoardInv

\* A cycle of the 125 MHz clock keeps the types of the registers.
LEMMA RegistersStep ==
    ASSUME BoardInv, R!Clk, produced' = produced PROVE RegistersOK'
  <1> DEFINE d == WireOfWrapper!REGISTER_WRITE_DATA
  <1>1. d \in Value
    <2>1. register_write_data_int \in Value
      BY DEF BoardInv, W!ReplyInv, W!TypeOK
    <2> QED
      BY <2>1, SmallValues DEF WireOfWrapper!REGISTER_WRITE_DATA
  <1>2. d % 32 \in 0..31 /\ d % 32 \in Value /\ d % 8 \in 0..7 /\ d % 8 \in Value
    <2>1. d \in Nat
      BY <1>1, ValueAssumption
    <2>2. d % 32 \in 0..31 /\ d % 32 <= d /\ d % 8 \in 0..7 /\ d % 8 <= d
      BY <2>1
    <2> QED
      BY <1>1, <2>2, SmallValues
  <1> HIDE DEF d
  <1>3. /\ r_led_config' \in 0..31 /\ r_led_config' \in Value /\ r_led_knight_rider' = 5
        /\ r_dev0_fifo_fillType' \in 0..7 /\ r_dev0_fifo_fillType' \in Value
        /\ r_dev_config' \in [R!Device -> Value]
    BY <1>1, <1>2 DEF BoardInv, RegistersOK, R!Clk, R!WriteRegister, d
  <1>4. mmcm_reg' \in [{"MMCM", "MMCM_LAST"} -> Value]
    BY <1>1 DEF BoardInv, RegistersOK, R!Clk, R!WriteMmcm, d
  <1>5. r_spill_active' \in 0..1
    BY DEF R!Clk
  <1>6. dev0_fifo' \in Seq(Value) /\ Len(dev0_fifo') <= FifoDepth
    <2>1. CASE R!dev0_fifo_rden
      <3>1. dev0_fifo # <<>> /\ dev0_fifo' = Tail(dev0_fifo)
        BY <2>1 DEF R!Clk, R!dev0_fifo_rden, R!dev0_fifo_empty
      <3>2. Tail(dev0_fifo) \in Seq(Value) /\ Len(Tail(dev0_fifo)) = Len(dev0_fifo) - 1
        BY <3>1, HeadTailProperties DEF BoardInv, RegistersOK
      <3>3. Len(dev0_fifo) \in Nat /\ Len(dev0_fifo) <= FifoDepth
        BY DEF BoardInv, RegistersOK
      <3> QED
        BY <3>1, <3>2, <3>3, BoardAssumption
    <2>2. CASE ~R!dev0_fifo_rden
      BY <2>2 DEF R!Clk, BoardInv, RegistersOK
    <2> QED
      BY <2>1, <2>2
  <1>7. dev0_fifo_fill_ctr' = dev0_fifo_fill_ctr
    BY DEF R!Clk
  <1> QED
    BY <1>3, <1>4, <1>5, <1>6, <1>7 DEF BoardInv, RegistersOK

\* So does a word of the device, or of the counter in its place.
LEMMA DeviceWordStep ==
    ASSUME BoardInv, DeviceWord PROVE BoardInv'
  <1>1. /\ produced \in 0..MaxWords /\ produced < MaxWords /\ dev0_fifo \in Seq(Value)
        /\ Len(dev0_fifo) < FifoDepth /\ dev0_fifo_fill_ctr \in 0..produced
        /\ produced' = produced + 1 /\ MaxWords \in Nat /\ FifoDepth \in Nat
    BY BoardAssumption DEF BoardInv, RegistersOK, DeviceWord, R!dev0_fifo_full
  <1>2. PICK w : dev0_fifo' = Append(dev0_fifo, w) /\ w \in {dev0_fifo_fill_ctr, produced + 1}
    BY DEF DeviceWord, R!FifoClk
  <1>3. w \in Value
    BY <1>1, <1>2, SmallValues
  <1>4. dev0_fifo' \in Seq(Value) /\ Len(dev0_fifo') <= FifoDepth
    BY <1>1, <1>2, <1>3, AppendProperties
  <1>5. dev0_fifo_fill_ctr' \in 0..produced' /\ produced' \in 0..MaxWords
    BY <1>1 DEF DeviceWord, R!FifoClk
  <1>6. RegistersOK'
    BY <1>4, <1>5 DEF BoardInv, RegistersOK, DeviceWord, R!FifoClk, R!registers
  <1>7. W!ReplyInv'
    <2>1. UNCHANGED wrapperVars
      BY DEF DeviceWord
    <2> QED
      BY <2>1 DEF BoardInv, wrapperVars, W!ReplyInv, W!TypeOK, W!CountersCleared,
         W!BulkSizedEarly, W!HeaderAnnouncesReply, W!WaitIsBounded
  <1>8. EnvOK' /\ udp_result_reg' \in U!Result /\ WholeWords'
    BY DEF BoardInv, EnvOK, WholeWords, DeviceWord, wrapperVars, txVars, envVars
  <1> QED
    BY <1>6, <1>7, <1>8 DEF BoardInv

\* Single replies have one word or two, bulk replies one more than they carry.
LEMMA WholeWordsStep ==
    ASSUME BoardInv, W!Clk PROVE WholeWords'
  <1> USE DEF WholeWords
  <1>1. \A w : W!ReplyBytes(w) >= 4 /\ W!ReplyBytes(w) % 4 = 0
    BY DEF W!ReplyBytes
  <1>2. CASE W!Idle \/ W!AbortReply \/ W!FinishSend
    BY <1>2 DEF W!Idle, W!AbortReply, W!FinishSend
  <1>3. CASE W!StartRequest
    BY <1>1, <1>3 DEF W!StartRequest, rx
  <1>4. CASE W!ReceiveByte \/ W!SendByte
    BY <1>4 DEF BoardInv, W!ReceiveByte, W!SendByte, W!Sending, W!replyVars
  <1>5. CASE W!WaitDataOutRdy
    <2>1. tx_count_target >= 4 /\ tx_count_target % 4 = 0
      BY <1>5 DEF BoardInv, W!WaitDataOutRdy
    <2> DEFINE words == W!BulkReadTarget(bulk_read_cnt_req, R!REG_BLK_COUNT)
    <2>2. words \in Nat
      <3>1. bulk_read_cnt_req \in Nat
        BY ValueAssumption DEF BoardInv, W!ReplyInv, W!TypeOK
      <3>2. R!REG_BLK_COUNT \in Nat
        BY RegisterOutputs DEF BoardInv, R!REG_BLK_COUNT
      <3> QED
        BY <3>1, <3>2, MaxBlkAssumption DEF W!BulkReadTarget
    <2> HIDE DEF words
    <2>3. W!BulkReplyBytes(words) >= 4 /\ W!BulkReplyBytes(words) % 4 = 0
      BY <2>2 DEF W!BulkReplyBytes, W!REG_BULK_LEN_BYTES
    <2>4. tx_count_target' = tx_count_target \/ tx_count_target' = W!BulkReplyBytes(words)
      BY <1>5 DEF W!WaitDataOutRdy, W!PrepareAccess, words
    <2> QED
      BY <2>1, <2>3, <2>4
  <1> QED
    BY <1>2, <1>3, <1>4, <1>5 DEF W!Clk, W!Fsm

LEMMA DeliverStep ==
    ASSUME EnvOK, Deliver PROVE EnvOK'
  <1>1. pkt \in Packets /\ pkt.len \in Nat \ {0} /\ pos \in -1..(pkt.len - 1)
    BY PacketTypes DEF EnvOK
  <1>2. \A p \in Packets : p.len \in Nat \ {0}
    BY PacketAssumption
  <1>3. CASE pos >= 0
    BY <1>1, <1>3 DEF Deliver, EnvOK
  <1>4. CASE ~(pos >= 0)
    BY <1>1, <1>2, <1>4 DEF Deliver, EnvOK
  <1> QED
    BY <1>3, <1>4

LEMMA UdpResultStep ==
    ASSUME udp_result_reg \in U!Result, U!Clk PROVE udp_result_reg' \in U!Result
  BY DEF U!Clk, U!Result, U!Idle, U!Pause, U!HeaderError, U!SendHeader, U!EndData, U!SendData,
         U!StallData, U!vars

LEMMA BoardStep == BoardInv /\ [Next]_vars => BoardInv'
  <1> SUFFICES ASSUME BoardInv, [Next]_vars PROVE BoardInv'
    OBVIOUS
  <1>1. CASE Clk
    <2>1. W!ReplyInv'
      BY <1>1, InputsOK, EngineStep DEF Clk, BoardInv
    <2>2. RegistersOK'
      BY <1>1, RegistersStep DEF Clk
    <2>3. EnvOK' /\ udp_result_reg' \in U!Result
      BY <1>1, DeliverStep, UdpResultStep DEF Clk, BoardInv
    <2>4. WholeWords'
      BY <1>1, WholeWordsStep DEF Clk
    <2> QED
      BY <2>1, <2>2, <2>3, <2>4 DEF BoardInv
  <1>2. CASE DeviceWord
    BY <1>2, DeviceWordStep
  <1>3. CASE UNCHANGED vars
    BY <1>3 DEF vars, wrapperVars, R!vars, R!registers, txVars, envVars, BoardInv, EnvOK,
       RegistersOK, WholeWords, W!ReplyInv, W!TypeOK, W!CountersCleared, W!BulkSizedEarly,
       W!HeaderAnnouncesReply, W!WaitIsBounded
  <1> QED
    BY <1>1, <1>2, <1>3 DEF Next

\* On the board the engine's inputs are of their types, a bulk access is answered in the
\* cycle it is made, and the engine keeps its own invariant (ethernet_core_wrapper.vhd,
\* register_control.vhd, UDP_TX.vhd).
THEOREM BoardInvariant == Spec => []BoardInv
  BY InitBoard, BoardStep, PTL DEF Spec

\* On the board, too, the length announced in the UDP header is the number of bytes
\* that are sent: the register control and the UDP transmitter promise what the engine's own
\* theorem asks for (ethernet_core_wrapper.vhd, register_control.vhd, UDP_TX.vhd).
THEOREM HeaderIsRightOnTheBoard == Spec => []HeaderAnnouncesReply
  <1>1. BoardInv => HeaderAnnouncesReply
    BY DEF BoardInv, W!ReplyInv, HeaderAnnouncesReply
  <1> QED
    BY <1>1, BoardInvariant, PTL

-----------------------------------------------------------------------------
(* The stages of a reply, as long as the MAC takes every byte.  Reply      *)
(* engine, UDP_TX, IPv4_TX and the address resolution agree on the stage   *)
(* of the reply in every cycle, and while its bytes are sent their three   *)
(* counters run in step: no one tells another that it has lost its place,  *)
(* so a counter that is off by one would never be put right.               *)

\* The states of IPv4_TX in which the channel is asked for or used.
NeedsChannel == {"WAIT_CHN", "SEND_ETH_HDR", "SEND_IP_HDR", "SEND_USER_DATA"}

\* Below the reply engine nothing goes on; a reply may have been started in this cycle.
Rest ==
    /\ udp_tx_state = "IDLE" /\ ip_tx_state = "IDLE" /\ ~ip_tx_start_reg /\ ~mac_lookup_req
    /\ tx_start_reg <=> state = "DATA_OUT"
    /\ state = "DATA_OUT" => tx_count = 0
    /\ req_state = "IDLE" \/ (req_state # "LOOKUP" /\ cache_valid)

\* UDP_TX has taken up the reply.
Starting ==
    /\ state = "DATA_OUT" /\ tx_count = 0
    /\ udp_tx_state = "PAUSE" /\ udp_tx_count = 0 /\ ip_tx_start_reg
    /\ ip_tx_state = "IDLE" /\ ~mac_lookup_req
    /\ req_state = "IDLE" \/ (req_state # "LOOKUP" /\ cache_valid)

\* The address of the PC is looked up.  An error that is seen here is a new one.
Resolving ==
    /\ state = "DATA_OUT" /\ ~tx_start_reg /\ tx_count = 0
    /\ udp_tx_state = "SEND_UDP_HDR" /\ udp_tx_count = 0 /\ ip_tx_start_reg
    /\ ip_tx_state = "WAIT_MAC" /\ ip_result_reg # "ERR"
    /\ \/ req_state # "LOOKUP" /\ cache_valid
       \/ mac_lookup_req /\ req_state = "IDLE"
       \/ /\ ~mac_lookup_req /\ ~cache_valid
          /\ \/ req_state \in {"LOOKUP", "WAIT_REPLY"} /\ ~timeout_reg
             \/ req_state = "PAUSE1" /\ timeout_reg

\* The frame is sent.
SendingFrame ==
    /\ state = "DATA_OUT" /\ ~tx_start_reg /\ ip_tx_start_reg
    /\ ip_tx_state \in NeedsChannel /\ ip_result_reg # "ERR"
    /\ ~mac_lookup_req /\ req_state # "LOOKUP" /\ cache_valid
    /\ ip_tx_state = "SEND_USER_DATA" => mac_data_out_ready_reg
    /\ \/ /\ udp_tx_state = "SEND_UDP_HDR" /\ udp_tx_count \in 0..(UDP_HDR_BYTES - 1)
          /\ tx_count = 0
          /\ IF ip_tx_state = "SEND_USER_DATA" THEN ip_tx_count = udp_tx_count + 1
             ELSE udp_tx_count = 0
       \/ /\ udp_tx_state = "SEND_USER_DATA" /\ udp_tx_count = tx_count + 1
          /\ ip_tx_state = "SEND_USER_DATA" /\ ip_tx_count = udp_tx_count + UDP_HDR_BYTES

\* The address was not found: IPv4_TX has told the error; UDP_TX has passed it on while
\* IPv4_TX started again; the reply engine has given up while IPv4_TX fails again.
Failing ==
    /\ timeout_reg /\ ~cache_valid /\ ~tx_start_reg
    /\ \/ /\ state = "DATA_OUT" /\ tx_count = 0
          /\ udp_tx_state = "SEND_UDP_HDR" /\ ip_tx_start_reg
          /\ ip_tx_state = "IDLE" /\ ip_result_reg = "ERR" /\ ~mac_lookup_req
          /\ req_state = "PAUSE2"
       \/ /\ state = "DATA_OUT" /\ udp_result_reg = "ERR"
          /\ udp_tx_state = "IDLE" /\ ~ip_tx_start_reg
          /\ ip_tx_state = "WAIT_MAC" /\ mac_lookup_req /\ req_state = "PAUSE3"
       \/ /\ state = "IDLE" /\ udp_tx_state = "IDLE" /\ ~ip_tx_start_reg
          /\ ip_tx_state = "WAIT_MAC" /\ ~mac_lookup_req /\ req_state = "IDLE"

StageInv ==
    /\ Rest \/ Starting \/ Resolving \/ SendingFrame \/ Failing
    /\ udp_tx_state # "IDLE" => udp_result_reg = "SENDING"
    /\ mac_ready

LEMMA InitStage == Init => StageInv
  BY DEF Init, W!Init, U!Init, I!Init, Q!Init, StageInv, Rest

(* What the resolution does in a cycle of each stage. *)

\* The resolution while nobody asks it: what is in the cache stays valid, and no
\* lookup begins.
LEMMA ResolutionUnasked ==
    ASSUME Q!Clk, ~mac_lookup_req
    PROVE  /\ cache_valid => cache_valid'
           /\ req_state # "LOOKUP" => req_state' # "LOOKUP"
           /\ req_state = "IDLE" => UNCHANGED <<req_state, cache_valid, timeout_reg>>
           /\ req_state = "PAUSE2" => req_state' = "PAUSE3" /\ UNCHANGED <<cache_valid, timeout_reg>>
           /\ req_state = "PAUSE1" => req_state' = "PAUSE2" /\ UNCHANGED <<cache_valid, timeout_reg>>
  <1>1. CASE Q!Idle
    BY <1>1 DEF Q!Idle, Q!vars
  <1>2. CASE Q!StartLookup
    BY <1>2 DEF Q!StartLookup
  <1>3. CASE Q!Lookup
    BY <1>3 DEF Q!Lookup
  <1>4. CASE Q!Receive
    BY <1>4 DEF Q!Receive, Q!Received
  <1>5. CASE Q!WaitReply
    BY <1>5 DEF Q!WaitReply
  <1>6. CASE Q!Pause
    BY <1>6 DEF Q!Pause
  <1> QED
    BY <1>1, <1>2, <1>3, <1>4, <1>5, <1>6 DEF Q!Clk

\* The resolution when it is asked: it begins, unless it has the answer or does not
\* hear the question, and in these two cases something valid is in the cache.
LEMMA ResolutionAsked ==
    ASSUME Q!Clk, mac_lookup_req,
           req_state = "IDLE" \/ (req_state # "LOOKUP" /\ cache_valid)
    PROVE  \/ /\ req_state' = "LOOKUP" /\ ~timeout_reg' /\ ~cache_valid'
              /\ ~Q!got_mac
           \/ req_state' # "LOOKUP" /\ cache_valid'
  <1>1. CASE Q!Idle
    BY <1>1 DEF Q!Idle, Q!vars, Q!InCache
  <1>2. CASE Q!StartLookup
    BY <1>2 DEF Q!StartLookup, Q!got_mac, Q!InCache, Q!Found, Q!Answered, Q!Received
  <1>4. CASE Q!Receive
    BY <1>4 DEF Q!Receive, Q!Received
  <1>5. CASE Q!WaitReply
    BY <1>5 DEF Q!WaitReply
  <1>6. CASE Q!Pause
    BY <1>6 DEF Q!Pause
  <1> QED
    BY <1>1, <1>2, <1>4, <1>5, <1>6 DEF Q!Clk, Q!Lookup

\* The resolution while it works: it answers, or goes on, or gives up, and it has
\* answered when something valid is in the cache.
LEMMA ResolutionWorks ==
    ASSUME Q!Clk, ~mac_lookup_req, ~cache_valid,
           req_state \in {"LOOKUP", "WAIT_REPLY"}, ~timeout_reg
    PROVE  /\ ~Q!got_err
           /\ \/ req_state' # "LOOKUP" /\ cache_valid'
              \/ /\ ~Q!got_mac /\ ~cache_valid'
                 /\ \/ req_state' \in {"LOOKUP", "WAIT_REPLY"} /\ ~timeout_reg'
                    \/ req_state' = "PAUSE1" /\ timeout_reg'
  <1>1. ~Q!got_err
    BY DEF Q!got_err
  <1>2. CASE Q!Lookup
    BY <1>1, <1>2 DEF Q!Lookup, Q!got_mac, Q!Found, Q!Answered, Q!Received
  <1>3. CASE Q!Receive
    BY <1>1, <1>3 DEF Q!Receive, Q!Received
  <1>4. CASE Q!WaitReply
    BY <1>1, <1>4 DEF Q!WaitReply, Q!got_mac, Q!Found, Q!Answered
  <1> QED
    BY <1>2, <1>3, <1>4 DEF Q!Clk, Q!Idle, Q!StartLookup, Q!Pause

\* The resolution when it has given up: it tells an error, and not an answer.
LEMMA ResolutionFails ==
    ASSUME Q!Clk, req_state \in {"IDLE", "PAUSE1", "PAUSE2", "PAUSE3"},
           timeout_reg, ~cache_valid, mac_lookup_req => req_state = "PAUSE3"
    PROVE  /\ ~Q!got_mac /\ (Q!got_err <=> ~mac_lookup_req)
           /\ timeout_reg' /\ ~cache_valid'
           /\ req_state' = CASE req_state = "PAUSE1" -> "PAUSE2"
                             [] req_state = "PAUSE2" -> "PAUSE3"
                             [] OTHER -> "IDLE"
  <1>1. ~Q!got_mac /\ (Q!got_err <=> ~mac_lookup_req)
    BY DEF Q!got_mac, Q!got_err, Q!Found, Q!Answered, Q!Received, Q!InCache
  <1>2. CASE Q!Idle
    BY <1>1, <1>2 DEF Q!Idle, Q!vars
  <1>3. CASE Q!Pause
    BY <1>1, <1>3 DEF Q!Pause
  <1> QED
    BY <1>1, <1>2, <1>3 DEF Q!Clk, Q!StartLookup, Q!Lookup, Q!Receive, Q!Received, Q!WaitReply

(* What the reply engine and the transmitters do in a cycle of each stage. *)

\* Outside DATA_OUT the reply engine begins a reply or leaves its start alone.
LEMMA EngineElsewhere ==
    ASSUME BoardInv, W!Clk, state # "DATA_OUT"
    PROVE  /\ tx_start_reg' = IF state' = "DATA_OUT" THEN TRUE ELSE tx_start_reg
           /\ state' = "DATA_OUT" => state = "WAIT_DATA_OUT_RDY" /\ tx_count' = 0
  <1>1. CASE W!Idle \/ W!StartRequest \/ W!ReceiveByte \/ W!FinishSend
    BY <1>1 DEF W!Idle, W!StartRequest, W!ReceiveByte, W!FinishSend, W!replyVars
  <1>2. CASE W!WaitDataOutRdy
    BY <1>2 DEF W!WaitDataOutRdy, BoardInv, W!ReplyInv, W!CountersCleared
  <1> QED
    BY <1>1, <1>2 DEF W!Clk, W!Fsm, W!AbortReply, W!SendByte, W!Sending

\* In DATA_OUT it goes on unless an error is told, and it ends with the last byte.
LEMMA EngineSends ==
    ASSUME W!Clk, state = "DATA_OUT", WireOfUdp!udp_tx_result # "ERR"
    PROVE  /\ W!Sending /\ W!SendByte
           /\ tx_start_reg' <=> (tx_start_reg /\ WireOfUdp!udp_tx_result # "SENDING")
           /\ UNCHANGED <<tx_count_target, tx_hdr>>
           /\ udp_tx_state # "SEND_USER_DATA" => UNCHANGED <<state, tx_count>>
           /\ udp_tx_state = "SEND_USER_DATA" =>
                IF W!LastByte THEN state' = "FINISH_SEND"
                ELSE state' = state /\ tx_count' = tx_count + 1
  <1>1. W!Sending /\ W!SendByte
    BY DEF W!Clk, W!Fsm, W!Idle, W!StartRequest, W!ReceiveByte, W!WaitDataOutRdy,
           W!AbortReply, W!FinishSend, W!Sending
  <1> QED
    BY <1>1 DEF W!SendByte, WireOfUdp!udp_tx_data_out_ready

\* A datagram fits, and goes to a host.
LEMMA DatagramFits ==
    ASSUME BoardInv
    PROVE  /\ ~(tx_hdr.data_length > UDP_PAYLOAD_BYTES)
           /\ ~(U!total_length > UDP_PAYLOAD_BYTES + UDP_HDR_BYTES)
           /\ U!total_length = tx_hdr.data_length + UDP_HDR_BYTES
           /\ tx_hdr.dst # "all"
  <1>1. tx_hdr \in [dst : Port, data_length : 0..W!UDP_PAYLOAD_BYTES]
    BY DEF BoardInv, W!ReplyInv, W!TypeOK
  <1>2. UDP_PAYLOAD_BYTES = W!UDP_PAYLOAD_BYTES /\ UDP_PAYLOAD_BYTES \in Nat
    BY MaxBlkAssumption
    DEF UDP_PAYLOAD_BYTES, W!UDP_PAYLOAD_BYTES, REG_BULK_LEN_BYTES, W!REG_BULK_LEN_BYTES
  <1>3. tx_hdr.data_length \in 0..UDP_PAYLOAD_BYTES /\ tx_hdr.dst \in Port
    BY <1>1, <1>2
  <1>4. U!total_length = tx_hdr.data_length + UDP_HDR_BYTES
    BY DEF U!total_length
  <1> QED
    BY <1>2, <1>3, <1>4, BoardAssumption

\* The length of the reply and the place in it.
LEMMA Lengths ==
    ASSUME BoardInv, state = "DATA_OUT"
    PROVE  /\ tx_count \in Nat /\ tx_count_target \in Nat /\ tx_count_target >= 4
           /\ tx_hdr.data_length = tx_count_target
           /\ tx_count < tx_count_target
  BY DEF BoardInv, WholeWords, W!ReplyInv, W!TypeOK, W!HeaderAnnouncesReply

LEMMA RestStep ==
    ASSUME BoardInv, StageInv, Clk, Rest PROVE Rest' \/ Starting'
  <1>1. /\ W!Clk /\ Q!Clk /\ U!Clk /\ I!Clk /\ ~mac_lookup_req
    BY DEF Clk, Rest
  <1>2. req_state' = "IDLE" \/ (req_state' # "LOOKUP" /\ cache_valid')
    BY <1>1, ResolutionUnasked DEF Rest
  <1>3. ip_tx_state' = "IDLE" /\ ~mac_lookup_req'
    BY <1>1 DEF Rest, I!Clk, I!Idle, I!Start, I!WaitMac, I!WaitChn, I!SendEthHdr,
                I!SendIpHdr, I!EndData, I!EndOfPacket, I!TakeByte, I!SendData, I!StallData
  <1>4. U!Idle
    BY <1>1 DEF Rest, U!Clk, U!Pause, U!HeaderError, U!SendHeader, U!EndData, U!TakeByte,
                U!SendData, U!StallData
  <1>5. CASE state = "DATA_OUT"
    <2>1. /\ tx_start_reg /\ tx_count = 0 /\ ~ip_tx_start_reg
          /\ udp_tx_state # "SEND_USER_DATA"
      BY <1>5 DEF Rest
    <2>2. WireOfUdp!udp_tx_result = "NONE"
      BY <2>1 DEF WireOfUdp!udp_tx_result
    <2>3. state' = "DATA_OUT" /\ tx_count' = 0
      BY <1>1, <1>5, <2>1, <2>2, EngineSends
    <2>4. udp_tx_state' = "PAUSE" /\ udp_tx_count' = 0 /\ ip_tx_start_reg'
      BY <1>4, <2>1, DatagramFits DEF U!Idle
    <2> QED
      BY <1>2, <1>3, <2>3, <2>4 DEF Starting
  <1>6. CASE state # "DATA_OUT"
    <2>1. ~tx_start_reg
      BY <1>6 DEF Rest
    <2>2. tx_start_reg' <=> state' = "DATA_OUT"
      BY <1>1, <1>6, <2>1, EngineElsewhere
    <2>3. state' = "DATA_OUT" => tx_count' = 0
      BY <1>1, <1>6, EngineElsewhere
    <2>4. udp_tx_state' = "IDLE" /\ ~ip_tx_start_reg'
      BY <1>4, <2>1 DEF U!Idle, Rest
    <2> QED
      BY <1>2, <1>3, <2>2, <2>3, <2>4 DEF Rest
  <1> QED
    BY <1>5, <1>6

LEMMA StartingStep ==
    ASSUME BoardInv, StageInv, Clk, Starting PROVE Resolving'
  <1>1. /\ W!Clk /\ Q!Clk /\ U!Clk /\ I!Clk
    BY DEF Clk
  <1>2. req_state' = "IDLE" \/ (req_state' # "LOOKUP" /\ cache_valid')
    BY <1>1, ResolutionUnasked DEF Starting
  <1>3. WireOfUdp!udp_tx_result = "SENDING"
    BY DEF Starting, StageInv, WireOfUdp!udp_tx_result
  <1>4. state' = "DATA_OUT" /\ tx_count' = 0 /\ ~tx_start_reg'
    BY <1>1, <1>3, EngineSends DEF Starting
  <1>5. U!Pause
    BY <1>1 DEF Starting, U!Clk, U!Idle, U!HeaderError, U!SendHeader, U!EndData, U!TakeByte,
                U!SendData, U!StallData
  <1>6. udp_tx_state' = "SEND_UDP_HDR" /\ udp_tx_count' = 0 /\ ip_tx_start_reg'
    BY <1>5 DEF Starting, U!Pause
  <1>7. I!Start
    BY <1>1 DEF Starting, I!Clk, I!Idle, I!WaitMac, I!WaitChn, I!SendEthHdr,
                I!SendIpHdr, I!EndData, I!EndOfPacket, I!TakeByte, I!SendData, I!StallData
  <1>8. ip_tx_state' = "WAIT_MAC" /\ ip_result_reg' = "SENDING" /\ mac_lookup_req'
    BY <1>7, DatagramFits DEF I!Start
  <1> QED
    BY <1>2, <1>4, <1>6, <1>8 DEF Resolving

\* UDP_TX waits in its header until IPv4_TX takes bytes, and the reply engine waits for it.
LEMMA HeaderWaits ==
    ASSUME StageInv, W!Clk, U!Clk, state = "DATA_OUT", ~tx_start_reg,
           udp_tx_state = "SEND_UDP_HDR", ip_result_reg # "ERR",
           ~WireOfIp!ip_tx_data_out_ready
    PROVE  /\ UNCHANGED <<udp_tx_state, udp_tx_count, ip_tx_start_reg, state, tx_count>>
           /\ ~tx_start_reg'
  <1>1. U!SendHeader
    BY DEF U!Clk, U!Idle, U!Pause, U!HeaderError, U!EndData, U!TakeByte, U!SendData, U!StallData
  <1>2. WireOfUdp!udp_tx_result = "SENDING"
    BY DEF StageInv, WireOfUdp!udp_tx_result
  <1>3. UNCHANGED <<state, tx_count>> /\ ~tx_start_reg'
    BY <1>2, EngineSends
  <1> QED
    BY <1>1, <1>3 DEF U!SendHeader

LEMMA ResolvingStep ==
    ASSUME BoardInv, StageInv, Clk, Resolving PROVE Resolving' \/ SendingFrame' \/ Failing'
  <1> USE BoardAssumption
  <1>1. W!Clk /\ Q!Clk /\ U!Clk /\ I!Clk
    BY DEF Clk
  <1>2. /\ udp_tx_state' = "SEND_UDP_HDR" /\ udp_tx_count' = 0 /\ ip_tx_start_reg'
        /\ state' = "DATA_OUT" /\ tx_count' = 0 /\ ~tx_start_reg'
    BY <1>1, HeaderWaits DEF Resolving, WireOfIp!ip_tx_data_out_ready
  <1>3. I!WaitMac
    BY <1>1 DEF Resolving, I!Clk, I!Idle, I!Start, I!WaitChn, I!SendEthHdr, I!SendIpHdr,
                I!EndData, I!EndOfPacket, I!TakeByte, I!SendData, I!StallData
  <1>4. ~mac_lookup_req' /\ arp.got_mac = Q!got_mac /\ arp.got_err = Q!got_err
    BY <1>3 DEF I!WaitMac, arp
  <1>5. CASE Q!got_mac
    <2>1. /\ ip_tx_state' \in {"WAIT_CHN", "SEND_ETH_HDR"} /\ ip_result_reg' # "ERR"
      BY <1>3, <1>4, <1>5 DEF I!WaitMac, Resolving
    <2>2. req_state' # "LOOKUP" /\ cache_valid'
      <3>1. CASE mac_lookup_req
        BY <1>1, <1>5, <3>1, ResolutionAsked DEF Resolving
      <3>2. CASE ~mac_lookup_req /\ req_state # "LOOKUP" /\ cache_valid
        BY <1>1, <3>2, ResolutionUnasked
      <3>3. CASE /\ ~mac_lookup_req /\ ~cache_valid
                 /\ req_state \in {"LOOKUP", "WAIT_REPLY"} /\ ~timeout_reg
        BY <1>1, <1>5, <3>3, ResolutionWorks
      <3>4. ~(~mac_lookup_req /\ ~cache_valid /\ req_state = "PAUSE1" /\ timeout_reg)
        BY <1>1, <1>5, ResolutionFails
      <3> QED
        BY <3>1, <3>2, <3>3, <3>4 DEF Resolving
    <2>3. 0 \in 0..(UDP_HDR_BYTES - 1)
      OBVIOUS
    <2> QED
      BY <1>2, <1>4, <2>1, <2>2, <2>3 DEF SendingFrame, NeedsChannel
  <1>6. CASE ~Q!got_mac /\ Q!got_err
    <2>1. ip_tx_state' = "IDLE" /\ ip_result_reg' = "ERR"
      BY <1>3, <1>4, <1>6 DEF I!WaitMac
    <2>2. ~mac_lookup_req /\ ~cache_valid /\ req_state = "PAUSE1" /\ timeout_reg
      <3>1. ~mac_lookup_req /\ timeout_reg
        BY <1>6 DEF Q!got_err
      <3>2. ~cache_valid
        BY <1>6, <3>1 DEF Q!got_mac
      <3> QED
        BY <3>1, <3>2 DEF Resolving
    <2>3. timeout_reg' /\ ~cache_valid' /\ req_state' = "PAUSE2"
      BY <1>1, <2>2, ResolutionFails
    <2> QED
      BY <1>2, <1>4, <2>1, <2>3 DEF Failing
  <1>7. CASE ~Q!got_mac /\ ~Q!got_err
    <2>1. ip_tx_state' = "WAIT_MAC" /\ ip_result_reg' # "ERR"
      BY <1>3, <1>4, <1>7 DEF I!WaitMac, Resolving
    <2>2. CASE mac_lookup_req
      <3>1. \/ req_state' = "LOOKUP" /\ ~timeout_reg' /\ ~cache_valid'
            \/ req_state' # "LOOKUP" /\ cache_valid'
        BY <1>1, <2>2, ResolutionAsked DEF Resolving
      <3> QED
        BY <1>2, <1>4, <2>1, <3>1 DEF Resolving
    <2>3. CASE /\ ~mac_lookup_req /\ ~cache_valid
               /\ req_state \in {"LOOKUP", "WAIT_REPLY"} /\ ~timeout_reg
      <3>1. \/ req_state' # "LOOKUP" /\ cache_valid'
            \/ /\ ~cache_valid'
               /\ \/ req_state' \in {"LOOKUP", "WAIT_REPLY"} /\ ~timeout_reg'
                  \/ req_state' = "PAUSE1" /\ timeout_reg'
        BY <1>1, <2>3, ResolutionWorks
      <3> QED
        BY <1>2, <1>4, <2>1, <3>1 DEF Resolving
    <2>4. ~(~mac_lookup_req /\ cache_valid)
      BY <1>7 DEF Q!got_mac
    <2>5. ~(~mac_lookup_req /\ ~cache_valid /\ req_state = "PAUSE1" /\ timeout_reg)
      BY <1>1, <1>7, ResolutionFails
    <2> QED
      BY <2>2, <2>3, <2>4, <2>5 DEF Resolving
  <1> QED
    BY <1>5, <1>6, <1>7

LEMMA FailingStep ==
    ASSUME BoardInv, StageInv, Clk, Failing PROVE Failing' \/ Rest'
  <1>1. W!Clk /\ Q!Clk /\ U!Clk /\ I!Clk
    BY DEF Clk
  <1>2. CASE udp_tx_state = "SEND_UDP_HDR"
    <2>1. /\ ip_tx_state = "IDLE" /\ req_state = "PAUSE2" /\ timeout_reg /\ ~cache_valid
          /\ ip_result_reg = "ERR" /\ ip_tx_start_reg /\ ~mac_lookup_req
          /\ state = "DATA_OUT" /\ ~tx_start_reg
      BY <1>2 DEF Failing
    <2>2. U!HeaderError
      BY <1>1, <1>2, <2>1 DEF U!Clk, U!Idle, U!Pause, U!SendHeader, U!EndData, U!TakeByte,
                              U!SendData, U!StallData
    <2>3. udp_tx_state' = "IDLE" /\ ~ip_tx_start_reg' /\ udp_result_reg' = "ERR"
      BY <2>2 DEF U!HeaderError
    <2>4. I!Start
      BY <1>1, <2>1 DEF I!Clk, I!Idle, I!WaitMac, I!WaitChn, I!SendEthHdr, I!SendIpHdr,
                        I!EndData, I!EndOfPacket, I!TakeByte, I!SendData, I!StallData
    <2>5. ip_tx_state' = "WAIT_MAC" /\ mac_lookup_req'
      BY <2>4, DatagramFits DEF I!Start
    <2>6. req_state' = "PAUSE3" /\ timeout_reg' /\ ~cache_valid'
      BY <1>1, <2>1, ResolutionFails
    <2>7. WireOfUdp!udp_tx_result = "SENDING"
      BY <1>2, <2>1 DEF StageInv, WireOfUdp!udp_tx_result
    <2>8. state' = "DATA_OUT" /\ ~tx_start_reg'
      BY <1>1, <1>2, <2>1, <2>7, EngineSends
    <2> QED
      BY <2>3, <2>5, <2>6, <2>8 DEF Failing
  <1>3. CASE udp_tx_state = "IDLE"
    <2>1. /\ ip_tx_state = "WAIT_MAC" /\ ~ip_tx_start_reg /\ timeout_reg /\ ~cache_valid
          /\ ~tx_start_reg
          /\ \/ req_state = "PAUSE3" /\ mac_lookup_req /\ state = "DATA_OUT"
                /\ udp_result_reg = "ERR"
             \/ req_state = "IDLE" /\ ~mac_lookup_req /\ state = "IDLE"
      BY <1>3 DEF Failing
    <2>2. U!Idle
      BY <1>1, <1>3 DEF U!Clk, U!Pause, U!HeaderError, U!SendHeader, U!EndData, U!TakeByte,
                        U!SendData, U!StallData
    <2>3. udp_tx_state' = "IDLE" /\ ~ip_tx_start_reg'
      BY <1>3, <2>1, <2>2 DEF U!Idle
    <2>4. I!WaitMac
      BY <1>1, <2>1 DEF I!Clk, I!Idle, I!Start, I!WaitChn, I!SendEthHdr, I!SendIpHdr,
                        I!EndData, I!EndOfPacket, I!TakeByte, I!SendData, I!StallData
    <2>5. /\ ~Q!got_mac /\ (Q!got_err <=> ~mac_lookup_req)
          /\ timeout_reg' /\ ~cache_valid' /\ req_state' = "IDLE"
      BY <1>1, <2>1, ResolutionFails
    <2>6. CASE mac_lookup_req
      <3>1. ip_tx_state' = "WAIT_MAC" /\ ~mac_lookup_req'
        BY <2>1, <2>4, <2>5, <2>6 DEF I!WaitMac, arp
      <3>2. state = "DATA_OUT" /\ WireOfUdp!udp_tx_result = "ERR"
        BY <2>1, <2>6 DEF WireOfUdp!udp_tx_result
      <3>3. W!AbortReply
        BY <1>1, <3>2 DEF W!Clk, W!Fsm, W!Idle, W!StartRequest, W!ReceiveByte, W!WaitDataOutRdy,
                          W!SendByte, W!Sending, W!FinishSend
      <3>4. state' = "IDLE" /\ ~tx_start_reg'
        BY <3>3 DEF W!AbortReply
      <3> QED
        BY <2>3, <2>5, <3>1, <3>4 DEF Failing
    <2>7. CASE ~mac_lookup_req
      <3>1. ip_tx_state' = "IDLE" /\ ~mac_lookup_req'
        BY <2>1, <2>4, <2>5, <2>7 DEF I!WaitMac, arp
      <3>2. state = "IDLE"
        BY <2>1, <2>7
      <3>3. ~tx_start_reg' /\ state' # "DATA_OUT"
        BY <1>1, <2>1, <3>2, EngineElsewhere
      <3> QED
        BY <2>3, <2>5, <3>1, <3>3 DEF Rest
    <2> QED
      BY <2>6, <2>7
  <1> QED
    BY <1>2, <1>3 DEF Failing

\* While user data is sent, the last byte is the last one to all three, and each of
\* them takes every byte.
LEMMA LastByteAgreed ==
    ASSUME BoardInv, StageInv, state = "DATA_OUT", udp_tx_state = "SEND_USER_DATA"
    PROVE  /\ SendingFrame /\ ip_tx_state = "SEND_USER_DATA" /\ WireOfIp!ip_tx_data_out_ready
           /\ WireOfUdp!udp_tx_result = "SENDING" /\ W!Sending
           /\ U!TakeByte /\ I!TakeByte
           /\ tx_count = tx_count_target - 1 => W!LastByte
           /\ udp_tx_count = tx_hdr.data_length <=> tx_count = tx_count_target - 1
           /\ W!data_out_last <=> W!LastByte
           /\ I!EndOfPacket <=> W!LastByte
  <1> USE BoardAssumption
  <1>1. /\ SendingFrame /\ ip_tx_state = "SEND_USER_DATA" /\ udp_tx_count = tx_count + 1
        /\ ip_tx_count = udp_tx_count + UDP_HDR_BYTES
    BY DEF StageInv, Rest, Starting, Resolving, SendingFrame, Failing
  <1>2. WireOfIp!ip_tx_data_out_ready
    BY <1>1 DEF StageInv, SendingFrame, WireOfIp!ip_tx_data_out_ready
  <1>3. WireOfUdp!udp_tx_result = "SENDING" /\ W!Sending /\ WireOfUdp!udp_tx_data_out_ready
    BY <1>1 DEF StageInv, SendingFrame, WireOfUdp!udp_tx_result, W!Sending,
                WireOfUdp!udp_tx_data_out_ready
  <1>4. W!data_out_valid /\ (W!data_out_last <=> W!LastByte)
    BY <1>3 DEF W!data_out_valid, W!data_out_last
  <1>5. U!TakeByte /\ U!ip_tx_data_out_valid /\ (U!ip_tx_data_out_last <=> W!LastByte)
    BY <1>2, <1>4 DEF U!TakeByte, U!ip_tx_data_out_valid, U!ip_tx_data_out_last
  <1>6. I!TakeByte
    BY <1>1, <1>5 DEF StageInv, I!TakeByte
  <1>7. tx_count = tx_count_target - 1 => W!LastByte
    BY Lengths DEF W!LastByte
  <1>8. /\ udp_tx_count = tx_hdr.data_length <=> tx_count = tx_count_target - 1
        /\ ip_tx_count = U!total_length <=> tx_count = tx_count_target - 1
    BY <1>1, Lengths DEF U!total_length
  <1>9. I!EndOfPacket <=> W!LastByte
    BY <1>5, <1>6, <1>7, <1>8 DEF I!EndOfPacket
  <1> QED
    BY <1>1, <1>2, <1>3, <1>4, <1>5, <1>6, <1>7, <1>8, <1>9

LEMMA SendingStep ==
    ASSUME BoardInv, StageInv, Clk, SendingFrame PROVE SendingFrame' \/ Rest'
  <1> USE BoardAssumption
  <1>1. /\ W!Clk /\ Q!Clk /\ U!Clk /\ I!Clk /\ mac_ready /\ mac_data_out_ready_reg'
        /\ state = "DATA_OUT" /\ ~tx_start_reg /\ ip_tx_start_reg
        /\ ip_tx_state \in NeedsChannel /\ ip_result_reg # "ERR"
        /\ ~mac_lookup_req /\ req_state # "LOOKUP" /\ cache_valid
    BY DEF Clk, SendingFrame, StageInv, I!Clk
  <1>2. req_state' # "LOOKUP" /\ cache_valid'
    BY <1>1, ResolutionUnasked
  <1>3. CASE ip_tx_state # "SEND_USER_DATA"
    <2>1. /\ udp_tx_state = "SEND_UDP_HDR" /\ udp_tx_count = 0
          /\ ~WireOfIp!ip_tx_data_out_ready /\ tx_count = 0
      BY <1>3 DEF SendingFrame, WireOfIp!ip_tx_data_out_ready
    <2>2. /\ udp_tx_state' = "SEND_UDP_HDR" /\ udp_tx_count' = 0 /\ ip_tx_start_reg'
          /\ state' = "DATA_OUT" /\ tx_count' = 0 /\ ~tx_start_reg'
      BY <1>1, <2>1, HeaderWaits
    <2>3. /\ ip_tx_state' \in NeedsChannel /\ ip_result_reg' # "ERR" /\ ~mac_lookup_req'
          /\ ip_tx_state' = "SEND_USER_DATA" => ip_tx_count' = 1
      <3>1. CASE I!WaitChn
        BY <1>1, <3>1 DEF I!WaitChn, NeedsChannel
      <3>2. CASE I!SendEthHdr
        BY <1>1, <3>2 DEF I!SendEthHdr, NeedsChannel
      <3>3. CASE I!SendIpHdr
        BY <1>1, <3>3 DEF I!SendIpHdr, NeedsChannel
      <3> QED
        BY <1>1, <1>3, <3>1, <3>2, <3>3
           DEF NeedsChannel, I!Clk, I!Idle, I!Start, I!WaitMac, I!EndData, I!EndOfPacket,
               I!TakeByte, I!SendData, I!StallData
    <2>4. 0 \in 0..(UDP_HDR_BYTES - 1)
      OBVIOUS
    <2> QED
      BY <1>1, <1>2, <2>2, <2>3, <2>4 DEF SendingFrame
  <1>4. CASE ip_tx_state = "SEND_USER_DATA" /\ udp_tx_state = "SEND_UDP_HDR"
    <2>1. /\ udp_tx_count \in 0..(UDP_HDR_BYTES - 1) /\ ip_tx_count = udp_tx_count + 1
          /\ WireOfIp!ip_tx_data_out_ready /\ tx_count = 0
      BY <1>1, <1>4 DEF SendingFrame, WireOfIp!ip_tx_data_out_ready
    <2>2. I!TakeByte /\ ~I!EndOfPacket
      <3>1. I!TakeByte
        BY <1>1, <1>4, <2>1 DEF I!TakeByte, U!ip_tx_data_out_valid
      <3>2. ~U!ip_tx_data_out_last
        BY <1>4 DEF U!ip_tx_data_out_last
      <3>3. ip_tx_count # U!total_length
        BY <1>1, <2>1, Lengths DEF U!total_length
      <3> QED
        BY <3>1, <3>2, <3>3 DEF I!EndOfPacket
    <2>3. I!SendData
      BY <1>1, <1>4, <2>2 DEF I!Clk, I!Idle, I!Start, I!WaitMac, I!WaitChn, I!SendEthHdr,
                              I!SendIpHdr, I!EndData, I!StallData
    <2>4. /\ ip_tx_state' = "SEND_USER_DATA" /\ ip_tx_count' = udp_tx_count + 2
          /\ ip_result_reg' # "ERR" /\ ~mac_lookup_req'
      BY <1>1, <1>4, <2>1, <2>3 DEF I!SendData
    <2>5. U!SendHeader
      BY <1>1, <1>4 DEF U!Clk, U!Idle, U!Pause, U!HeaderError, U!EndData, U!TakeByte,
                        U!SendData, U!StallData
    <2>6. /\ ip_tx_start_reg'
          /\ IF udp_tx_count = UDP_HDR_BYTES - 1
             THEN udp_tx_state' = "SEND_USER_DATA" /\ udp_tx_count' = 1
             ELSE udp_tx_state' = "SEND_UDP_HDR" /\ udp_tx_count' = udp_tx_count + 1
      BY <1>1, <1>4, <2>1, <2>5 DEF U!SendHeader
    <2>7. state' = "DATA_OUT" /\ tx_count' = 0 /\ ~tx_start_reg'
      <3>1. WireOfUdp!udp_tx_result = "SENDING"
        BY <1>1, <1>4 DEF StageInv, WireOfUdp!udp_tx_result
      <3> QED
        BY <1>1, <1>4, <2>1, <3>1, EngineSends
    <2>8. CASE udp_tx_count = UDP_HDR_BYTES - 1
      <3>1. ip_tx_count' = udp_tx_count' + UDP_HDR_BYTES /\ udp_tx_count' = tx_count' + 1
        BY <2>1, <2>4, <2>6, <2>7, <2>8
      <3> QED
        BY <1>1, <1>2, <2>4, <2>6, <2>7, <2>8, <3>1 DEF SendingFrame, NeedsChannel
    <2>9. CASE udp_tx_count # UDP_HDR_BYTES - 1
      <3>1. ip_tx_count' = udp_tx_count' + 1 /\ udp_tx_count' \in 0..(UDP_HDR_BYTES - 1)
        BY <2>1, <2>4, <2>6, <2>9
      <3> QED
        BY <1>1, <1>2, <2>4, <2>6, <2>7, <2>9, <3>1 DEF SendingFrame, NeedsChannel
    <2> QED
      BY <2>8, <2>9
  <1>5. CASE udp_tx_state = "SEND_USER_DATA"
    <2>1. /\ ip_tx_state = "SEND_USER_DATA" /\ WireOfUdp!udp_tx_result = "SENDING"
          /\ U!TakeByte /\ I!TakeByte /\ (I!EndOfPacket <=> W!LastByte)
          /\ (udp_tx_count = tx_hdr.data_length \/ W!data_out_last) <=> W!LastByte
      BY <1>1, <1>5, LastByteAgreed
    <2>2. U!EndData \/ U!SendData
      BY <1>1, <1>5, <2>1 DEF U!Clk, U!Idle, U!Pause, U!HeaderError, U!SendHeader, U!StallData
    <2>3. I!EndData \/ I!SendData
      BY <1>1, <2>1 DEF I!Clk, I!Idle, I!Start, I!WaitMac, I!WaitChn, I!SendEthHdr,
                        I!SendIpHdr, I!StallData
    <2>4. CASE W!LastByte
      <3>1. udp_tx_state' = "IDLE" /\ ~ip_tx_start_reg'
        BY <2>1, <2>2, <2>4 DEF U!EndData, U!SendData
      <3>2. ip_tx_state' = "IDLE" /\ ~mac_lookup_req'
        BY <1>1, <2>1, <2>3, <2>4 DEF I!EndData, I!SendData
      <3>3. state' = "FINISH_SEND" /\ ~tx_start_reg'
        BY <1>1, <1>5, <2>1, <2>4, EngineSends
      <3> QED
        BY <1>2, <3>1, <3>2, <3>3 DEF Rest
    <2>5. CASE ~W!LastByte
      <3>1. /\ udp_tx_state' = "SEND_USER_DATA" /\ ip_tx_start_reg'
            /\ udp_tx_count' = udp_tx_count + 1
        BY <1>1, <1>5, <2>1, <2>2, <2>5 DEF U!EndData, U!SendData
      <3>2. /\ ip_tx_state' = "SEND_USER_DATA" /\ ip_tx_count' = ip_tx_count + 1
            /\ ip_result_reg' # "ERR" /\ ~mac_lookup_req'
        BY <1>1, <2>1, <2>3, <2>5 DEF I!EndData, I!SendData
      <3>3. state' = "DATA_OUT" /\ tx_count' = tx_count + 1 /\ ~tx_start_reg'
        BY <1>1, <1>5, <2>1, <2>5, EngineSends
      <3>4. /\ ip_tx_count = udp_tx_count + UDP_HDR_BYTES /\ udp_tx_count = tx_count + 1
            /\ tx_count \in Nat
        BY <1>1, <1>5, Lengths DEF SendingFrame
      <3>5. ip_tx_count' = udp_tx_count' + UDP_HDR_BYTES /\ udp_tx_count' = tx_count' + 1
        BY <3>1, <3>2, <3>3, <3>4
      <3> QED
        BY <1>1, <1>2, <3>1, <3>2, <3>3, <3>5 DEF SendingFrame, NeedsChannel
    <2> QED
      BY <2>4, <2>5
  <1> QED
    BY <1>3, <1>4, <1>5 DEF SendingFrame

\* While UDP_TX is not idle its result says that it is sending.
LEMMA ResultStep ==
    ASSUME StageInv, U!Clk PROVE udp_tx_state' # "IDLE" => udp_result_reg' = "SENDING"
  <1>1. CASE U!Idle
    BY <1>1 DEF U!Idle
  <1>2. CASE U!Pause
    BY <1>2 DEF U!Pause, StageInv
  <1>3. CASE U!HeaderError
    BY <1>3 DEF U!HeaderError
  <1>4. CASE U!SendHeader
    BY <1>4 DEF U!SendHeader, StageInv
  <1>5. CASE U!EndData
    BY <1>5 DEF U!EndData
  <1>6. CASE U!SendData
    BY <1>6 DEF U!SendData, U!TakeByte, StageInv
  <1>7. CASE U!StallData
    BY <1>7 DEF U!StallData, U!vars, StageInv
  <1> QED
    BY <1>1, <1>2, <1>3, <1>4, <1>5, <1>6, <1>7 DEF U!Clk

LEMMA StageStep == ~MacStalls /\ BoardInv /\ StageInv /\ [Next]_vars => StageInv'
  <1> SUFFICES ASSUME ~MacStalls, BoardInv, StageInv, [Next]_vars PROVE StageInv'
    OBVIOUS
  <1>1. CASE Clk
    <2>1. (Rest \/ Starting \/ Resolving \/ SendingFrame \/ Failing)'
      BY <1>1, RestStep, StartingStep, ResolvingStep, SendingStep, FailingStep DEF StageInv
    <2>2. udp_tx_state' # "IDLE" => udp_result_reg' = "SENDING"
      BY <1>1, ResultStep DEF Clk
    <2>3. mac_ready'
      BY <1>1 DEF Clk, Mac
    <2> QED
      BY <2>1, <2>2, <2>3 DEF StageInv
  <1>2. CASE DeviceWord \/ UNCHANGED vars
    <2>1. UNCHANGED <<wrapperVars, txVars, envVars>>
      BY <1>2 DEF DeviceWord, vars
    <2> QED
      BY <2>1 DEF wrapperVars, txVars, envVars, StageInv, Rest, Starting, Resolving,
                  SendingFrame, Failing
  <1> QED
    BY <1>1, <1>2 DEF Next

\* The stages follow one another as told, in every reachable state, and the three byte
\* counters stay in step although each starts by itself (tx_count of
\* ethernet_core_wrapper.vhd, UDP_TX.vhd and IPv4_TX.vhd).
THEOREM StageInvariant == ASSUME ~MacStalls PROVE Spec => []StageInv
  <1>1. BoardInv /\ StageInv /\ [Next]_vars => StageInv'
    BY StageStep
  <1> QED
    BY <1>1, InitStage, BoardInvariant, PTL DEF Spec

-----------------------------------------------------------------------------
(* The types of the transmitters.  Their counters have the width of the    *)
(* longest datagram because the stages above keep them within it.          *)

TransmittersOK ==
    /\ udp_tx_state \in U!State /\ ip_tx_start_reg \in BOOLEAN
    /\ udp_tx_count \in 0..(UDP_PAYLOAD_BYTES + UDP_HDR_BYTES)
    /\ ip_tx_state \in I!State /\ ip_result_reg \in I!Result
    /\ ip_tx_count \in 0..(UDP_PAYLOAD_BYTES + UDP_HDR_BYTES + ETH_HDR_BYTES + IP_HDR_BYTES)
    /\ tx_mac_chn_reqd \in BOOLEAN /\ mac_lookup_req \in BOOLEAN /\ req_state \in Q!State
    /\ ip_tx_state \in {"WAIT_MAC", "WAIT_CHN"} => ip_tx_count = 0
    /\ ip_tx_state = "SEND_ETH_HDR" => ip_tx_count < ETH_HDR_BYTES
    /\ ip_tx_state = "SEND_IP_HDR" => ip_tx_count < IP_HDR_BYTES

LEMMA InitTransmitters == Init => TransmittersOK
  <1>1. UDP_PAYLOAD_BYTES \in Nat
    BY MaxBlkAssumption DEF UDP_PAYLOAD_BYTES, REG_BULK_LEN_BYTES
  <1>2. /\ 0 \in 0..(UDP_PAYLOAD_BYTES + UDP_HDR_BYTES)
        /\ 0 \in 0..(UDP_PAYLOAD_BYTES + UDP_HDR_BYTES + ETH_HDR_BYTES + IP_HDR_BYTES)
    BY <1>1, BoardAssumption
  <1> QED
    BY <1>2 DEF Init, U!Init, I!Init, Q!Init, TransmittersOK, U!State, I!State, I!Result, Q!State

LEMMA TransmittersStep ==
    ASSUME BoardInv, StageInv, TransmittersOK, Clk PROVE TransmittersOK'
  <1> USE BoardAssumption
  <1> DEFINE P == UDP_PAYLOAD_BYTES
  <1>1. P \in Nat /\ P >= 8
    BY MaxBlkAssumption DEF UDP_PAYLOAD_BYTES, REG_BULK_LEN_BYTES
  <1>2. udp_tx_state = "SEND_USER_DATA" => tx_count \in Nat /\ tx_count_target <= P /\ tx_count_target \in Nat
                                           /\ tx_count < tx_count_target /\ state = "DATA_OUT"
                                           /\ tx_hdr.data_length = tx_count_target
    <2>1. udp_tx_state = "SEND_USER_DATA" => state = "DATA_OUT"
      BY DEF StageInv, Rest, Starting, Resolving, SendingFrame, Failing
    <2>2. tx_count_target \in 0..W!UDP_PAYLOAD_BYTES
      BY DEF BoardInv, W!ReplyInv, W!TypeOK
    <2> QED
      BY <2>1, <2>2, Lengths
         DEF UDP_PAYLOAD_BYTES, W!UDP_PAYLOAD_BYTES, REG_BULK_LEN_BYTES, W!REG_BULK_LEN_BYTES
  <1> HIDE DEF P
  <1>3. /\ udp_tx_count \in 0..(P + UDP_HDR_BYTES)
        /\ udp_tx_state = "SEND_UDP_HDR" => udp_tx_count <= UDP_HDR_BYTES - 1 \/ Failing
        /\ udp_tx_state = "SEND_USER_DATA" => udp_tx_count < P + 1
    BY <1>1, <1>2 DEF TransmittersOK, StageInv, Rest, Starting, Resolving, SendingFrame, Failing, P
  <1>4. udp_tx_state' \in U!State /\ ip_tx_start_reg' \in BOOLEAN
    BY DEF TransmittersOK, Clk, U!Clk, U!Idle, U!Pause, U!HeaderError, U!SendHeader, U!EndData,
           U!SendData, U!StallData, U!vars, U!State
  <1>5. udp_tx_count' \in 0..(P + UDP_HDR_BYTES)
    <2>1. CASE U!Idle \/ U!Pause \/ U!HeaderError \/ U!EndData \/ U!StallData
      BY <1>1, <1>3, <2>1 DEF U!Idle, U!Pause, U!HeaderError, U!EndData, U!StallData, U!vars
    <2>2. CASE U!SendHeader
      <3>1. ip_result_reg # "ERR" /\ udp_tx_state = "SEND_UDP_HDR"
        BY <2>2 DEF U!SendHeader
      <3>2. udp_tx_count <= UDP_HDR_BYTES - 1
        BY <1>3, <3>1 DEF Failing
      <3> QED
        BY <1>1, <1>3, <2>2, <3>2 DEF U!SendHeader
    <2>3. CASE U!SendData
      BY <1>1, <1>3, <2>3 DEF U!SendData, U!TakeByte
    <2> QED
      BY <2>1, <2>2, <2>3 DEF Clk, U!Clk
  <1>6. /\ ip_tx_state' \in I!State /\ ip_result_reg' \in I!Result
        /\ tx_mac_chn_reqd' \in BOOLEAN /\ mac_lookup_req' \in BOOLEAN
    BY DEF TransmittersOK, Clk, I!Clk, I!Idle, I!Start, I!WaitMac, I!WaitChn, I!SendEthHdr,
           I!SendIpHdr, I!EndData, I!EndOfPacket, I!TakeByte, I!SendData, I!StallData, I!State,
           I!Result
  <1>7. req_state' \in Q!State
    BY DEF TransmittersOK, Clk, Q!Clk, Q!Idle, Q!StartLookup, Q!Lookup, Q!Receive, Q!WaitReply,
           Q!Pause, Q!vars, Q!State
  <1>8. /\ ip_tx_count' \in 0..(P + UDP_HDR_BYTES + ETH_HDR_BYTES + IP_HDR_BYTES)
        /\ ip_tx_state' \in {"WAIT_MAC", "WAIT_CHN"} => ip_tx_count' = 0
        /\ ip_tx_state' = "SEND_ETH_HDR" => ip_tx_count' < ETH_HDR_BYTES
        /\ ip_tx_state' = "SEND_IP_HDR" => ip_tx_count' < IP_HDR_BYTES
    <2> DEFINE B == P + UDP_HDR_BYTES + ETH_HDR_BYTES + IP_HDR_BYTES
    <2>1. /\ ip_tx_count \in 0..B /\ B \in Nat
          /\ ip_tx_state \in {"WAIT_MAC", "WAIT_CHN"} => ip_tx_count = 0
          /\ ip_tx_state = "SEND_ETH_HDR" => ip_tx_count < ETH_HDR_BYTES
          /\ ip_tx_state = "SEND_IP_HDR" => ip_tx_count < IP_HDR_BYTES
      BY <1>1 DEF TransmittersOK, P
    <2>2. CASE I!Idle \/ I!Start
      BY <1>1, <2>2 DEF I!Idle, I!Start
    <2>3. CASE I!WaitMac \/ I!WaitChn
      BY <1>1, <2>1, <2>3 DEF I!WaitMac, I!WaitChn
    <2>4. CASE I!SendEthHdr \/ I!SendIpHdr
      BY <1>1, <2>1, <2>4 DEF I!SendEthHdr, I!SendIpHdr
    <2>5. CASE I!EndData \/ I!StallData
      BY <1>1, <2>1, <2>5 DEF I!EndData, I!StallData
    <2>6. CASE I!SendData
      <3>1. ip_tx_state = "SEND_USER_DATA" /\ ip_tx_state' = ip_tx_state /\ ip_tx_count' = ip_tx_count + 1
        BY <2>6 DEF I!SendData, I!TakeByte
      <3>2. SendingFrame
        BY <3>1 DEF StageInv, Rest, Starting, Resolving, SendingFrame, Failing
      <3>3. ip_tx_count <= P + UDP_HDR_BYTES
        BY <1>1, <1>2, <1>3, <3>1, <3>2 DEF SendingFrame
      <3> QED
        BY <1>1, <2>1, <3>1, <3>3
    <2> QED
      BY <2>2, <2>3, <2>4, <2>5, <2>6 DEF Clk, I!Clk
  <1> QED
    BY <1>4, <1>5, <1>6, <1>7, <1>8 DEF TransmittersOK, P

\* Every register of the board has its width: the counters of the three transmitting
\* components in particular, none of which looks at another's (UDP_TX.vhd, IPv4_TX.vhd).
THEOREM BoardTypes == ASSUME ~MacStalls PROVE Spec => []TypeOK
  <1>1. BoardInv /\ StageInv /\ TransmittersOK /\ [Next]_vars => TransmittersOK'
    <2>1. DeviceWord \/ UNCHANGED vars => UNCHANGED txVars
      BY DEF DeviceWord, vars
    <2>2. TransmittersOK /\ UNCHANGED txVars => TransmittersOK'
      BY DEF txVars, TransmittersOK
    <2> QED
      BY <2>1, <2>2, TransmittersStep DEF Next
  <1>2. BoardInv /\ TransmittersOK => TypeOK
    <2> SUFFICES ASSUME BoardInv, TransmittersOK PROVE TypeOK
      OBVIOUS
    <2>1. dev0_fifo \in Seq(Nat)
      BY ValueAssumption, SeqMonotonic DEF BoardInv, RegistersOK
    <2> QED
      BY <2>1, InputsOK DEF BoardInv, RegistersOK, W!ReplyInv, TransmittersOK, TypeOK
  <1> QED
    BY <1>1, <1>2, InitTransmitters, BoardInvariant, StageInvariant, PTL DEF Spec

-----------------------------------------------------------------------------
(* The DAQ words of a bulk reply, as long as the PC's requests are no      *)
(* broadcasts.  The size of the reply is taken from the fill of the fifo   *)
(* before the first word is fetched, and the reply ends early if the fifo  *)
(* runs dry: it never does, because nobody else takes words meanwhile.     *)

Unicast == \A p \in Packets : ~p.broadcast

\* A word that has been fetched leaves the fifo in the next cycle.
Leaving == IF bulk_read_enable THEN 1 ELSE 0

TransferInv ==
    /\ bulk_read_enable =>
         \/ state = "FINISH_SEND"
         \/ state = "DATA_OUT" /\ what_to_do = "bulk" /\ tx_count >= 4 /\ tx_count % 4 = 0
    /\ state \in {"WAIT_RX_DONE", "WAIT_DATA_OUT_RDY"} => tx_blk_byte_count = 0
    /\ state \in {"WAIT_RX_DONE", "WAIT_DATA_OUT_RDY"} /\ what_to_do = "bulk" =>
         /\ tx_count_target = 4 \/ bulk_mode_int
         /\ tx_count_target <= 4 * Len(dev0_fifo) + 4
    /\ state = "DATA_OUT" /\ what_to_do = "bulk" =>
         /\ register_access_int /\ bulk_mode_int
         /\ tx_blk_byte_count = IF tx_count < 4 THEN 0 ELSE tx_count % 4
         /\ tx_count_target <= 4 * (Len(dev0_fifo) + (tx_count \div 4) - Leaving) + 4

LEMMA Quarters ==
    ASSUME NEW n \in Nat
    PROVE  /\ n = 4 * (n \div 4) + (n % 4) /\ n \div 4 \in Nat /\ n % 4 \in 0..3
           /\ (n + 1) % 4 = IF n % 4 = 3 THEN 0 ELSE (n % 4) + 1
           /\ (n + 1) \div 4 = IF n % 4 = 3 THEN (n \div 4) + 1 ELSE n \div 4
  OBVIOUS

\* In bulk mode only the reply engine takes words out of the fifo.
LEMMA FifoInBulkMode ==
    ASSUME BoardInv, R!Clk, bulk_mode_int
    PROVE  /\ Len(dev0_fifo') \in Nat /\ Len(dev0_fifo') >= Len(dev0_fifo) - Leaving
           /\ ~bulk_read_enable => Len(dev0_fifo') = Len(dev0_fifo)
  <1>1. ~WireOfWrapper!REGISTER_ACCESS
    BY DEF WireOfWrapper!REGISTER_ACCESS
  <1>2. R!dev0_fifo_rden => dev0_fifo # <<>> /\ bulk_read_enable
    BY <1>1 DEF R!dev0_fifo_rden, R!dev0_fifo_empty, R!dev0_fifo_single_read,
                R!single_register_read, WireOfWrapper!REGISTER_BLK_RDEN
  <1>3. dev0_fifo' = IF R!dev0_fifo_rden THEN Tail(dev0_fifo) ELSE dev0_fifo
    BY DEF R!Clk
  <1>4. dev0_fifo \in Seq(Value)
    BY DEF BoardInv, RegistersOK
  <1>5. dev0_fifo # <<>> => Len(Tail(dev0_fifo)) = Len(dev0_fifo) - 1 /\ Len(dev0_fifo) \in Nat \ {0}
    BY <1>4, HeadTailProperties
  <1>6. Len(dev0_fifo) \in Nat /\ Leaving \in {0, 1} /\ (bulk_read_enable => Leaving = 1)
    BY <1>4 DEF Leaving
  <1>7. CASE R!dev0_fifo_rden
    <2>1. Len(dev0_fifo') = Len(dev0_fifo) - 1 /\ Len(dev0_fifo) \in Nat \ {0}
      BY <1>2, <1>3, <1>5, <1>7
    <2> QED
      BY <1>2, <1>6, <1>7, <2>1
  <1>8. CASE ~R!dev0_fifo_rden
    BY <1>3, <1>6, <1>8
  <1> QED
    BY <1>7, <1>8

\* The reply is not cut short by an empty fifo.
LEMMA FifoNeverRunsDry ==
    ASSUME BoardInv, TransferInv, state = "DATA_OUT"
    PROVE  W!LastByte <=> tx_count = tx_count_target - 1
  <1>1. /\ tx_count \in Nat /\ tx_count_target \in Nat
        /\ tx_count < tx_count_target
    BY Lengths
  <1>2. SUFFICES ASSUME what_to_do = "bulk", R!REG_BLK_EMPTY, tx_count % 4 = 3
                 PROVE  tx_count = tx_count_target - 1
    BY <1>1 DEF W!LastByte
  <1>3. Len(dev0_fifo) = 0
    BY <1>2 DEF R!REG_BLK_EMPTY, R!dev0_fifo_empty
  <1>4. Leaving = 0
    BY <1>2 DEF TransferInv, Leaving
  <1>5. tx_count_target <= 4 * (0 + (tx_count \div 4) - 0) + 4
    BY <1>2, <1>3, <1>4 DEF TransferInv
  <1> QED
    BY <1>1, <1>2, <1>5, Quarters

LEMMA RxIsUnicast == ASSUME Unicast, EnvOK PROVE ~rx.broadcast
  BY DEF Unicast, EnvOK, rx

\* Within a bulk reply a word is fetched with the last byte of the header and of
\* every word but the last.
LEMMA FetchInTime ==
    ASSUME Unicast, BoardInv, StageInv, TransferInv, state = "DATA_OUT", what_to_do = "bulk",
           udp_tx_state = "SEND_USER_DATA", ~W!LastByte
    PROVE  W!GetNextBulkWord <=> tx_count % 4 = 3
  <1>1. tx_count \in Nat /\ tx_count_target \in Nat /\ tx_count < tx_count_target - 1
    BY Lengths, FifoNeverRunsDry
  <1>2. W!Sending /\ ~rx.broadcast
    BY LastByteAgreed, RxIsUnicast DEF BoardInv
  <1>3. tx_blk_byte_count = IF tx_count < 4 THEN 0 ELSE tx_count % 4
    BY DEF TransferInv
  <1>4. tx_count % 4 = 3 => ~R!REG_BLK_EMPTY
    BY DEF W!LastByte
  <1>5. tx_count < 4 => (tx_count % 4 = 3 <=> tx_count = 3)
    BY <1>1
  <1> QED
    BY <1>1, <1>2, <1>3, <1>4, <1>5 DEF W!GetNextBulkWord, W!REG_BULK_LEN_BYTES

LEMMA InitTransfer == Init => TransferInv
  BY DEF Init, W!Init, TransferInv

\* While a request is received and its reply prepared.
LEMMA TransferPrepared ==
    ASSUME BoardInv, TransferInv, W!Clk, R!Clk,
           W!Idle \/ W!StartRequest \/ W!ReceiveByte \/ W!WaitDataOutRdy \/ W!FinishSend
                  \/ W!AbortReply
    PROVE  TransferInv'
  <1>1. ~bulk_read_enable'
    <2>1. ~W!Sending
      BY DEF W!Sending, W!Idle, W!StartRequest, W!ReceiveByte, W!WaitDataOutRdy, W!FinishSend,
             W!AbortReply
    <2> QED
      BY <2>1 DEF W!Clk, W!CaptureBulkWord, W!GetNextBulkWord
  <1>2. Len(dev0_fifo') \in Nat /\ Leaving' = 0
    <2>1. dev0_fifo' \in Seq(Value)
      BY RegistersStep DEF BoardInv, RegistersOK, R!Clk, R!dev0_fifo_rden, R!dev0_fifo_empty
    <2> QED
      BY <1>1, <2>1 DEF Leaving
  <1>3. CASE W!Idle \/ W!FinishSend \/ W!AbortReply
    BY <1>1, <1>3 DEF W!Idle, W!FinishSend, W!AbortReply, TransferInv
  <1>4. CASE W!StartRequest
    <2>1. /\ state' \in {"WAIT_RX_DONE", "WAIT_DATA_OUT_RDY"} /\ tx_blk_byte_count' = 0
          /\ what_to_do' = rx.kind /\ tx_count_target' = W!ReplyBytes(rx.kind)
      BY <1>4 DEF W!StartRequest, rx
    <2>2. what_to_do' = "bulk" => tx_count_target' = 4
      BY <2>1 DEF W!ReplyBytes
    <2> QED
      BY <1>1, <1>2, <2>1, <2>2 DEF TransferInv
  <1>5. CASE W!ReceiveByte
    <2>1. /\ state = "WAIT_RX_DONE" /\ state' \in {"WAIT_RX_DONE", "WAIT_DATA_OUT_RDY"}
          /\ tx_blk_byte_count' = 0 /\ UNCHANGED <<what_to_do, tx_count_target>>
          /\ bulk_mode_int => bulk_mode_int'
      BY <1>5 DEF W!ReceiveByte, W!LatchByte, W!replyVars, TransferInv
    <2>2. bulk_mode_int => Len(dev0_fifo') = Len(dev0_fifo)
      BY <2>1, FifoInBulkMode DEF TransferInv
    <2> QED
      BY <1>1, <1>2, <2>1, <2>2 DEF TransferInv
  <1>6. CASE W!WaitDataOutRdy
    <2>1. /\ state = "WAIT_DATA_OUT_RDY" /\ tx_blk_byte_count' = 0 /\ tx_count' = 0
          /\ ~bulk_read_enable
          /\ bulk_mode_int => bulk_mode_int'
          /\ state' \in {"IDLE", "WAIT_DATA_OUT_RDY", "DATA_OUT"}
          /\ what_to_do' = "bulk" => what_to_do = "bulk"
      BY <1>6 DEF W!WaitDataOutRdy, W!PrepareAccess, TransferInv, BoardInv, W!ReplyInv,
                  W!CountersCleared
    <2>2. bulk_mode_int => Len(dev0_fifo') = Len(dev0_fifo)
      BY <2>1, FifoInBulkMode DEF TransferInv
    <2> DEFINE words == W!BulkReadTarget(bulk_read_cnt_req, R!REG_BLK_COUNT)
    <2>3. what_to_do = "bulk" =>
            /\ tx_count_target' = 4 \/ bulk_mode_int'
            /\ tx_count_target' <= 4 * Len(dev0_fifo') + 4
      <3>1. CASE tx_count_target' = tx_count_target
        BY <1>2, <2>1, <2>2, <3>1 DEF TransferInv
      <3>2. CASE bulk_mode_int /\ tx_count_target' = W!BulkReplyBytes(words)
        <4>1. R!REG_BLK_COUNT \in Nat /\ R!REG_BLK_COUNT <= Len(dev0_fifo)
          BY RegisterOutputs DEF BoardInv, R!REG_BLK_COUNT, RegistersOK
        <4>2. bulk_read_cnt_req \in Nat
          BY ValueAssumption DEF BoardInv, W!ReplyInv, W!TypeOK
        <4>3. words \in Nat /\ words <= R!REG_BLK_COUNT
          BY <4>1, <4>2, MaxBlkAssumption DEF W!BulkReadTarget
        <4> HIDE DEF words
        <4>4. tx_count_target' = (words + 1) * 4
          BY <3>2 DEF W!BulkReplyBytes, W!REG_BULK_LEN_BYTES
        <4>5. Len(dev0_fifo) \in Nat
          BY DEF BoardInv, RegistersOK
        <4> QED
          BY <2>1, <2>2, <3>2, <4>1, <4>3, <4>4, <4>5
      <3> QED
        BY <1>6, <3>1, <3>2 DEF W!WaitDataOutRdy, W!PrepareAccess
    <2>4. state' = "DATA_OUT" /\ what_to_do' = "bulk" => register_access_int' /\ bulk_mode_int'
      <3> SUFFICES ASSUME state' = "DATA_OUT", what_to_do' = "bulk"
                   PROVE  register_access_int' /\ bulk_mode_int'
        OBVIOUS
      <3>1. W!ContinueToSendData /\ what_to_do = "bulk"
        BY <1>6 DEF W!WaitDataOutRdy
      <3>2. bulk_mode_int /\ R!REG_BLK_VALID
        BY <3>1 DEF W!ContinueToSendData
      <3>3. register_access_int
        BY <3>2 DEF R!REG_BLK_VALID, WireOfWrapper!REGISTER_BLK_EN
      <3> QED
        BY <1>6, <3>2, <3>3 DEF W!WaitDataOutRdy, W!PrepareAccess
    <2>5. 0 \div 4 = 0
      OBVIOUS
    <2> QED
      BY <1>1, <1>2, <2>1, <2>3, <2>4, <2>5 DEF TransferInv
  <1> QED
    BY <1>3, <1>4, <1>5, <1>6

\* While the reply is sent.
LEMMA TransferSends ==
    ASSUME Unicast, BoardInv, StageInv, TransferInv, W!Clk, R!Clk, W!SendByte
    PROVE  TransferInv'
  <1>1. /\ state = "DATA_OUT" /\ W!Sending /\ WireOfUdp!udp_tx_result # "ERR"
        /\ UNCHANGED <<what_to_do, tx_count_target, register_access_int, bulk_mode_int>>
    BY DEF W!SendByte, W!Sending, W!registerVars, W!bulkVars
  <1>2. CASE state' # "DATA_OUT"
    BY <1>1, <1>2 DEF W!SendByte, TransferInv
  <1>3. CASE state' = "DATA_OUT" /\ what_to_do # "bulk"
    <2>1. ~bulk_read_enable'
      BY <1>3 DEF W!Clk, W!CaptureBulkWord, W!GetNextBulkWord
    <2> QED
      BY <1>1, <1>3, <2>1 DEF TransferInv
  <1>4. CASE state' = "DATA_OUT" /\ what_to_do = "bulk"
    <2>1. /\ tx_count \in Nat /\ tx_count_target \in Nat /\ register_access_int /\ bulk_mode_int
          /\ tx_blk_byte_count = IF tx_count < 4 THEN 0 ELSE tx_count % 4
          /\ tx_count_target <= 4 * (Len(dev0_fifo) + (tx_count \div 4) - Leaving) + 4
          /\ Len(dev0_fifo) \in Nat /\ ~rx.broadcast
      BY <1>1, <1>4, Lengths, RxIsUnicast DEF TransferInv, BoardInv, RegistersOK
    <2>2. /\ Len(dev0_fifo') \in Nat /\ Len(dev0_fifo') >= Len(dev0_fifo) - Leaving
      BY <2>1, FifoInBulkMode
    <2>3. tx_blk_byte_count' = IF tx_count <= 3 THEN 0
                               ELSE IF tx_count % 4 = 3 THEN 0 ELSE (tx_count % 4) + 1
      <3>1. tx_blk_byte_count' =
              IF tx_count > 3
              THEN IF tx_blk_byte_count = 3 THEN 0 ELSE (tx_blk_byte_count + 1) % 16
              ELSE tx_blk_byte_count
        BY <1>4, <2>1 DEF W!SendByte, W!REG_BULK_LEN_BYTES
      <3> DEFINE r == tx_count % 4
      <3>2. r \in 0..3
        BY <2>1, Quarters
      <3> HIDE DEF r
      <3>3. r # 3 => (r + 1) % 16 = r + 1
        BY <3>2
      <3>4. tx_blk_byte_count = IF tx_count < 4 THEN 0 ELSE r
        BY <2>1 DEF r
      <3>5. tx_blk_byte_count' = IF tx_count <= 3 THEN 0 ELSE IF r = 3 THEN 0 ELSE r + 1
        BY <2>1, <3>1, <3>2, <3>3, <3>4
      <3> QED
        BY <3>5 DEF r
    <2>4. CASE udp_tx_state # "SEND_USER_DATA"
      <3>1. tx_count = 0
        BY <1>1, <2>4 DEF StageInv, Rest, Starting, Resolving, SendingFrame, Failing,
                          WireOfUdp!udp_tx_result
      <3>2. tx_count' = 0
        BY <1>1, <2>4, <3>1, EngineSends
      <3>3. ~bulk_read_enable'
        BY <2>1, <3>1 DEF W!Clk, W!CaptureBulkWord, W!GetNextBulkWord, W!REG_BULK_LEN_BYTES
      <3>4. ~bulk_read_enable /\ Leaving = 0 /\ Leaving' = 0
        BY <1>1, <3>1, <3>3 DEF TransferInv, Leaving
      <3>5. tx_count_target' <= 4 * (Len(dev0_fifo') + (tx_count' \div 4) - Leaving') + 4
        BY <1>1, <2>1, <2>2, <3>1, <3>2, <3>4
      <3> QED
        BY <1>1, <1>4, <2>1, <2>3, <3>1, <3>2, <3>3, <3>5 DEF TransferInv
    <2>5. CASE udp_tx_state = "SEND_USER_DATA"
      <3>1. ~W!LastByte /\ tx_count' = tx_count + 1
        BY <1>1, <1>4, <2>5, EngineSends
      <3>2. bulk_read_enable' <=> tx_count % 4 = 3
        BY <1>1, <1>4, <2>5, <3>1, FetchInTime DEF W!Clk, W!CaptureBulkWord
      <3>3. Leaving' = IF tx_count % 4 = 3 THEN 1 ELSE 0
        BY <3>2 DEF Leaving
      <3>4. Leaving \in {0, 1}
        BY DEF Leaving
      <3>5. tx_count_target' <= 4 * (Len(dev0_fifo') + (tx_count' \div 4) - Leaving') + 4
        <4>1. (tx_count' \div 4) - Leaving' = tx_count \div 4 /\ tx_count \div 4 \in Nat
          BY <2>1, <3>1, <3>3, Quarters
        <4> QED
          BY <1>1, <2>1, <2>2, <3>3, <3>4, <4>1, Quarters, <3>1
      <3>6. tx_blk_byte_count' = IF tx_count' < 4 THEN 0 ELSE tx_count' % 4
        BY <2>1, <2>3, <3>1, Quarters
      <3>7. bulk_read_enable' => tx_count' >= 4 /\ tx_count' % 4 = 0
        BY <2>1, <3>1, <3>2, Quarters
      <3> QED
        BY <1>1, <1>4, <2>1, <3>5, <3>6, <3>7 DEF TransferInv
    <2> QED
      BY <2>4, <2>5
  <1> QED
    BY <1>2, <1>3, <1>4

LEMMA TransferStep ==
    Unicast /\ BoardInv /\ StageInv /\ TransferInv /\ [Next]_vars => TransferInv'
  <1> SUFFICES ASSUME Unicast, BoardInv, StageInv, TransferInv, [Next]_vars PROVE TransferInv'
    OBVIOUS
  <1>1. CASE Clk
    BY <1>1, TransferPrepared, TransferSends DEF Clk, W!Clk, W!Fsm
  <1>2. CASE DeviceWord
    <2>1. UNCHANGED wrapperVars
      BY <1>2 DEF DeviceWord
    <2>2. Len(dev0_fifo') \in Nat /\ Len(dev0_fifo') >= Len(dev0_fifo) /\ Len(dev0_fifo) \in Nat
      <3>1. dev0_fifo \in Seq(Value) /\ dev0_fifo' \in Seq(Value)
        BY <1>2, DeviceWordStep DEF BoardInv, RegistersOK
      <3>2. PICK w : dev0_fifo' = Append(dev0_fifo, w)
        BY <1>2 DEF DeviceWord, R!FifoClk
      <3> QED
        BY <3>1, <3>2
    <2>3. (tx_count \in Nat => tx_count \div 4 \in Nat) /\ Leaving \in {0, 1}
      BY Quarters DEF Leaving
    <2>4. tx_count \in Nat /\ tx_count_target \in Nat
      BY DEF BoardInv, W!ReplyInv, W!TypeOK
    <2> QED
      BY <2>1, <2>2, <2>3, <2>4 DEF wrapperVars, TransferInv, Leaving
  <1>3. CASE UNCHANGED vars
    BY <1>3 DEF vars, wrapperVars, R!vars, TransferInv, Leaving
  <1> QED
    BY <1>1, <1>2, <1>3 DEF Next

\* From its sizing to its last byte the fifo holds the words a bulk reply has announced and
\* not taken yet, so the reply is never cut off by an empty fifo (data_out_last and
\* get_next_bulk_word, ethernet_core_wrapper.vhd).
THEOREM TransferInvariant == ASSUME ~MacStalls, Unicast PROVE Spec => []TransferInv
  <1>1. BoardInv /\ StageInv /\ TransferInv /\ [Next]_vars => TransferInv'
    BY TransferStep
  <1> QED
    BY <1>1, InitTransfer, StageInvariant, BoardInvariant, PTL DEF Spec

\* How many words a bulk transfer has taken out of the fifo, from the request that began
\* with the first byte of its datagram to the end of its reply: one for every four bytes
\* sent, except a word whose fetching takes effect in the next cycle.  A timeout comes
\* only before the size of the reply is set.
PopsInv ==
    /\ state # "IDLE" /\ serving.byte = 0 /\ serving.kind = "bulk" =>
         what_to_do = "bulk" \/ tx_count_target = 4
    /\ state \in {"WAIT_RX_DONE", "WAIT_DATA_OUT_RDY"} =>
         /\ pops = 0
         /\ what_to_do = "bulk" /\ tx_count_target # 4 =>
              register_access_int /\ bulk_mode_int /\ bulk_read_target_set
    /\ state = "DATA_OUT" /\ what_to_do = "bulk" => pops = (tx_count \div 4) - Leaving
    /\ state = "FINISH_SEND" /\ what_to_do = "bulk" /\ tx_count_target # 4 =>
         pops = AnnouncedWords /\ ~bulk_read_enable
    /\ state = "IDLE" /\ serving.byte = 0 /\ serving.kind = "bulk"
         /\ udp_result_reg = "SENT" /\ tx_count_target # 4 => pops = AnnouncedWords

LEMMA InitPops == Init => PopsInv
  BY DEF Init, W!Init, U!Init, PopsInv

\* A word leaves the fifo when it has been fetched, and it is there.
LEMMA PopMade ==
    ASSUME BoardInv, TransferInv, Record
    PROVE  /\ state = "IDLE" => pops' = IF pos >= 0 THEN 0 ELSE pops
           /\ state # "IDLE" /\ ~bulk_read_enable => pops' = pops
           /\ state = "DATA_OUT" /\ bulk_read_enable => pops' = pops + 1
  <1>1. WireOfWrapper!REGISTER_BLK_EN => ~R!dev0_fifo_single_read
    BY DEF WireOfWrapper!REGISTER_BLK_EN, R!dev0_fifo_single_read, R!single_register_read,
           WireOfWrapper!REGISTER_ACCESS
  <1>2. CASE ~bulk_read_enable
    BY <1>1, <1>2 DEF Record, R!dev0_fifo_rden, WireOfWrapper!REGISTER_BLK_RDEN
  <1>3. CASE bulk_read_enable /\ state = "DATA_OUT"
    <2>1. /\ register_access_int /\ bulk_mode_int /\ Leaving = 1
          /\ tx_count_target <= 4 * (Len(dev0_fifo) + (tx_count \div 4) - 1) + 4
      BY <1>3 DEF TransferInv, Leaving
    <2>2. tx_count \in Nat /\ tx_count_target \in Nat /\ tx_count < tx_count_target
      BY <1>3, Lengths
    <2>3. Len(dev0_fifo) # 0
      <3> SUFFICES ASSUME Len(dev0_fifo) = 0 PROVE FALSE
        OBVIOUS
      <3>1. tx_count_target <= 4 * (tx_count \div 4)
        BY <2>1, <2>2, Quarters
      <3> QED
        BY <2>2, <3>1, Quarters
    <2>4. R!dev0_fifo_rden /\ WireOfWrapper!REGISTER_BLK_EN
      BY <1>3, <2>1, <2>3 DEF R!dev0_fifo_rden, R!dev0_fifo_empty,
         WireOfWrapper!REGISTER_BLK_EN, WireOfWrapper!REGISTER_BLK_RDEN
    <2> QED
      BY <1>3, <2>4 DEF Record
  <1> QED
    BY <1>2, <1>3 DEF TransferInv

\* The result that UDP_TX tells is a new one only while the reply engine sends.
LEMMA ResultStays ==
    ASSUME StageInv, Clk, state # "DATA_OUT", ~tx_start_reg PROVE udp_result_reg' = udp_result_reg
  BY DEF StageInv, Rest, Starting, Resolving, SendingFrame, Failing, Clk, U!Clk, U!Idle,
         U!Pause, U!HeaderError, U!SendHeader, U!EndData, U!SendData, U!StallData, U!TakeByte

LEMMA PopsPrepared ==
    ASSUME BoardInv, TransferInv, PopsInv, Clk,
           W!StartRequest \/ W!ReceiveByte \/ W!WaitDataOutRdy
    PROVE  PopsInv'
  <1>1. /\ W!Clk /\ Record /\ pos \in Int /\ (state # "IDLE" => serving' = serving)
        /\ state = "IDLE" /\ pos >= 0 => serving' = Serving(pkt, pos)
    BY PacketTypes DEF Clk, Record, BoardInv
  <1>2. CASE W!StartRequest
    <2>1. /\ state = "IDLE" /\ pos >= 0 /\ what_to_do' = rx.kind
          /\ state' \in {"WAIT_RX_DONE", "WAIT_DATA_OUT_RDY"}
          /\ tx_count_target' = W!ReplyBytes(rx.kind)
      BY <1>2 DEF W!StartRequest, rx
    <2>2. pops' = 0
      BY <1>1, <2>1, PopMade
    <2>3. what_to_do' = "bulk" => tx_count_target' = 4
      BY <2>1 DEF W!ReplyBytes
    <2>4. serving'.kind = pkt.kind /\ serving'.byte = pos
      BY <1>1, <2>1 DEF Serving
    <2>5. pos = 0 => rx.kind = pkt.kind
      BY DEF rx
    <2> QED
      BY <2>1, <2>2, <2>3, <2>4, <2>5 DEF PopsInv
  <1>3. CASE W!ReceiveByte
    <2>1. /\ state = "WAIT_RX_DONE" /\ state' \in {"WAIT_RX_DONE", "WAIT_DATA_OUT_RDY"}
          /\ UNCHANGED <<what_to_do, tx_count_target, bulk_read_target_set>>
          /\ register_access_int => register_access_int'
          /\ bulk_mode_int => bulk_mode_int'
      BY <1>3 DEF W!ReceiveByte, W!LatchByte, W!replyVars
    <2>2. pops' = 0
      BY <1>1, <2>1, PopMade DEF PopsInv, TransferInv
    <2> QED
      BY <1>1, <2>1, <2>2 DEF PopsInv
  <1>4. CASE W!WaitDataOutRdy
    <2>1. /\ state = "WAIT_DATA_OUT_RDY" /\ pops = 0 /\ ~bulk_read_enable
          /\ tx_count' = 0
          /\ register_access_int => register_access_int'
          /\ bulk_mode_int => bulk_mode_int'
          /\ bulk_read_target_set => bulk_read_target_set'
      BY <1>4 DEF W!WaitDataOutRdy, W!PrepareAccess, PopsInv, TransferInv, BoardInv,
                  W!ReplyInv, W!CountersCleared
    <2>2. pops' = 0
      BY <1>1, <2>1, PopMade
    <2>3. ~bulk_read_enable'
      BY <1>1, <2>1 DEF W!Clk, W!CaptureBulkWord, W!GetNextBulkWord, W!Sending
    <2>4. \/ UNCHANGED tx_count_target
          \/ /\ what_to_do = "bulk" /\ bulk_mode_int' /\ bulk_read_target_set'
             /\ register_access_int'
      BY <1>4 DEF W!WaitDataOutRdy, W!PrepareAccess, R!REG_BLK_VALID,
                  WireOfWrapper!REGISTER_BLK_EN
    <2>5. what_to_do' = what_to_do \/ (W!WaitingTimedOut /\ what_to_do' = "timeout")
      BY <1>4 DEF W!WaitDataOutRdy
    <2>6. W!WaitingTimedOut /\ what_to_do = "bulk" =>
            tx_count_target = 4 /\ ~(bulk_mode_int /\ R!REG_BLK_VALID /\ ~bulk_read_target_set)
      <3> SUFFICES ASSUME W!WaitingTimedOut, what_to_do = "bulk"
                   PROVE  /\ tx_count_target = 4
                          /\ ~(bulk_mode_int /\ R!REG_BLK_VALID /\ ~bulk_read_target_set)
        OBVIOUS
      <3>1. ~(bulk_mode_int /\ R!REG_BLK_VALID /\ bulk_read_target_set)
        BY DEF W!WaitingTimedOut, W!ContinueToSendData
      <3>2. R!REG_BLK_VALID <=> bulk_mode_int /\ register_access_int
        BY DEF R!REG_BLK_VALID, WireOfWrapper!REGISTER_BLK_EN
      <3>3. tx_count_target = 4
        BY <2>1, <3>1, <3>2 DEF PopsInv
      <3>4. timeout_for_waiting_count >= 2 /\ timeout_for_waiting_count \in Nat
        BY BoardAssumption DEF W!WaitingTimedOut
      <3>5. bulk_mode_int /\ (~register_access_int \/ bulk_read_target_set)
        BY <2>1, <3>4 DEF BoardInv, W!ReplyInv, W!BulkSizedEarly
      <3> QED
        BY <3>1, <3>2, <3>3, <3>5
    <2>7. serving.byte = 0 /\ serving.kind = "bulk" =>
            what_to_do' = "bulk" \/ tx_count_target' = 4
      <3> SUFFICES ASSUME serving.byte = 0, serving.kind = "bulk", what_to_do' # "bulk"
                   PROVE  tx_count_target' = 4
        OBVIOUS
      <3>1. CASE what_to_do = "bulk"
        <4>1. W!WaitingTimedOut
          BY <2>5, <3>1
        <4> QED
          BY <1>4, <2>6, <3>1, <4>1 DEF W!WaitDataOutRdy, W!PrepareAccess
      <3>2. CASE what_to_do # "bulk"
        BY <2>1, <2>4, <3>2 DEF PopsInv
      <3> QED
        BY <3>1, <3>2
    <2>8. what_to_do' = "bulk" /\ tx_count_target' # 4 =>
            register_access_int' /\ bulk_mode_int' /\ bulk_read_target_set'
      BY <2>1, <2>4, <2>5 DEF PopsInv
    <2>9. CASE state' = "WAIT_DATA_OUT_RDY"
      BY <1>1, <2>1, <2>2, <2>7, <2>8, <2>9 DEF PopsInv
    <2>10. CASE state' = "DATA_OUT"
      <3>1. Leaving' = 0 /\ 0 \div 4 = 0
        BY <2>3 DEF Leaving
      <3> QED
        BY <1>1, <2>1, <2>2, <2>7, <2>10, <3>1 DEF PopsInv
    <2>11. CASE state' = "IDLE"
      <3>1. what_to_do = "drop" /\ UNCHANGED tx_count_target /\ serving' = serving
        BY <1>1, <1>4, <2>1, <2>11 DEF W!WaitDataOutRdy, W!PrepareAccess
      <3> QED
        BY <2>1, <2>11, <3>1 DEF PopsInv
    <2> QED
      BY <1>4, <2>9, <2>10, <2>11 DEF W!WaitDataOutRdy
  <1> QED
    BY <1>2, <1>3, <1>4

\* While the reply is sent, and at its end.
LEMMA PopsSent ==
    ASSUME Unicast, BoardInv, StageInv, TransferInv, PopsInv, Clk, W!SendByte PROVE PopsInv'
  <1>1. /\ state = "DATA_OUT" /\ W!Clk /\ Record /\ serving' = serving
        /\ UNCHANGED <<what_to_do, tx_count_target>> /\ WireOfUdp!udp_tx_result # "ERR"
    BY DEF Clk, W!SendByte, W!Sending, Record
  <1>2. CASE what_to_do # "bulk"
    BY <1>1, <1>2 DEF W!SendByte, PopsInv
  <1>3. CASE what_to_do = "bulk"
    <2>1. /\ tx_count \in Nat /\ tx_count_target \in Nat /\ tx_count_target >= 4
          /\ tx_count < tx_count_target /\ tx_count_target % 4 = 0
      BY <1>1, Lengths DEF BoardInv, WholeWords
    <2>2. pops' = tx_count \div 4
      <3>1. pops = (tx_count \div 4) - Leaving /\ tx_count \div 4 \in Nat
        BY <1>1, <1>3, <2>1, Quarters DEF PopsInv
      <3>2. pops' = pops + Leaving /\ Leaving \in {0, 1}
        <4>1. CASE bulk_read_enable
          BY <1>1, <4>1, PopMade DEF Leaving
        <4>2. CASE ~bulk_read_enable
          BY <1>1, <3>1, <4>2, PopMade DEF Leaving
        <4> QED
          BY <4>1, <4>2
      <3> QED
        BY <3>1, <3>2
    <2>3. CASE udp_tx_state # "SEND_USER_DATA"
      <3>1. tx_count = 0 /\ UNCHANGED <<state, tx_count>>
        BY <1>1, <2>3, EngineSends
        DEF StageInv, Rest, Starting, Resolving, SendingFrame, Failing, WireOfUdp!udp_tx_result
      <3>2. ~bulk_read_enable'
        <4>1. ~rx.broadcast
          BY RxIsUnicast DEF BoardInv
        <4> QED
          BY <1>1, <3>1 DEF W!Clk, W!CaptureBulkWord, W!GetNextBulkWord, W!REG_BULK_LEN_BYTES,
                            TransferInv
      <3>3. Leaving' = 0
        BY <3>2 DEF Leaving
      <3> QED
        BY <1>1, <1>3, <2>2, <3>1, <3>3 DEF PopsInv
    <2>4. CASE udp_tx_state = "SEND_USER_DATA" /\ ~W!LastByte
      <3>1. state' = state /\ tx_count' = tx_count + 1
        BY <1>1, <2>4, EngineSends
      <3>2. bulk_read_enable' <=> tx_count % 4 = 3
        BY <1>1, <1>3, <2>4, FetchInTime DEF W!Clk, W!CaptureBulkWord
      <3>3. Leaving' = IF tx_count % 4 = 3 THEN 1 ELSE 0
        BY <3>2 DEF Leaving
      <3>4. pops' = (tx_count' \div 4) - Leaving'
        BY <2>1, <2>2, <3>1, <3>3, Quarters
      <3> QED
        BY <1>1, <1>3, <3>1, <3>4 DEF PopsInv
    <2>5. CASE udp_tx_state = "SEND_USER_DATA" /\ W!LastByte
      <3>1. state' = "FINISH_SEND" /\ tx_count = tx_count_target - 1
        BY <1>1, <2>5, EngineSends, FifoNeverRunsDry
      <3>2. tx_count \div 4 = (tx_count_target \div 4) - 1
        BY <2>1, <3>1
      <3>3. pops' = AnnouncedWords'
        BY <1>1, <2>2, <3>2 DEF AnnouncedWords, REG_BULK_LEN_BYTES
      <3>4. tx_count_target # 4 => ~bulk_read_enable'
        BY <1>1, <2>1, <3>1 DEF W!Clk, W!CaptureBulkWord, W!GetNextBulkWord,
                                W!REG_BULK_LEN_BYTES
      <3> QED
        BY <1>1, <1>3, <3>1, <3>3, <3>4 DEF PopsInv
    <2> QED
      BY <2>3, <2>4, <2>5
  <1> QED
    BY <1>2, <1>3

LEMMA PopsStep ==
    Unicast /\ BoardInv /\ StageInv /\ TransferInv /\ PopsInv /\ [Next]_vars => PopsInv'
  <1> SUFFICES ASSUME Unicast, BoardInv, StageInv, TransferInv, PopsInv, [Next]_vars
               PROVE  PopsInv'
    OBVIOUS
  <1>1. CASE Clk
    <2>1. W!Clk /\ Record /\ pos \in Int /\ (state # "IDLE" => serving' = serving)
      BY <1>1, PacketTypes DEF Clk, Record, BoardInv
    <2>2. CASE W!Idle
      <3>1. state = "IDLE" /\ state' = "IDLE" /\ ~(pos >= 0) /\ UNCHANGED tx_count_target
        BY <2>2 DEF W!Idle, W!replyVars, rx
      <3>2. serving' = serving /\ pops' = pops
        BY <2>1, <3>1, PopMade DEF Record
      <3>3. udp_result_reg' = udp_result_reg
        BY <1>1, <3>1, ResultStays DEF StageInv, Rest, Starting, Resolving, SendingFrame, Failing
      <3>4. AnnouncedWords' = AnnouncedWords
        BY <3>1 DEF AnnouncedWords
      <3> QED
        BY <3>1, <3>2, <3>3, <3>4 DEF PopsInv
    <2>3. CASE W!AbortReply
      <3>1. state' = "IDLE" /\ state = "DATA_OUT" /\ WireOfUdp!udp_tx_result = "ERR"
        BY <2>3 DEF W!AbortReply
      <3>2. Failing /\ udp_tx_state = "IDLE" /\ ~tx_start_reg /\ udp_result_reg = "ERR"
        BY <3>1 DEF StageInv, Rest, Starting, Resolving, SendingFrame, Failing,
                    WireOfUdp!udp_tx_result
      <3>3. udp_result_reg' = "ERR"
        BY <1>1, <3>2 DEF Clk, U!Clk, U!Idle, U!Pause, U!HeaderError, U!SendHeader, U!EndData,
                          U!SendData, U!StallData, U!TakeByte
      <3> QED
        BY <3>1, <3>3 DEF PopsInv
    <2>4. CASE W!FinishSend
      <3>1. /\ state = "FINISH_SEND" /\ state' = "IDLE" /\ UNCHANGED tx_count_target
            /\ serving' = serving
        BY <2>1, <2>4 DEF W!FinishSend, W!replyVars
      <3>2. AnnouncedWords' = AnnouncedWords
        BY <3>1 DEF AnnouncedWords
      <3> SUFFICES ASSUME serving.byte = 0, serving.kind = "bulk", tx_count_target # 4
                   PROVE  pops' = AnnouncedWords
        BY <3>1, <3>2 DEF PopsInv
      <3>3. pops = AnnouncedWords /\ ~bulk_read_enable
        BY <3>1 DEF PopsInv
      <3> QED
        BY <2>1, <3>1, <3>3, PopMade
    <2> QED
      BY <1>1, <2>1, <2>2, <2>3, <2>4, PopsPrepared, PopsSent DEF W!Clk, W!Fsm
  <1>2. CASE DeviceWord \/ UNCHANGED vars
    <2>1. UNCHANGED <<wrapperVars, txVars, history>>
      BY <1>2 DEF DeviceWord, vars
    <2> QED
      BY <2>1 DEF wrapperVars, txVars, history, PopsInv, AnnouncedWords, Leaving
  <1> QED
    BY <1>1, <1>2 DEF Next

\* At every byte of a bulk reply one word has left the fifo for every four bytes sent
\* (get_next_bulk_word, ethernet_core_wrapper.vhd).
THEOREM PopsInvariant == ASSUME ~MacStalls, Unicast PROVE Spec => []PopsInv
  <1>1. BoardInv /\ StageInv /\ TransferInv /\ PopsInv /\ [Next]_vars => PopsInv'
    BY PopsStep
  <1> QED
    BY <1>1, InitPops, TransferInvariant, StageInvariant, BoardInvariant, PTL DEF Spec

\* A bulk reply that has been sent with at least one word took exactly as many words out of
\* the fifo as its length announced, so no DAQ word is lost and none is sent twice
\* (get_next_bulk_word of ethernet_core_wrapper.vhd fetches a cycle before the word leaves,
\* and the last word must not be followed by another fetch).
THEOREM BulkRepliesTakeTheirWords ==
    ASSUME ~MacStalls, Unicast PROVE Spec => []NonEmptyBulkTakesWhatItSends
  <1>1. BoardInv /\ PopsInv => NonEmptyBulkTakesWhatItSends
    BY DEF PopsInv, NonEmptyBulkTakesWhatItSends, BulkTakesWhatItSends, AnnouncedWords,
           REG_BULK_LEN_BYTES
  <1> QED
    BY <1>1, PopsInvariant, BoardInvariant, PTL

-----------------------------------------------------------------------------
(* What is on the wire.                                                    *)

\* Byte n of the reply belongs to a word, and where the bytes of that word come from.
InWord(n) == \/ what_to_do \in {"read", "cntread"} /\ n \in 4..7
             \/ what_to_do = "bulk" /\ n >= 4
WordSource == IF what_to_do = "read" THEN register_read_data_int
              ELSE IF what_to_do = "cntread" THEN rx_pkg_ctr_int
              ELSE bulk_data_wheel.word

\* The words of a user data that have been sent so far are whole: each byte is the one
\* its position asks for, of the value of the word's first byte.
WholeOnWire(w) ==
    \A i \in 5..Len(w) :
        w[i].what = "word" => /\ w[i].idx = (i - 1) % 4
                              /\ w[i].val = w[i - w[i].idx].val

\* A register that is read is captured once, the access having lasted one cycle before
\* the first byte is sent.  The wheel of the bulk words turns with the bytes that
\* are sent, and the word of which some bytes have been sent is still in its place.
WireInv ==
    /\ wire \in Seq(W!Byte)
    /\ state \in {"WAIT_RX_DONE", "WAIT_DATA_OUT_RDY"} => wire = <<>>
    /\ WholeOnWire(wire)
    /\ state = "DATA_OUT" =>
         /\ Len(wire) = tx_count
         /\ tx_count >= 1 => wire[1].what = ReplyFlag(what_to_do)
         /\ what_to_do = "read" =>
              register_access_int /\ (tx_start_reg \/ register_access_delayed)
         /\ what_to_do = "bulk" /\ tx_count >= 4 => bulk_data_wheel.turn = tx_count % 4
         /\ InWord(tx_count) /\ tx_count % 4 # 0 =>
              wire[tx_count - (tx_count % 4) + 1].val = WordSource
    /\ frame_done => /\ state = "FINISH_SEND" /\ Len(wire) = tx_hdr.data_length
                     /\ wire[1].what = ReplyFlag(what_to_do)

LEMMA InitWire == Init => WireInv
  BY DEF Init, W!Init, WireInv, WholeOnWire

LEMMA DataOutIsByte == ASSUME BoardInv PROVE W!data_out \in W!Byte
  <1>1. WP!FsmTypeOK /\ WP!CaptureTypeOK
    BY SameReplyInv DEF BoardInv, WP!ReplyInv, WP!TypeOK, WP!FsmTypeOK, WP!CaptureTypeOK
  <1>2. WP!data_out \in WP!Byte
    BY <1>1, ConstantsOK, WP!DataOutIsByte
  <1> QED
    BY <1>2 DEF W!data_out, WP!data_out, W!Sending, WP!Sending, W!DataByte, WP!DataByte,
       W!OutByte, WP!OutByte, W!NoByte, WP!NoByte, W!ReplyFlag, WP!ReplyFlag,
       W!Byte, WP!Byte, W!What, WP!What, W!WhatToDo, WP!WhatToDo, W!Request, WP!Request,
       W!Answer, WP!Answer

\* A byte of user data goes out in DATA_OUT only.
LEMMA BytesInDataOut ==
    ASSUME StageInv, UserByteOnWire PROVE state = "DATA_OUT" /\ udp_tx_state = "SEND_USER_DATA"
  BY DEF StageInv, Rest, Starting, Resolving, SendingFrame, Failing, UserByteOnWire

\* The byte that is sent while a word is: its place in the word, and the word's value.
LEMMA WordByte ==
    ASSUME BoardInv, WireInv, W!Sending, ~rx.broadcast
    PROVE  /\ W!data_out.what = "word" => InWord(tx_count)
           /\ InWord(tx_count) => /\ W!data_out.idx = tx_count % 4
                                  /\ W!data_out.val = WordSource
  <1>1. state = "DATA_OUT" /\ tx_count \in Nat /\ W!data_out = W!DataByte
    BY Lengths DEF W!Sending, W!data_out
  <1>2. InWord(tx_count) =>
          W!DataByte = W!OutByte("word", WordSource,
                                 IF what_to_do = "bulk" THEN bulk_data_wheel.turn ELSE tx_count - 4)
    BY <1>1 DEF W!DataByte, InWord, WordSource
  <1>3. ~InWord(tx_count) => W!DataByte.what # "word"
    BY <1>1 DEF W!DataByte, InWord, W!OutByte, W!NoByte, W!ReplyFlag
  <1>4. /\ InWord(tx_count) /\ what_to_do = "bulk" => bulk_data_wheel.turn = tx_count % 4
        /\ tx_count \in 4..7 => tx_count - 4 = tx_count % 4
    BY <1>1 DEF WireInv, InWord
  <1> QED
    BY <1>1, <1>2, <1>3, <1>4 DEF W!OutByte, InWord

\* While a reply is sent the register that was read, and the counter if that was read,
\* keep their value, and the current word of a bulk reply does up to its last byte.
LEMMA SourceStays ==
    ASSUME Unicast, BoardInv, StageInv, TransferInv, WireInv, W!Clk, W!SendByte,
           udp_tx_state = "SEND_USER_DATA", ~W!LastByte,
           InWord(tx_count), tx_count % 4 # 3
    PROVE  WordSource' = WordSource
  <1>1. /\ state = "DATA_OUT" /\ what_to_do' = what_to_do /\ ~tx_start_reg
    BY LastByteAgreed DEF W!SendByte, W!Sending, SendingFrame
  <1>2. CASE what_to_do = "read"
    <2>1. register_access_int /\ register_access_delayed
      BY <1>1, <1>2 DEF WireInv
    <2>2. ~R!REG_VALID
      BY <2>1 DEF R!REG_VALID, R!single_register_read, WireOfWrapper!REGISTER_ACCESS
    <2> QED
      BY <1>1, <1>2, <2>1, <2>2 DEF W!Clk, W!CaptureRegister, WordSource
  <1>3. CASE what_to_do = "cntread"
    BY <1>1, <1>3 DEF W!SendByte, WordSource
  <1>4. CASE what_to_do = "bulk"
    <2>1. ~W!GetNextBulkWord
      BY <1>1, <1>4, FetchInTime
    <2>2. bulk_data_wheel' \in [word : Value, turn : Nat] /\ bulk_data_wheel'.word = bulk_data_wheel.word
      BY <2>1 DEF W!Clk, W!CaptureBulkWord, BoardInv, W!ReplyInv, W!TypeOK, W!REG_BULK_LEN_BYTES
    <2> QED
      BY <1>1, <1>4, <2>2 DEF WordSource
  <1> QED
    BY <1>2, <1>3, <1>4 DEF InWord

\* Putting the right byte behind whole words leaves them whole.
LEMMA WholeAppend ==
    ASSUME NEW S, NEW w \in Seq(S), NEW b \in S, WholeOnWire(w), Len(w) >= 4,
           b.what = "word" =>
             /\ b.idx = Len(w) % 4
             /\ Len(w) % 4 # 0 => w[Len(w) - (Len(w) % 4) + 1].val = b.val
    PROVE  WholeOnWire(Append(w, b))
  <1> DEFINE v == Append(w, b)
             n == Len(w)
  <1>1. n \in Nat /\ Len(v) = n + 1 /\ v[n + 1] = b /\ \A i \in 1..n : v[i] = w[i]
    BY AppendProperties
  <1>2. ASSUME NEW i \in 5..Len(v), v[i].what = "word"
        PROVE  v[i].idx = (i - 1) % 4 /\ v[i].val = v[i - v[i].idx].val
    <2>1. CASE i <= n
      <3>1. v[i] = w[i] /\ w[i].idx = (i - 1) % 4 /\ w[i].val = w[i - w[i].idx].val
        BY <1>1, <1>2, <2>1 DEF WholeOnWire
      <3>2. i - w[i].idx \in 1..n
        <4>1. (i - 1) % 4 \in 0..3
          BY <1>1
        <4> QED
          BY <1>1, <2>1, <3>1, <4>1
      <3> QED
        BY <1>1, <3>1, <3>2
    <2>2. CASE i = n + 1
      <3>1. v[i] = b /\ b.idx = n % 4 /\ i - 1 = n
        BY <1>1, <1>2, <2>2
      <3>2. n % 4 \in 0..3
        BY <1>1, Quarters
      <3>3. CASE n % 4 = 0
        <4>1. i - b.idx = i
          BY <1>1, <3>1, <3>3
        <4> QED
          BY <3>1, <4>1
      <3>4. CASE n % 4 # 0
        <4>1. i - b.idx = n - (n % 4) + 1 /\ n - (n % 4) + 1 \in 1..n
          BY <1>1, <2>2, <3>1, <3>2, <3>4
        <4>2. w[n - (n % 4) + 1].val = b.val
          BY <1>2, <3>1, <3>4
        <4> QED
          BY <1>1, <3>1, <4>1, <4>2
      <3> QED
        BY <3>3, <3>4
    <2> QED
      BY <1>1, <2>1, <2>2
  <1> HIDE DEF v
  <1>3. WholeOnWire(v)
    BY <1>2 DEF WholeOnWire
  <1> QED
    BY <1>3 DEF v

\* What a byte of the reply does to the wire.
LEMMA ByteSent ==
    ASSUME Unicast, BoardInv, StageInv, TransferInv, WireInv, W!Clk, Record,
           state = "DATA_OUT", udp_tx_state = "SEND_USER_DATA"
    PROVE  /\ wire' = Append(wire, W!data_out) /\ wire' \in Seq(W!Byte)
           /\ Len(wire) = tx_count /\ Len(wire') = tx_count + 1
           /\ wire'[tx_count + 1] = W!data_out /\ \A i \in 1..tx_count : wire'[i] = wire[i]
           /\ W!data_out \in W!Byte /\ W!data_out = W!DataByte
           /\ wire'[1].what = ReplyFlag(what_to_do)
           /\ frame_done' <=> W!LastByte
  <1>1. I!TakeByte /\ W!Sending /\ ~rx.broadcast /\ (I!EndOfPacket <=> W!LastByte)
    BY LastByteAgreed, RxIsUnicast DEF BoardInv
  <1>2. W!data_out \in W!Byte /\ W!data_out = W!DataByte
    BY <1>1, DataOutIsByte DEF W!data_out
  <1>3. wire \in Seq(W!Byte) /\ Len(wire) = tx_count
    BY DEF WireInv
  <1>4. wire' = Append(wire, W!data_out) /\ (frame_done' <=> W!LastByte)
    BY <1>1 DEF Record, UserByteOnWire
  <1>5. /\ wire' \in Seq(W!Byte) /\ Len(wire') = tx_count + 1 /\ tx_count \in Nat
        /\ wire'[tx_count + 1] = W!data_out /\ \A i \in 1..tx_count : wire'[i] = wire[i]
    BY <1>2, <1>3, <1>4, Lengths, AppendProperties
  <1>6. wire'[1].what = ReplyFlag(what_to_do)
    <2>1. CASE tx_count = 0
      BY <1>2, <1>5, <2>1 DEF W!DataByte, W!OutByte, W!ReplyFlag, ReplyFlag
    <2>2. CASE tx_count # 0
      BY <1>5, <2>2 DEF WireInv
    <2> QED
      BY <2>1, <2>2
  <1> QED
    BY <1>2, <1>3, <1>4, <1>5, <1>6

\* A byte of the reply is put on the wire.
LEMMA WireGrows ==
    ASSUME Unicast, BoardInv, StageInv, TransferInv, WireInv, W!Clk, Record,
           state = "DATA_OUT", udp_tx_state = "SEND_USER_DATA"
    PROVE  WireInv'
  <1> DEFINE b == W!data_out
             start == tx_count - (tx_count % 4) + 1
  <1>1. /\ SendingFrame /\ W!Sending /\ W!SendByte /\ ~rx.broadcast
        /\ WireOfUdp!udp_tx_result = "SENDING" /\ WireOfUdp!udp_tx_data_out_ready
    BY LastByteAgreed, EngineSends, RxIsUnicast DEF BoardInv, WireOfUdp!udp_tx_data_out_ready
  <1>2. /\ tx_count \in Nat /\ tx_count_target \in Nat /\ tx_hdr.data_length = tx_count_target
        /\ W!LastByte <=> tx_count = tx_count_target - 1
    BY Lengths, FifoNeverRunsDry
  <1>3. /\ b.what = "word" => InWord(tx_count)
        /\ InWord(tx_count) => b.idx = tx_count % 4 /\ b.val = WordSource
    BY <1>1, WordByte
  <1>4. /\ wire \in Seq(W!Byte) /\ WholeOnWire(wire)
        /\ InWord(tx_count) /\ tx_count % 4 # 0 => wire[start].val = WordSource
    BY DEF WireInv
  <1>5. wire' = Append(wire, b) /\ b \in W!Byte /\ (frame_done' <=> W!LastByte)
    BY ByteSent
  <1>6. /\ wire' \in Seq(W!Byte) /\ Len(wire) = tx_count /\ Len(wire') = tx_count + 1
        /\ wire'[tx_count + 1] = b /\ \A i \in 1..tx_count : wire'[i] = wire[i]
        /\ wire'[1].what = ReplyFlag(what_to_do) /\ what_to_do' = what_to_do
    BY <1>1, ByteSent DEF W!SendByte
  <1> HIDE DEF b
  <1>7. WholeOnWire(wire')
    <2>1. CASE tx_count >= 4
      BY <1>3, <1>4, <1>5, <1>6, <2>1, WholeAppend
    <2>2. CASE tx_count < 4
      BY <1>2, <1>6, <2>2 DEF WholeOnWire
    <2> QED
      BY <1>2, <2>1, <2>2
  <1>8. CASE W!LastByte
    <2>1. state' = "FINISH_SEND" /\ tx_hdr' = tx_hdr
      BY <1>1, <1>8, EngineSends
    <2> QED
      BY <1>2, <1>5, <1>6, <1>7, <1>8, <2>1 DEF WireInv
  <1>9. CASE ~W!LastByte
    <2>1. state' = "DATA_OUT" /\ tx_count' = tx_count + 1 /\ what_to_do' = what_to_do
      BY <1>1, <1>9, EngineSends DEF W!SendByte
    <2>2. what_to_do' = "read" => register_access_int' /\ register_access_delayed'
      BY <1>1, <2>1 DEF WireInv, W!Clk, W!SendByte, W!registerVars, W!CaptureRegister
    <2>3. what_to_do' = "bulk" /\ tx_count' >= 4 => bulk_data_wheel'.turn = tx_count' % 4
      <3> SUFFICES ASSUME what_to_do = "bulk", tx_count' >= 4
                   PROVE  bulk_data_wheel'.turn = tx_count' % 4
        BY <2>1
      <3>1. W!GetNextBulkWord <=> tx_count % 4 = 3
        BY <1>9, FetchInTime
      <3>2. CASE tx_count % 4 = 3
        BY <1>2, <2>1, <3>1, <3>2, Quarters DEF W!Clk, W!CaptureBulkWord
      <3>3. CASE tx_count % 4 # 3
        <4>1. bulk_data_wheel \in [word : Value, turn : Nat]
          BY DEF BoardInv, W!ReplyInv, W!TypeOK
        <4>2. bulk_data_wheel'.turn = (bulk_data_wheel.turn + 1) % 4
          BY <1>1, <3>1, <3>3, <4>1 DEF W!Clk, W!CaptureBulkWord, W!REG_BULK_LEN_BYTES
        <4>3. tx_count >= 4 /\ bulk_data_wheel.turn = tx_count % 4
          BY <1>2, <2>1, <3>3 DEF WireInv
        <4>4. (tx_count + 1) % 4 = (tx_count % 4) + 1 /\ tx_count % 4 \in 0..2
          BY <1>2, <3>3, Quarters
        <4> QED
          BY <2>1, <4>2, <4>3, <4>4
      <3> QED
        BY <3>2, <3>3
    <2>4. InWord(tx_count)' /\ tx_count' % 4 # 0 =>
            wire'[tx_count' - (tx_count' % 4) + 1].val = WordSource'
      <3> SUFFICES ASSUME InWord(tx_count)', tx_count' % 4 # 0
                   PROVE  wire'[tx_count' - (tx_count' % 4) + 1].val = WordSource'
        OBVIOUS
      <3>1. tx_count % 4 # 3 /\ tx_count' - (tx_count' % 4) + 1 = start /\ tx_count % 4 \in 0..3
        BY <1>2, <2>1, Quarters
      <3>2. InWord(tx_count)
        BY <1>2, <2>1, <3>1 DEF InWord
      <3>3. WordSource' = WordSource
        BY <1>1, <1>9, <3>1, <3>2, SourceStays
      <3>4. CASE tx_count % 4 = 0
        <4>1. start = tx_count + 1
          BY <1>2, <3>4
        <4> QED
          BY <1>3, <1>6, <3>1, <3>2, <3>3, <4>1
      <3>5. CASE tx_count % 4 # 0
        <4>1. start \in 1..tx_count
          BY <1>2, <3>1, <3>5, Quarters
        <4> QED
          BY <1>4, <1>6, <3>1, <3>2, <3>3, <3>5, <4>1
      <3> QED
        BY <3>4, <3>5
    <2> HIDE DEF start
    <2> QED
      BY <1>5, <1>6, <1>7, <1>9, <2>1, <2>2, <2>3, <2>4 DEF WireInv
  <1> QED
    BY <1>8, <1>9

LEMMA WireStep ==
    Unicast /\ BoardInv /\ StageInv /\ TransferInv /\ WireInv /\ [Next]_vars => WireInv'
  <1> SUFFICES ASSUME Unicast, BoardInv, StageInv, TransferInv, WireInv, [Next]_vars
               PROVE  WireInv'
    OBVIOUS
  <1>1. CASE Clk
    <2>1. W!Clk /\ Record
      BY <1>1 DEF Clk
    <2>2. CASE state = "DATA_OUT" /\ udp_tx_state = "SEND_USER_DATA"
      BY <2>1, <2>2, WireGrows
    <2>3. CASE ~(state = "DATA_OUT" /\ udp_tx_state = "SEND_USER_DATA")
      <3>1. wire' = (IF state = "IDLE" THEN <<>> ELSE wire) /\ ~frame_done'
        BY <2>1, <2>3, BytesInDataOut DEF Record
      <3>2. wire' \in Seq(W!Byte) /\ WholeOnWire(wire')
        BY <3>1 DEF WireInv, WholeOnWire
      <3>3. CASE state = "DATA_OUT" /\ WireOfUdp!udp_tx_result # "ERR"
        <4>1. /\ W!SendByte /\ state' = "DATA_OUT" /\ tx_count' = tx_count
          BY <2>1, <2>3, <3>3, EngineSends
        <4>2. what_to_do' = "read" => register_access_int' /\ register_access_delayed'
          BY <2>1, <3>3, <4>1 DEF WireInv, W!Clk, W!SendByte, W!registerVars, W!CaptureRegister
        <4>3. tx_count = 0
          BY <2>3, <3>3 DEF StageInv, Rest, Starting, Resolving, SendingFrame, Failing,
                            WireOfUdp!udp_tx_result
        <4> QED
          BY <3>1, <3>2, <3>3, <4>1, <4>2, <4>3 DEF WireInv, InWord
      <3>4. CASE state = "DATA_OUT" /\ WireOfUdp!udp_tx_result = "ERR"
        <4>1. W!AbortReply
          BY <2>1, <3>4 DEF W!Clk, W!Fsm, W!Idle, W!StartRequest, W!ReceiveByte,
                            W!WaitDataOutRdy, W!SendByte, W!Sending, W!FinishSend
        <4> QED
          BY <3>1, <3>2, <4>1 DEF WireInv, W!AbortReply
      <3>5. CASE state # "DATA_OUT"
        <4>1. /\ state' \in {"WAIT_RX_DONE", "WAIT_DATA_OUT_RDY", "DATA_OUT"} => wire' = <<>>
              /\ state' = "DATA_OUT" /\ what_to_do' = "read" => register_access_int'
          <5>1. CASE W!Idle \/ W!FinishSend
            BY <5>1 DEF W!Idle, W!FinishSend
          <5>2. CASE W!StartRequest
            BY <3>1, <5>2 DEF W!StartRequest
          <5>3. CASE W!ReceiveByte
            BY <3>1, <5>3 DEF W!ReceiveByte, WireInv
          <5>4. CASE W!WaitDataOutRdy
            BY <3>1, <5>4 DEF W!WaitDataOutRdy, W!PrepareAccess, WireInv
          <5> QED
            BY <2>1, <3>5, <5>1, <5>2, <5>3, <5>4
               DEF W!Clk, W!Fsm, W!AbortReply, W!SendByte, W!Sending
        <4>2. state' = "DATA_OUT" => tx_start_reg' /\ tx_count' = 0
          BY <2>1, <3>5, EngineElsewhere
        <4> QED
          BY <3>1, <3>2, <4>1, <4>2 DEF WireInv, InWord
      <3> QED
        BY <3>3, <3>4, <3>5
    <2> QED
      BY <2>2, <2>3
  <1>2. CASE DeviceWord \/ UNCHANGED vars
    <2>1. UNCHANGED <<wrapperVars, history>>
      BY <1>2 DEF DeviceWord, vars
    <2> QED
      BY <2>1 DEF wrapperVars, history, WireInv, InWord, WordSource
  <1> QED
    BY <1>1, <1>2 DEF Next

\* What has been sent of a reply is, at any time, its flag and words made of their own bytes
\* (data_out, bulk_data_wheel, ethernet_core_wrapper.vhd).
THEOREM WireInvariant == ASSUME ~MacStalls, Unicast PROVE Spec => []WireInv
  <1>1. BoardInv /\ StageInv /\ TransferInv /\ WireInv /\ [Next]_vars => WireInv'
    BY WireStep
  <1> QED
    BY <1>1, InitWire, TransferInvariant, StageInvariant, BoardInvariant, PTL DEF Spec

\* A reply that has gone out is complete: it has the length its header announces, and
\* every word in it is made of its own four bytes in their order, whatever the requests
\* (cut off, overtaken, aborted), the fill of the fifo and the answers of the store, as long
\* as the MAC takes every byte and no request is a broadcast (ethernet_core_wrapper.vhd,
\* UDP_TX.vhd and IPv4_TX.vhd count the same bytes with counters of their own).
THEOREM RepliesAreIntact == ASSUME ~MacStalls, Unicast PROVE Spec => []ReplyIntact
  <1>1. WireInv => ReplyIntact
    BY DEF WireInv, WholeOnWire, ReplyIntact
  <1> QED
    BY <1>1, WireInvariant, PTL

-----------------------------------------------------------------------------
(***************************************************************************)
(* What the replies say: that they answer the request that came in and     *)
(* tell what was done for it, and that the DAQ words in them are in the    *)
(* order of the device.                                                    *)
(*                                                                         *)
(* PosInv and ServedInv follow the request into the engine, AccessInv the  *)
(* access made for it to the reply, TidyInv what must be set back at the   *)
(* end, OrderInv the DAQ words through the fifo, bulk_data_local, the      *)
(* wheel and the wire.                                                     *)
(*                                                                         *)
(* ~Overlap: the next datagram comes when the one before has been served.  *)
(* Without it the engine takes up datagrams in their middle.               *)
(***************************************************************************)

(* One datagram at a time.  The reply engine has no other idea of where it *)
(* is in a datagram than its own count of the bytes.                       *)

\* The engine is in the datagram that is on the wire, at the byte that is on the wire, as
\* long as its count has not come round; before and after that nothing is on the wire.
PosInv ==
    /\ state = "IDLE" => pos \in {-1, 0}
    /\ state = "WAIT_RX_DONE" =>
         /\ pos >= 1
         /\ serving.kind = pkt.kind /\ serving.addr = pkt.addr /\ serving.data = pkt.data
         /\ serving.len = pkt.len
         /\ pos <= RxCountMod => rx_count = pos - 1
    /\ state \notin {"IDLE", "WAIT_RX_DONE"} => pos = -1

\* What the engine sees of the datagram.
LEMMA RxFields ==
    /\ (rx.start <=> pos >= 0) /\ (rx.valid <=> pos >= 0) /\ (rx.last <=> pos = pkt.len - 1)
    /\ rx.addr = pkt.addr /\ rx.data = pkt.data /\ (pos = 0 => rx.kind = pkt.kind)
  BY DEF rx

LEMMA SmallModulus ==
    ASSUME NEW m \in Nat, NEW n \in Nat, n < m PROVE n % m = n
  OBVIOUS

LEMMA InitPos == Init => PosInv
  BY DEF Init, W!Init, PosInv

LEMMA PosStep == ~Overlap /\ BoardInv /\ PosInv /\ [Next]_vars => PosInv'
  <1> SUFFICES ASSUME ~Overlap, BoardInv, PosInv, [Next]_vars PROVE PosInv'
    OBVIOUS
  <1>1. CASE Clk
    <2>1. /\ W!Clk /\ Deliver /\ Record
          /\ pos \in Int /\ pkt.len \in Nat \ {0} /\ pos < pkt.len
      BY <1>1, PacketTypes DEF Clk, BoardInv, EnvOK
    <2>2. pos >= 0 => pos' = (IF pos = pkt.len - 1 THEN -1 ELSE pos + 1) /\ pkt' = pkt
      BY <2>1 DEF Deliver
    <2>3. pos = -1 => pos' = -1 \/ (state = "IDLE" /\ pos' = 0)
      BY <2>1 DEF Deliver
    <2>4. CASE W!Idle
      BY <2>1, <2>3, <2>4, RxFields DEF W!Idle, PosInv
    <2>5. CASE W!StartRequest
      <3>1. pos = 0 /\ rx_count' = 0 /\ serving' = Serving(pkt, 0)
        BY <2>1, <2>5, RxFields DEF W!StartRequest, PosInv, Record
      <3>2. state' = IF pkt.len = 1 THEN "WAIT_DATA_OUT_RDY" ELSE "WAIT_RX_DONE"
        BY <2>1, <2>5, <3>1, RxFields DEF W!StartRequest
      <3> QED
        BY <2>1, <2>2, <3>1, <3>2 DEF PosInv, Serving
    <2>6. CASE W!ReceiveByte
      <3>1. /\ state = "WAIT_RX_DONE" /\ pos >= 1 /\ serving' = serving
            /\ rx_count' = (rx_count + 1) % RxCountMod
            /\ state' = IF pos = pkt.len - 1 THEN "WAIT_DATA_OUT_RDY" ELSE state
        BY <2>1, <2>6, RxFields DEF W!ReceiveByte, PosInv, Record
      <3>2. pos + 1 <= RxCountMod => rx_count' = pos
        <4> SUFFICES ASSUME pos + 1 <= RxCountMod PROVE rx_count' = pos
          OBVIOUS
        <4>1. rx_count + 1 = pos /\ pos \in Nat /\ pos < RxCountMod /\ RxCountMod \in Nat
          BY <2>1, <3>1, BoardAssumption DEF PosInv
        <4> QED
          BY <3>1, <4>1, SmallModulus
      <3> QED
        BY <2>1, <2>2, <3>1, <3>2 DEF PosInv
    <2>7. CASE W!WaitDataOutRdy \/ W!AbortReply \/ W!SendByte \/ W!FinishSend
      <3>1. state \notin {"IDLE", "WAIT_RX_DONE"} /\ state' # "WAIT_RX_DONE"
        BY <2>7 DEF W!WaitDataOutRdy, W!AbortReply, W!SendByte, W!Sending, W!FinishSend
      <3> QED
        BY <2>3, <3>1 DEF PosInv
    <2> QED
      BY <2>1, <2>4, <2>5, <2>6, <2>7 DEF W!Clk, W!Fsm
  <1>2. CASE DeviceWord \/ UNCHANGED vars
    <2>1. UNCHANGED <<wrapperVars, envVars, history>>
      BY <1>2 DEF DeviceWord, vars
    <2> QED
      BY <2>1 DEF wrapperVars, envVars, history, PosInv
  <1> QED
    BY <1>1, <1>2 DEF Next

\* The engine's count of the bytes is the place in the datagram on the wire, in every
\* reachable state (rx_count, ethernet_core_wrapper.vhd).
THEOREM PositionInvariant == ASSUME ~Overlap PROVE Spec => []PosInv
  <1>1. BoardInv /\ PosInv /\ [Next]_vars => PosInv'
    BY PosStep
  <1> QED
    BY <1>1, InitPos, BoardInvariant, PTL DEF Spec

-----------------------------------------------------------------------------
(* What the engine does belongs to the datagram it serves.                 *)

\* It does what the datagram asked for, unless the wait for the fifo timed out.
ServedInv ==
    state # "IDLE" =>
        /\ \/ what_to_do = serving.kind
           \/ what_to_do = "timeout" /\ serving.kind = "bulk" /\ state \in {"DATA_OUT", "FINISH_SEND"}
        /\ what_to_do = "read" => tx_count_target = 8
        /\ state = "WAIT_DATA_OUT_RDY" /\ what_to_do = "drop" => timeout_for_waiting_count = 0

LEMMA InitServed == Init => ServedInv
  BY DEF Init, W!Init, ServedInv

LEMMA ServedStep == BoardInv /\ PosInv /\ ServedInv /\ [Next]_vars => ServedInv'
  <1> SUFFICES ASSUME BoardInv, PosInv, ServedInv, [Next]_vars PROVE ServedInv'
    OBVIOUS
  <1>1. CASE Clk
    <2>1. W!Clk /\ Record
      BY <1>1 DEF Clk
    <2>2. CASE W!Idle \/ W!AbortReply \/ W!FinishSend
      BY <2>2 DEF W!Idle, W!AbortReply, W!FinishSend, ServedInv
    <2>3. CASE W!StartRequest
      <3>1. /\ pos = 0 /\ serving' = Serving(pkt, 0) /\ what_to_do' = pkt.kind
            /\ tx_count_target' = W!ReplyBytes(pkt.kind) /\ timeout_for_waiting_count' = 0
            /\ state' \notin {"DATA_OUT", "FINISH_SEND"}
        BY <2>1, <2>3, RxFields DEF W!StartRequest, PosInv, Record
      <3> QED
        BY <3>1 DEF ServedInv, Serving, W!ReplyBytes
    <2>4. CASE W!ReceiveByte
      <3>1. /\ state = "WAIT_RX_DONE" /\ timeout_for_waiting_count = 0 /\ serving' = serving
            /\ UNCHANGED <<what_to_do, tx_count_target, timeout_for_waiting_count>>
        BY <2>1, <2>4 DEF W!ReceiveByte, W!replyVars, Record, BoardInv, W!ReplyInv,
                          W!CountersCleared
      <3> QED
        BY <3>1 DEF ServedInv
    <2>5. CASE W!WaitDataOutRdy
      <3>1. state = "WAIT_DATA_OUT_RDY" /\ what_to_do = serving.kind /\ serving' = serving
        BY <2>1, <2>5 DEF W!WaitDataOutRdy, ServedInv, Record
      <3>2. W!WaitingTimedOut => what_to_do = "bulk"
        BY <3>1, BoardAssumption DEF W!WaitingTimedOut, W!ContinueToSendData, ServedInv
      <3>3. W!WaitingTimedOut => state' = "DATA_OUT"
        BY <2>5 DEF W!WaitDataOutRdy
      <3>4. what_to_do' = IF W!WaitingTimedOut THEN "timeout" ELSE what_to_do
        BY <2>5 DEF W!WaitDataOutRdy
      <3>5. what_to_do = "read" => tx_count_target' = tx_count_target
        BY <2>5 DEF W!WaitDataOutRdy, W!PrepareAccess
      <3>6. what_to_do' = "drop" => state' # "WAIT_DATA_OUT_RDY"
        BY <2>5, <3>4 DEF W!WaitDataOutRdy, W!ContinueToSendData
      <3> QED
        BY <3>1, <3>2, <3>3, <3>4, <3>5, <3>6 DEF ServedInv
    <2>6. CASE W!SendByte
      <3>1. /\ state = "DATA_OUT" /\ state' \in {"DATA_OUT", "FINISH_SEND"} /\ serving' = serving
            /\ UNCHANGED <<what_to_do, tx_count_target>>
        BY <2>1, <2>6 DEF W!SendByte, W!Sending, Record
      <3> QED
        BY <3>1 DEF ServedInv
    <2> QED
      BY <2>1, <2>2, <2>3, <2>4, <2>5, <2>6 DEF W!Clk, W!Fsm
  <1>2. CASE DeviceWord \/ UNCHANGED vars
    <2>1. UNCHANGED <<wrapperVars, history>>
      BY <1>2 DEF DeviceWord, vars
    <2> QED
      BY <2>1 DEF wrapperVars, history, ServedInv
  <1> QED
    BY <1>1, <1>2 DEF Next

\* What the engine does is what the datagram it has taken up asks for, or the timeout of a
\* bulk request (IDLE and WAIT_DATA_OUT_RDY, ethernet_core_wrapper.vhd).
THEOREM ServedInvariant == ASSUME ~Overlap PROVE Spec => []ServedInv
  <1>1. BoardInv /\ PosInv /\ ServedInv /\ [Next]_vars => ServedInv'
    BY ServedStep
  <1> QED
    BY <1>1, InitServed, PositionInvariant, BoardInvariant, PTL DEF Spec

-----------------------------------------------------------------------------
(* The register access of a read or a write request, as long as the engine *)
(* had given back the accesses of the request before: only then the        *)
(* request's own access is a new one to the register control, which sees   *)
(* it for one cycle.                                                       *)

\* The bytes of the datagram the engine has taken.
Got == IF state = "WAIT_RX_DONE" THEN pos ELSE serving.len

\* Address and value are in their registers once they have come, and the access is asked
\* for when they are complete; a read without an address is one of x"0000".
Latched ==
    state # "IDLE" /\ serving.clean =>
        /\ bulk_mode_int => serving.kind = "bulk"
        /\ register_write_or_read_int <=> serving.kind = "write"
        /\ register_access_delayed => register_access_int
        /\ serving.kind = "write" =>
             /\ register_access_int <=> Got >= 12
             /\ Got >= 8 => register_addr_int = serving.addr
             /\ Got >= 12 =>
                  register_addr_int = serving.addr /\ register_write_data_int = serving.data
        /\ serving.kind = "read" =>
             /\ Got >= 8 => register_access_int /\ register_addr_int = serving.addr
             /\ register_access_int /\ ~(Got >= 8) =>
                  state # "WAIT_RX_DONE" /\ register_addr_int = ZeroAddr
             /\ state \in {"DATA_OUT", "FINISH_SEND"} => register_access_int

\* What was captured is the word of the access that was made, which lies one cycle back
\* at least when the reply's bytes are sent.
AccessMade ==
    /\ access \in [made : BOOLEAN, wr : BOOLEAN, addr : Addr, data : Value]
    /\ ~register_access_delayed => ~register_read_ready_delayed /\ register_read_data_int = 0
    /\ state # "IDLE" /\ serving.clean =>
        /\ serving.kind \in {"read", "write"} /\ register_access_delayed =>
             /\ access.made /\ (access.wr <=> serving.kind = "write")
             /\ access.addr = register_addr_int
             /\ access.data = IF serving.kind = "write" THEN register_write_data_int
                              ELSE register_read_data_int
        /\ register_access_int =>
             \/ state \in {"WAIT_RX_DONE", "WAIT_DATA_OUT_RDY"}
             \/ state = "DATA_OUT" /\ tx_start_reg
             \/ register_access_delayed

AccessInv == Latched /\ AccessMade

\* What is recorded of an access.
LEMMA AccessTyped ==
    ASSUME BoardInv, Record, access \in [made : BOOLEAN, wr : BOOLEAN, addr : Addr, data : Value]
    PROVE  access' \in [made : BOOLEAN, wr : BOOLEAN, addr : Addr, data : Value]
  <1>1. 0 \in Value /\ R!REG_DATA_OUT \in Value /\ ZeroAddr \in Addr
    BY SmallValues, ReadsAreValues, PacketAssumption DEF BoardInv
  <1>2. register_addr_int \in Addr /\ register_write_data_int \in Value
    BY DEF BoardInv, W!ReplyInv, W!TypeOK
  <1>3. /\ WireOfWrapper!REGISTER_WRITE_OR_READ \in BOOLEAN
        /\ WireOfWrapper!REGISTER_ADDR \in Addr /\ WireOfWrapper!REGISTER_WRITE_DATA \in Value
    BY <1>1, <1>2 DEF WireOfWrapper!REGISTER_WRITE_OR_READ, WireOfWrapper!REGISTER_ADDR,
                      WireOfWrapper!REGISTER_WRITE_DATA
  <1> QED
    BY <1>1, <1>3 DEF Record, NoAccess

LEMMA InitAccess == Init => AccessInv
  <1>1. 0 \in Value /\ ZeroAddr \in Addr
    BY SmallValues, PacketAssumption
  <1> QED
    BY <1>1 DEF Init, W!Init, AccessInv, Latched, AccessMade, NoAccess

\* While a datagram is taken in, byte by byte.
LEMMA LatchedReceives ==
    ASSUME BoardInv, PosInv, ServedInv, Latched, W!Clk, Deliver, Record, W!ReceiveByte
    PROVE  Latched'
  <1>1. /\ state = "WAIT_RX_DONE" /\ state' \in {"WAIT_RX_DONE", "WAIT_DATA_OUT_RDY"}
        /\ serving' = serving /\ what_to_do = serving.kind /\ W!LatchByte
        /\ register_write_or_read_int' = register_write_or_read_int
        /\ rx.addr = serving.addr /\ rx.data = serving.data
        /\ register_access_delayed' = register_access_int
    <2>1. state = "WAIT_RX_DONE" /\ pos >= 1
      BY DEF W!ReceiveByte, PosInv
    <2>2. serving' = serving /\ what_to_do = serving.kind
      BY <2>1 DEF ServedInv, Record
    <2>3. rx.addr = serving.addr /\ rx.data = serving.data /\ rx.valid
      BY <2>1, RxFields, PacketTypes DEF PosInv, BoardInv
    <2>4. register_access_delayed' = register_access_int
      BY DEF W!Clk, W!CaptureRegister
    <2> QED
      BY <2>1, <2>2, <2>3, <2>4 DEF W!ReceiveByte
  <1>2. Got = pos /\ Got' = pos + 1 /\ pos \in Nat /\ (pos <= 12 => rx_count = pos - 1)
    <2>1. pos \in Int /\ pos >= 1 /\ pkt.len \in Nat /\ serving.len = pkt.len /\ pos <= pkt.len - 1
      BY <1>1, PacketTypes DEF BoardInv, EnvOK, PosInv
    <2>2. pos' = (IF pos = pkt.len - 1 THEN -1 ELSE pos + 1)
      BY <2>1 DEF Deliver
    <2>3. state' = IF pos = pkt.len - 1 THEN "WAIT_DATA_OUT_RDY" ELSE "WAIT_RX_DONE"
      BY <1>1, RxFields DEF W!ReceiveByte
    <2>4. pos <= 12 => rx_count = pos - 1
      BY <1>1, <2>1, BoardAssumption DEF PosInv
    <2> QED
      BY <1>1, <2>1, <2>2, <2>3, <2>4 DEF Got
  <1> SUFFICES ASSUME serving.clean PROVE Latched'
    BY <1>1 DEF Latched
  <1>3. /\ bulk_mode_int' => serving.kind = "bulk"
        /\ register_access_delayed' => register_access_int'
    BY <1>1 DEF W!LatchByte, Latched
  <1>4. CASE serving.kind = "write"
    <2>1. register_access_int' <=> pos + 1 >= 12
      BY <1>1, <1>2, <1>4 DEF W!LatchByte, Latched
    <2>2. pos + 1 >= 8 => register_addr_int' = serving.addr
      BY <1>1, <1>2, <1>4 DEF W!LatchByte, Latched
    <2>3. pos + 1 >= 12 =>
            register_addr_int' = serving.addr /\ register_write_data_int' = serving.data
      BY <1>1, <1>2, <1>4 DEF W!LatchByte, Latched
    <2> QED
      BY <1>1, <1>2, <1>3, <1>4, <2>1, <2>2, <2>3 DEF Latched
  <1>5. CASE serving.kind = "read"
    <2>1. pos + 1 >= 8 => register_access_int' /\ register_addr_int' = serving.addr
      BY <1>1, <1>2, <1>5 DEF W!LatchByte, Latched
    <2>2. pos + 1 < 8 => ~register_access_int'
      BY <1>1, <1>2, <1>5 DEF W!LatchByte, Latched
    <2> QED
      BY <1>1, <1>2, <1>3, <1>5, <2>1, <2>2 DEF Latched
  <1>6. CASE serving.kind \notin {"read", "write"}
    BY <1>1, <1>3, <1>6 DEF Latched
  <1> QED
    BY <1>4, <1>5, <1>6

LEMMA LatchedStep ==
    ASSUME BoardInv, PosInv, ServedInv, Latched, W!Clk, Deliver, Record
    PROVE  Latched'
  <1>1. CASE W!Idle \/ W!AbortReply \/ W!FinishSend
    BY <1>1 DEF W!Idle, W!AbortReply, W!FinishSend, Latched
  <1>2. CASE W!StartRequest
    <2>1. /\ state = "IDLE" /\ pos = 0 /\ serving' = Serving(pkt, 0)
          /\ register_write_or_read_int' <=> pkt.kind = "write"
          /\ UNCHANGED <<register_access_int, bulk_mode_int>>
          /\ register_access_delayed' = register_access_int
          /\ state' = IF pkt.len = 1 THEN "WAIT_DATA_OUT_RDY" ELSE "WAIT_RX_DONE"
      <3>1. state = "IDLE" /\ pos = 0 /\ serving' = Serving(pkt, 0)
        BY <1>2, RxFields DEF W!StartRequest, PosInv, Record
      <3>2. rx.valid /\ rx.kind = pkt.kind /\ (rx.last <=> pkt.len = 1)
        BY <3>1, RxFields, PacketTypes DEF BoardInv
      <3>3. register_access_delayed' = register_access_int
        BY DEF W!Clk, W!CaptureRegister
      <3> QED
        BY <1>2, <3>1, <3>2, <3>3 DEF W!StartRequest, W!bulkVars
    <2>2. Got' = 1
      BY <2>1, PacketTypes DEF Deliver, Got, Serving, BoardInv
    <2>3. serving'.kind = pkt.kind /\ (serving'.clean <=> ~register_access_int /\ ~bulk_mode_int)
      BY <2>1 DEF Serving
    <2> QED
      BY <2>1, <2>2, <2>3 DEF Latched
  <1>3. CASE W!ReceiveByte
    BY <1>3, LatchedReceives
  <1>4. CASE W!WaitDataOutRdy
    <2>1. /\ state = "WAIT_DATA_OUT_RDY" /\ what_to_do = serving.kind /\ serving' = serving
          /\ W!PrepareAccess /\ state' # "WAIT_RX_DONE" /\ Got' = Got
          /\ UNCHANGED <<register_write_or_read_int, register_write_data_int>>
          /\ register_access_delayed' = register_access_int
      BY <1>4 DEF W!WaitDataOutRdy, ServedInv, Record, Got, W!Clk, W!CaptureRegister
    <2> QED
      BY <2>1 DEF Latched, W!PrepareAccess
  <1>5. CASE W!SendByte
    <2>1. /\ state = "DATA_OUT" /\ state' \in {"DATA_OUT", "FINISH_SEND"} /\ serving' = serving
          /\ UNCHANGED W!registerVars /\ UNCHANGED W!bulkVars /\ Got' = Got
          /\ register_access_delayed' = register_access_int
      BY <1>5 DEF W!SendByte, W!Sending, Record, Got, W!Clk, W!CaptureRegister
    <2> QED
      BY <2>1 DEF Latched, W!registerVars, W!bulkVars
  <1> QED
    BY <1>1, <1>2, <1>3, <1>4, <1>5 DEF W!Clk, W!Fsm

\* From then on the registers of the access keep what they hold until the reply is over.
LEMMA AccessKept ==
    ASSUME BoardInv, PosInv, ServedInv, Latched, W!Clk, Record, state # "IDLE", state' # "IDLE",
           serving.clean, serving.kind \in {"read", "write"}, register_access_int
    PROVE  /\ register_addr_int' = register_addr_int
           /\ register_write_data_int' = register_write_data_int
  <1>1. CASE W!ReceiveByte
    <2>1. /\ state = "WAIT_RX_DONE" /\ pos \in Int /\ Got = pos /\ pos >= 1
          /\ what_to_do = serving.kind /\ W!LatchByte
      <3>1. state = "WAIT_RX_DONE" /\ pos \in Int /\ pos >= 1
        BY <1>1, PacketTypes DEF W!ReceiveByte, PosInv, BoardInv
      <3>2. Got = pos /\ what_to_do = serving.kind /\ rx.valid
        BY <3>1, RxFields DEF ServedInv, Got
      <3> QED
        BY <1>1, <3>1, <3>2 DEF W!ReceiveByte
    <2>2. rx.addr = serving.addr /\ rx.data = serving.data
      BY <2>1, RxFields DEF PosInv
    <2>3. register_addr_int = serving.addr
      BY <2>1 DEF Latched
    <2>4. serving.kind = "write" => register_write_data_int = serving.data
      BY <2>1 DEF Latched
    <2> QED
      BY <2>1, <2>2, <2>3, <2>4 DEF W!LatchByte
  <1>2. CASE W!WaitDataOutRdy
    BY <1>2 DEF W!WaitDataOutRdy, W!PrepareAccess
  <1>3. CASE W!SendByte
    BY <1>3 DEF W!SendByte, W!registerVars
  <1> QED
    BY <1>1, <1>2, <1>3 DEF W!Clk, W!Fsm, W!Idle, W!StartRequest, W!AbortReply, W!FinishSend

LEMMA AccessMadeStep ==
    ASSUME BoardInv, PosInv, ServedInv, Latched, AccessMade, W!Clk, Record
    PROVE  AccessMade'
  <1>1. /\ register_access_delayed' = register_access_int
        /\ register_read_ready_delayed' = R!REG_VALID
        /\ register_read_data_int' =
             IF ~register_access_int THEN 0
             ELSE IF R!REG_VALID /\ ~register_read_ready_delayed THEN R!REG_DATA_OUT
             ELSE register_read_data_int
    BY DEF W!Clk, W!CaptureRegister
  <1>2. R!REG_VALID => WireOfWrapper!REGISTER_ACCESS
    BY DEF R!REG_VALID, R!single_register_read
  <1>3. WireOfWrapper!REGISTER_ACCESS <=>
           register_access_int /\ ~bulk_mode_int /\ ~register_access_delayed
    BY DEF WireOfWrapper!REGISTER_ACCESS
  <1>4. ~register_access_delayed' => ~register_read_ready_delayed' /\ register_read_data_int' = 0
    BY <1>1, <1>2, <1>3
  <1>5. ASSUME state' # "IDLE", serving'.clean, register_access_int'
        PROVE  \/ state' \in {"WAIT_RX_DONE", "WAIT_DATA_OUT_RDY"}
               \/ state' = "DATA_OUT" /\ tx_start_reg'
               \/ register_access_delayed'
    BY <1>1, <1>5 DEF W!Clk, W!Fsm, W!Idle, W!StartRequest, W!ReceiveByte, W!WaitDataOutRdy,
       W!AbortReply, W!SendByte, W!Sending, W!registerVars, W!FinishSend
  <1>6. ASSUME state' # "IDLE", serving'.clean, serving'.kind \in {"read", "write"},
               register_access_delayed'
        PROVE  /\ access'.made /\ (access'.wr <=> serving'.kind = "write")
               /\ access'.addr = register_addr_int'
               /\ access'.data = IF serving'.kind = "write" THEN register_write_data_int'
                                 ELSE register_read_data_int'
    <2>1. register_access_int
      BY <1>1, <1>6
    <2>2. state # "IDLE" /\ serving' = serving
      <3>1. CASE state = "IDLE" /\ pos >= 0
        BY <1>6, <2>1, <3>1 DEF Record, Serving
      <3>2. CASE state = "IDLE" /\ ~(pos >= 0)
        <4>1. ~rx.start
          BY <3>2, RxFields
        <4> QED
          BY <1>6, <3>2, <4>1 DEF W!Clk, W!Fsm, W!Idle, W!StartRequest, W!ReceiveByte,
             W!WaitDataOutRdy, W!AbortReply, W!SendByte, W!Sending, W!FinishSend
      <3>3. state # "IDLE" => serving' = serving
        BY DEF Record
      <3> QED
        BY <3>1, <3>2, <3>3
    <2>3. /\ register_addr_int' = register_addr_int
          /\ register_write_data_int' = register_write_data_int
      BY <1>6, <2>1, <2>2, AccessKept
    <2>4. ~bulk_mode_int /\ (register_write_or_read_int <=> serving.kind = "write")
      BY <1>6, <2>2 DEF Latched
    <2>5. CASE register_access_delayed
      <3>1. /\ ~WireOfWrapper!REGISTER_ACCESS /\ ~R!REG_VALID
        BY <1>2, <1>3, <2>5
      <3>2. access' = access /\ register_read_data_int' = register_read_data_int
        BY <1>1, <2>1, <2>2, <3>1 DEF Record
      <3> QED
        BY <1>6, <2>2, <2>3, <2>5, <3>2 DEF AccessMade
    <2>6. CASE ~register_access_delayed
      <3>1. WireOfWrapper!REGISTER_ACCESS
        BY <1>3, <2>1, <2>4, <2>6
      <3>2. access' = [made |-> TRUE, wr |-> WireOfWrapper!REGISTER_WRITE_OR_READ,
                       addr |-> WireOfWrapper!REGISTER_ADDR,
                       data |-> IF WireOfWrapper!REGISTER_WRITE_OR_READ
                                THEN WireOfWrapper!REGISTER_WRITE_DATA
                                ELSE IF R!REG_VALID THEN R!REG_DATA_OUT ELSE 0]
        BY <2>2, <3>1 DEF Record
      <3>3. /\ WireOfWrapper!REGISTER_WRITE_OR_READ <=> serving.kind = "write"
            /\ WireOfWrapper!REGISTER_ADDR = register_addr_int
            /\ WireOfWrapper!REGISTER_WRITE_DATA = register_write_data_int
        BY <2>1, <2>4 DEF WireOfWrapper!REGISTER_WRITE_OR_READ, WireOfWrapper!REGISTER_ADDR,
                          WireOfWrapper!REGISTER_WRITE_DATA
      <3>4. register_read_data_int' = IF R!REG_VALID THEN R!REG_DATA_OUT ELSE 0
        BY <1>1, <2>1, <2>6 DEF AccessMade
      <3> QED
        BY <2>2, <2>3, <3>2, <3>3, <3>4
    <2> QED
      BY <2>5, <2>6
  <1>7. access' \in [made : BOOLEAN, wr : BOOLEAN, addr : Addr, data : Value]
    BY AccessTyped DEF AccessMade
  <1> QED
    BY <1>4, <1>5, <1>6, <1>7 DEF AccessMade

LEMMA AccessStep == BoardInv /\ PosInv /\ ServedInv /\ AccessInv /\ [Next]_vars => AccessInv'
  <1> SUFFICES ASSUME BoardInv, PosInv, ServedInv, AccessInv, [Next]_vars PROVE AccessInv'
    OBVIOUS
  <1>1. CASE Clk
    BY <1>1, LatchedStep, AccessMadeStep DEF Clk, AccessInv
  <1>2. CASE DeviceWord \/ UNCHANGED vars
    <2>1. UNCHANGED <<wrapperVars, envVars, history>>
      BY <1>2 DEF DeviceWord, vars
    <2> QED
      BY <2>1 DEF wrapperVars, envVars, history, AccessInv, Latched, AccessMade, Got
  <1> QED
    BY <1>1, <1>2 DEF Next

\* If the engine was clean when the request came in, address and value are latched from it,
\* the access made is the one it asks for, and the word kept for the reply is what the
\* register control answered then (WAIT_RX_DONE and the capture of the register's word,
\* ethernet_core_wrapper.vhd; the strobes of register_control.vhd).
THEOREM AccessInvariant == ASSUME ~Overlap PROVE Spec => []AccessInv
  <1>1. BoardInv /\ PosInv /\ ServedInv /\ AccessInv /\ [Next]_vars => AccessInv'
    BY AccessStep
  <1> QED
    BY <1>1, InitAccess, ServedInvariant, PositionInvariant, BoardInvariant, PTL DEF Spec

-----------------------------------------------------------------------------
(* The frame.                                                              *)

\* The word of a read reply, in its bytes 4 to 7, is the one that was captured.
AnswerInv == frame_done /\ what_to_do = "read" => wire[5].val = register_read_data_int

LEMMA InitAnswer == Init => AnswerInv
  BY DEF Init, W!Init, AnswerInv

\* The captured word does not change while bytes are sent.
LEMMA CaptureKept ==
    ASSUME WireInv, W!Clk, state = "DATA_OUT", what_to_do = "read", ~tx_start_reg
    PROVE  register_read_data_int' = register_read_data_int
  <1>1. register_access_int /\ register_access_delayed
    BY DEF WireInv
  <1>2. ~R!REG_VALID
    BY <1>1 DEF R!REG_VALID, R!single_register_read, WireOfWrapper!REGISTER_ACCESS
  <1> QED
    BY <1>1, <1>2 DEF W!Clk, W!CaptureRegister

LEMMA AnswerStep ==
    Unicast /\ BoardInv /\ StageInv /\ TransferInv /\ WireInv /\ ServedInv /\ AnswerInv /\ [Next]_vars
        => AnswerInv'
  <1> SUFFICES ASSUME Unicast, BoardInv, StageInv, TransferInv, WireInv, ServedInv, AnswerInv,
                      [Next]_vars
               PROVE  AnswerInv'
    OBVIOUS
  <1>1. CASE Clk
    <2>1. W!Clk /\ Record
      BY <1>1 DEF Clk
    <2>2. CASE state = "DATA_OUT" /\ udp_tx_state = "SEND_USER_DATA"
      <3>1. what_to_do' = what_to_do /\ ~tx_start_reg
        BY <2>1, <2>2, LastByteAgreed, EngineSends DEF SendingFrame, W!SendByte
      <3>2. /\ tx_count \in Nat /\ Len(wire) = tx_count /\ (frame_done' <=> W!LastByte)
            /\ \A i \in 1..tx_count : wire'[i] = wire[i]
        BY <2>1, <2>2, ByteSent, Lengths
      <3>3. frame_done' /\ what_to_do = "read" => wire'[5].val = register_read_data_int'
        <4> SUFFICES ASSUME frame_done', what_to_do = "read"
                     PROVE  wire'[5].val = register_read_data_int'
          OBVIOUS
        <4>1. tx_count = 7
          BY <2>2, <3>2, FifoNeverRunsDry DEF ServedInv
        <4>2. wire[5].val = register_read_data_int
          <5>1. InWord(tx_count) /\ tx_count % 4 = 3 /\ WordSource = register_read_data_int
            BY <4>1 DEF InWord, WordSource
          <5> QED
            BY <2>2, <4>1, <5>1 DEF WireInv
        <4>3. register_read_data_int' = register_read_data_int
          BY <2>1, <2>2, <3>1, CaptureKept
        <4> QED
          BY <3>2, <4>1, <4>2, <4>3
      <3> QED
        BY <3>1, <3>3 DEF AnswerInv
    <2>3. CASE ~(state = "DATA_OUT" /\ udp_tx_state = "SEND_USER_DATA")
      BY <2>1, <2>3, BytesInDataOut DEF Record, AnswerInv
    <2> QED
      BY <2>2, <2>3
  <1>2. CASE DeviceWord \/ UNCHANGED vars
    <2>1. UNCHANGED <<wrapperVars, history>>
      BY <1>2 DEF DeviceWord, vars
    <2> QED
      BY <2>1 DEF wrapperVars, history, AnswerInv
  <1> QED
    BY <1>1, <1>2 DEF Next

\* What a frame tells the PC is true if the engine began it with nothing left over: it
\* answers the request that came in, a confirmed write has reached the register with the
\* address and the value of the request, and a read word is what the addressed register
\* held when it was accessed for this request.  Replies may be given up in between because
\* the PC's address is not found (ethernet_core_wrapper.vhd, arp_REQ.vhd).
THEOREM CleanRepliesAreTrue ==
    ASSUME ~MacStalls, ~Overlap, Unicast PROVE Spec => []CleanReplyIsTrue
  <1>1. BoardInv /\ StageInv /\ TransferInv /\ WireInv /\ ServedInv /\ AnswerInv /\ [Next]_vars
           => AnswerInv'
    BY AnswerStep
  <1>2. ASSUME WireInv, ServedInv, AccessInv, AnswerInv, frame_done PROVE CleanReplyIsTrue
    <2>1. /\ state = "FINISH_SEND" /\ Got = serving.len
          /\ wire[1].what = ReplyFlag(what_to_do)
          /\ what_to_do = serving.kind \/ (what_to_do = "timeout" /\ serving.kind = "bulk")
      BY <1>2 DEF WireInv, ServedInv, Got
    <2>2. ReplyMatchesRequest
      BY <2>1 DEF ReplyMatchesRequest, ReplyFlag
    <2>3. ASSUME serving.clean, serving.kind \in {"read", "write"}, register_access_int
          PROVE  /\ access \in [made : BOOLEAN, wr : BOOLEAN, addr : Addr, data : Value]
                 /\ access.made /\ (access.wr <=> serving.kind = "write")
                 /\ access.addr = register_addr_int
                 /\ access.data = IF serving.kind = "write" THEN register_write_data_int
                                  ELSE register_read_data_int
      BY <1>2, <2>1, <2>3 DEF AccessInv, AccessMade
    <2>4. CleanWriteExecuted
      <3> SUFFICES ASSUME serving.clean, serving.kind = "write", serving.len >= 12
                   PROVE  access = [made |-> TRUE, wr |-> TRUE, addr |-> serving.addr,
                                    data |-> serving.data]
        BY DEF CleanWriteExecuted, ConfirmedWriteExecuted
      <3>1. /\ register_access_int /\ register_addr_int = serving.addr
            /\ register_write_data_int = serving.data
        BY <1>2, <2>1 DEF AccessInv, Latched
      <3> QED
        BY <2>3, <3>1
    <2>5. CleanReadIsFresh
      <3> SUFFICES ASSUME serving.clean, serving.kind = "read"
                   PROVE  /\ access.made /\ ~access.wr
                          /\ access.addr = IF serving.len >= 8 THEN serving.addr ELSE ZeroAddr
                          /\ wire[5].val = access.data
        BY DEF CleanReadIsFresh, ReadReplyIsFresh
      <3>1. register_access_int /\ what_to_do = "read"
        BY <1>2, <2>1 DEF AccessInv, Latched
      <3>2. register_addr_int = IF serving.len >= 8 THEN serving.addr ELSE ZeroAddr
        BY <1>2, <2>1, <3>1 DEF AccessInv, Latched
      <3> QED
        BY <1>2, <2>3, <3>1, <3>2 DEF AnswerInv
    <2> QED
      BY <2>2, <2>4, <2>5 DEF CleanReplyIsTrue
  <1>3. ~frame_done => CleanReplyIsTrue
    BY DEF CleanReplyIsTrue, ReplyMatchesRequest, CleanWriteExecuted, CleanReadIsFresh,
           ConfirmedWriteExecuted, ReadReplyIsFresh
  <1>4. WireInv /\ ServedInv /\ AccessInv /\ AnswerInv => CleanReplyIsTrue
    BY <1>2, <1>3
  <1> QED
    BY <1>1, <1>4, InitAnswer, BoardInvariant, StageInvariant, TransferInvariant, WireInvariant,
       ServedInvariant, AccessInvariant, PTL DEF Spec

-----------------------------------------------------------------------------
(* Nothing is left over, as long as every ARP question is answered.        *)

\* The resolution never gives up.
AnsweredInv == ~timeout_reg /\ ~timer_over /\ nwk_received.entry = req_ip_addr

LEMMA InitAnswered == Init => AnsweredInv
  BY DEF Init, Q!Init, AnsweredInv

LEMMA AnsweredStep == ~ArpFails /\ AnsweredInv /\ [Next]_vars => AnsweredInv'
  <1> SUFFICES ASSUME ~ArpFails, AnsweredInv, [Next]_vars PROVE AnsweredInv'
    OBVIOUS
  <1>1. CASE Clk
    <2>1. Q!Clk /\ Lookup
      BY <1>1 DEF Clk
    <2>2. ~timer_over' /\ nwk_received'.entry = req_ip_addr'
      BY <2>1 DEF Lookup
    <2>3. ~timeout_reg'
      BY <2>1 DEF AnsweredInv, Q!Clk, Q!Idle, Q!vars, Q!StartLookup, Q!Lookup, Q!Receive,
                  Q!WaitReply, Q!Pause
    <2> QED
      BY <2>2, <2>3 DEF AnsweredInv
  <1>2. CASE DeviceWord \/ UNCHANGED vars
    <2>1. UNCHANGED <<txVars, envVars>>
      BY <1>2 DEF DeviceWord, vars
    <2> QED
      BY <2>1 DEF txVars, envVars, AnsweredInv
  <1> QED
    BY <1>1, <1>2 DEF Next

\* The reply engine is told of no error.
LEMMA NoError ==
    ASSUME StageInv, AnsweredInv, state = "DATA_OUT" PROVE WireOfUdp!udp_tx_result # "ERR"
  BY DEF StageInv, AnsweredInv, Rest, Starting, Resolving, SendingFrame, Failing,
         WireOfUdp!udp_tx_result

\* Register and bulk access are held by the request that needs them, every request begins
\* without them, and the two counters of datagrams agree.
TidyInv ==
    /\ register_access_int => state # "IDLE" /\ what_to_do \in {"read", "write", "bulk"}
    /\ bulk_mode_int => state # "IDLE" /\ what_to_do = "bulk" /\ register_access_int
    /\ register_access_int /\ what_to_do = "bulk" => bulk_mode_int
    /\ state # "IDLE" => serving.clean
    /\ rx_pkg_ctr_int = arrived

LEMMA InitTidy == Init => TidyInv
  BY DEF Init, W!Init, TidyInv

\* A bulk request that holds its access is answered before the timeout.
LEMMA InTime ==
    ASSUME BoardInv, ServedInv, TidyInv, state = "WAIT_DATA_OUT_RDY" PROVE ~W!WaitingTimedOut
  <1> SUFFICES ASSUME W!WaitingTimedOut PROVE FALSE
    OBVIOUS
  <1>1. ~W!ContinueToSendData /\ timeout_for_waiting_count >= 2 /\ timeout_for_waiting_count \in Nat
    BY BoardAssumption DEF W!WaitingTimedOut
  <1>2. what_to_do = "bulk"
    BY <1>1 DEF W!ContinueToSendData, ServedInv
  <1>3. \/ bulk_mode_int /\ ~register_access_int
        \/ bulk_mode_int /\ bulk_read_target_set
    BY <1>1, <1>2 DEF BoardInv, W!ReplyInv, W!BulkSizedEarly
  <1>4. bulk_mode_int /\ register_access_int /\ bulk_read_target_set
    BY <1>2, <1>3 DEF TidyInv
  <1> QED
    BY <1>1, <1>2, <1>4 DEF W!ContinueToSendData, R!REG_BLK_VALID, WireOfWrapper!REGISTER_BLK_EN

LEMMA TidyStep ==
    Unicast /\ BoardInv /\ StageInv /\ PosInv /\ ServedInv /\ AnsweredInv /\ TidyInv /\ [Next]_vars
        => TidyInv'
  <1> SUFFICES ASSUME Unicast, BoardInv, StageInv, PosInv, ServedInv, AnsweredInv, TidyInv,
                      [Next]_vars
               PROVE  TidyInv'
    OBVIOUS
  <1>1. CASE Clk
    <2>1. /\ W!Clk /\ Record /\ (state # "IDLE" => serving' = serving) /\ pos \in Int
      BY <1>1, PacketTypes DEF Clk, Record, BoardInv
    <2>2. CASE W!Idle
      <3>1. pos = -1
        BY <2>1, <2>2, RxFields DEF W!Idle, PosInv
      <3> QED
        BY <2>1, <2>2, <3>1 DEF W!Idle, W!registerVars, W!bulkVars, W!statistics, TidyInv, Record
    <2>3. CASE W!StartRequest
      <3>1. state = "IDLE" /\ pos = 0 /\ rx.valid
        BY <2>1, <2>3, RxFields DEF W!StartRequest, PosInv
      <3>2. ~register_access_int /\ ~bulk_mode_int
        BY <3>1 DEF TidyInv
      <3>3. ~register_access_int' /\ ~bulk_mode_int'
        BY <2>3, <3>2 DEF W!StartRequest, W!bulkVars
      <3>4. serving' = Serving(pkt, pos)
        BY <2>1, <3>1 DEF Record
      <3>5. serving'.clean
        BY <3>2, <3>4 DEF Serving
      <3>6. rx_pkg_ctr_int' = arrived'
        BY <2>1, <2>3, <3>1 DEF W!StartRequest, TidyInv, Record
      <3> QED
        BY <3>3, <3>5, <3>6 DEF TidyInv
    <2>4. CASE W!ReceiveByte
      <3>1. state = "WAIT_RX_DONE" /\ pos >= 1 /\ state' # "IDLE" /\ what_to_do' = what_to_do
        BY <2>4 DEF W!ReceiveByte, PosInv
      <3>2. rx_pkg_ctr_int' = arrived'
        BY <2>1, <2>4, <3>1 DEF W!ReceiveByte, W!statistics, Record, TidyInv
      <3>3. rx.valid
        BY <2>1, <3>1, RxFields
      <3> QED
        BY <2>1, <2>4, <3>1, <3>2, <3>3 DEF W!ReceiveByte, W!LatchByte, TidyInv
    <2>5. CASE W!WaitDataOutRdy
      <3>1. state = "WAIT_DATA_OUT_RDY" /\ pos = -1 /\ W!PrepareAccess
        BY <2>5 DEF W!WaitDataOutRdy, PosInv
      <3>2. what_to_do' = what_to_do /\ (state' = "IDLE" => what_to_do = "drop")
        BY <2>5, <3>1, InTime DEF W!WaitDataOutRdy
      <3>3. rx_pkg_ctr_int' = arrived'
        BY <2>1, <2>5, <3>1 DEF W!WaitDataOutRdy, W!statistics, Record, TidyInv
      <3> QED
        BY <2>1, <3>1, <3>2, <3>3 DEF W!PrepareAccess, TidyInv
    <2>6. CASE W!AbortReply
      BY <2>6, NoError DEF W!AbortReply
    <2>7. CASE W!SendByte
      <3>1. state = "DATA_OUT" /\ pos = -1 /\ state' # "IDLE" /\ ~rx.broadcast
        BY <2>7, RxIsUnicast DEF W!SendByte, W!Sending, PosInv, BoardInv
      <3>2. rx_pkg_ctr_int' = arrived'
        BY <2>1, <2>7, <3>1 DEF W!SendByte, Record, TidyInv
      <3> QED
        BY <2>1, <2>7, <3>1, <3>2 DEF W!SendByte, W!registerVars, W!bulkVars, TidyInv
    <2>8. CASE W!FinishSend
      <3>1. state = "FINISH_SEND" /\ pos = -1 /\ state' = "IDLE"
        BY <2>8 DEF W!FinishSend, PosInv
      <3>2. rx_pkg_ctr_int' = arrived'
        BY <2>1, <2>8, <3>1 DEF W!FinishSend, Record, TidyInv
      <3>3. ~register_access_int' /\ ~bulk_mode_int'
        BY <2>8 DEF W!FinishSend, W!registerVars, W!bulkVars, TidyInv
      <3> QED
        BY <3>1, <3>2, <3>3 DEF TidyInv
    <2> QED
      BY <2>1, <2>2, <2>3, <2>4, <2>5, <2>6, <2>7, <2>8 DEF W!Clk, W!Fsm
  <1>2. CASE DeviceWord \/ UNCHANGED vars
    <2>1. UNCHANGED <<wrapperVars, history>>
      BY <1>2 DEF DeviceWord, vars
    <2> QED
      BY <2>1 DEF wrapperVars, history, TidyInv
  <1> QED
    BY <1>1, <1>2 DEF Next

\* If the address of the PC is always found, each request starts on a clean engine and
\* leaves one behind (FINISH_SEND, ethernet_core_wrapper.vhd).
THEOREM TidyInvariant ==
    ASSUME ~MacStalls, ~Overlap, ~ArpFails, Unicast PROVE Spec => [](TidyInv /\ AnsweredInv)
  <1>1. AnsweredInv /\ [Next]_vars => AnsweredInv'
    BY AnsweredStep
  <1>2. BoardInv /\ StageInv /\ PosInv /\ ServedInv /\ AnsweredInv /\ TidyInv /\ [Next]_vars => TidyInv'
    BY TidyStep
  <1> QED
    BY <1>1, <1>2, InitAnswered, InitTidy, BoardInvariant, StageInvariant, PositionInvariant,
       ServedInvariant, PTL DEF Spec

\* What every frame tells the PC is true, then: it never begins with the rest of a reply
\* that was given up (ethernet_core_wrapper.vhd).
THEOREM RepliesAreTrue ==
    ASSUME ~MacStalls, ~Overlap, ~ArpFails, Unicast PROVE Spec => []ReplyIsTrue
  <1>1. TidyInv /\ WireInv /\ CleanReplyIsTrue => ReplyIsTrue
    BY DEF TidyInv, WireInv, CleanReplyIsTrue, CleanWriteExecuted, CleanReadIsFresh, ReplyIsTrue,
           ConfirmedWriteExecuted, ReadReplyIsFresh
  <1> QED
    BY <1>1, TidyInvariant, WireInvariant, CleanRepliesAreTrue, PTL

\* The PC's own datagrams do not begin with the identifier of the timeout answer.
NoTimeoutAsked == \A p \in Packets : p.kind # "timeout"

\* Nothing of a request outlives its reply: the accesses are given back, no wait for the
\* fifo runs into its timeout, and the package counter has counted every datagram
\* (ethernet_core_wrapper.vhd: FINISH_SEND, WAIT_DATA_OUT_RDY and IDLE).
THEOREM NothingIsLeftOver ==
    ASSUME ~MacStalls, ~Overlap, ~ArpFails, Unicast, NoTimeoutAsked
    PROVE  Spec => []NothingLeftOver
  <1>1. Init => NeverTimesOut
    BY DEF Init, W!Init, NeverTimesOut
  <1>2. BoardInv /\ PosInv /\ ServedInv /\ TidyInv /\ NeverTimesOut /\ [Next]_vars => NeverTimesOut'
    <2> SUFFICES ASSUME BoardInv, PosInv, ServedInv, TidyInv, NeverTimesOut, [Next]_vars
                 PROVE  NeverTimesOut'
      OBVIOUS
    <2>1. CASE Clk
      <3>1. CASE W!StartRequest
        <4>1. rx.kind = pkt.kind /\ pkt \in Packets
          BY <3>1, RxFields DEF W!StartRequest, PosInv, BoardInv, EnvOK
        <4> QED
          BY <3>1, <4>1 DEF W!StartRequest, NoTimeoutAsked, NeverTimesOut
      <3>2. CASE W!WaitDataOutRdy
        BY <3>2, InTime DEF W!WaitDataOutRdy, NeverTimesOut
      <3> QED
        BY <2>1, <3>1, <3>2 DEF Clk, W!Clk, W!Fsm, W!Idle, W!ReceiveByte, W!AbortReply,
           W!SendByte, W!FinishSend, NeverTimesOut
    <2>2. CASE DeviceWord \/ UNCHANGED vars
      <3>1. UNCHANGED wrapperVars
        BY <2>2 DEF DeviceWord, vars
      <3> QED
        BY <3>1 DEF wrapperVars, NeverTimesOut
    <2> QED
      BY <2>1, <2>2 DEF Next
  <1>3. BoardInv /\ TidyInv /\ NeverTimesOut => NothingLeftOver
    BY DEF BoardInv, W!ReplyInv, W!BulkSizedEarly, TidyInv, NothingLeftOver, IdleIsClean,
           CounterCountsArrivals
  <1> QED
    BY <1>1, <1>2, <1>3, BoardInvariant, PositionInvariant, ServedInvariant, TidyInvariant,
       PTL DEF Spec

-----------------------------------------------------------------------------
(* The DAQ words reach the PC in the order in which the device produced    *)
(* them.  The device numbers its words.                                    *)

\* Nobody can let the fill counter write to the fifo.
FillOff == "BULK_DATA_FILL" \notin Addr

\* Words that were produced one after the other, the last of them not after word n.
Increasing(s, n) ==
    /\ \A i \in 1..Len(s) : s[i] \in 1..n
    /\ \A i, j \in 1..Len(s) : i < j => s[i] < s[j]
Above(v, s) == \A i \in 1..Len(s) : s[i] < v
Below(v, s) == \A i \in 1..Len(s) : v < s[i]

LEMMA TailIncreasing ==
    ASSUME NEW S, NEW s \in Seq(S), s # <<>>, NEW n, Increasing(s, n)
    PROVE  /\ Increasing(Tail(s), n) /\ Below(Head(s), Tail(s)) /\ Head(s) \in 1..n
           /\ \A v : Below(v, s) => Below(v, Tail(s)) /\ v < Head(s)
  <1>1. /\ Len(s) \in Nat \ {0} /\ Len(Tail(s)) = Len(s) - 1 /\ Head(s) = s[1]
        /\ \A i \in 1..Len(Tail(s)) : Tail(s)[i] = s[i + 1]
    BY HeadTailProperties
  <1> QED
    BY <1>1 DEF Increasing, Below

LEMMA AppendIncreasing ==
    ASSUME NEW S, NEW s \in Seq(S), NEW w \in S, NEW n \in Nat, NEW m \in Nat, n <= m,
           w \in 1..m, Increasing(s, n), Above(w, s)
    PROVE  /\ Increasing(Append(s, w), m)
           /\ \A v : Below(v, s) /\ v < w => Below(v, Append(s, w))
  <1> DEFINE t == Append(s, w)
  <1>1. /\ Len(s) \in Nat /\ Len(t) = Len(s) + 1 /\ t[Len(s) + 1] = w
        /\ \A i \in 1..Len(s) : t[i] = s[i]
    BY AppendProperties
  <1>2. \A i \in 1..Len(t) : i \in 1..Len(s) \/ i = Len(s) + 1
    BY <1>1
  <1> HIDE DEF t
  <1>3. \A i \in 1..Len(t) : t[i] \in 1..m
    BY <1>1, <1>2 DEF Increasing
  <1>4. \A i, j \in 1..Len(t) : i < j => t[i] < t[j]
    BY <1>1, <1>2 DEF Increasing, Above
  <1>5. \A v : Below(v, s) /\ v < w => Below(v, t)
    BY <1>1, <1>2 DEF Below
  <1> QED
    BY <1>3, <1>4, <1>5 DEF Increasing, t

LEMMA ConcatIncreasing ==
    ASSUME NEW S, NEW s \in Seq(S), NEW t \in Seq(S), NEW n \in Nat, Increasing(s, n), Increasing(t, n),
           \A i \in 1..Len(t) : Above(t[i], s)
    PROVE  Increasing(s \o t, n)
  <1> DEFINE c == s \o t
  <1>1. /\ Len(s) \in Nat /\ Len(t) \in Nat /\ Len(c) = Len(s) + Len(t)
        /\ \A i \in 1..Len(s) : c[i] = s[i]
        /\ \A i \in 1..Len(c) : i \notin 1..Len(s) => i - Len(s) \in 1..Len(t) /\ c[i] = t[i - Len(s)]
    BY ConcatProperties
  <1> HIDE DEF c
  <1>2. \A i \in 1..Len(c) : c[i] \in 1..n
    BY <1>1 DEF Increasing
  <1>3. ASSUME NEW i \in 1..Len(c), NEW j \in 1..Len(c), i < j PROVE c[i] < c[j]
    <2>1. CASE j \in 1..Len(s)
      BY <1>1, <1>3, <2>1 DEF Increasing
    <2>2. CASE i \notin 1..Len(s)
      <3>1. /\ i - Len(s) \in 1..Len(t) /\ c[i] = t[i - Len(s)] /\ j \notin 1..Len(s)
            /\ i - Len(s) < j - Len(s)
        BY <1>1, <1>3, <2>2
      <3>2. j - Len(s) \in 1..Len(t) /\ c[j] = t[j - Len(s)]
        BY <1>1, <3>1
      <3> QED
        BY <3>1, <3>2 DEF Increasing
    <2>3. CASE i \in 1..Len(s) /\ j \notin 1..Len(s)
      BY <1>1, <1>3, <2>3 DEF Above
    <2> QED
      BY <1>1, <1>3, <2>1, <2>2, <2>3
  <1> QED
    BY <1>2, <1>3 DEF Increasing, c

\* The fifo holds the words that were produced last, and what was delivered is older.
FifoInOrder ==
    /\ r_dev0_fifo_fillType = 0
    /\ Increasing(dev0_fifo, produced)
    /\ delivered \in Seq(Nat) /\ Increasing(delivered, produced)
    /\ \A i \in 1..Len(delivered) : Below(delivered[i], dev0_fifo)

\* A word that has left the fifo and is not delivered yet.
Between(v) == v \in 1..produced /\ Above(v, delivered) /\ Below(v, dev0_fifo)

\* The first bytes of the words of a bulk reply that are on the wire.
OnWire == {i \in 5..Len(wire) : i % 4 = 1}

\* A bulk reply: the words on the wire are in order, and the next one is in the wheel with
\* its first byte, when it also leaves the fifo, and was copied to bulk_data_local before.
WordsInOrder ==
    state = "DATA_OUT" /\ what_to_do = "bulk" =>
        /\ \A i \in OnWire : Between(wire[i].val)
        /\ \A i, j \in OnWire : i < j => wire[i].val < wire[j].val
        /\ tx_count >= 4 /\ tx_count % 4 = 0 =>
             bulk_read_enable /\ dev0_fifo # <<>> /\ bulk_data_wheel.word = Head(dev0_fifo)
        /\ tx_count % 4 = 3 /\ tx_count < tx_count_target - 1 =>
             dev0_fifo # <<>> /\ bulk_data_local = Head(dev0_fifo)

\* A read: the access that returned a word of the fifo has taken it out.
ReadInOrder ==
    /\ dev0_fifo_single_read_d1 => register_access_delayed
    /\ state \in {"WAIT_RX_DONE", "WAIT_DATA_OUT_RDY", "DATA_OUT"} /\ what_to_do = "read" =>
         /\ ~register_write_or_read_int
         /\ access.addr = "BULK_DATA" /\ access.data # 0 => Between(access.data)

OrderInv == FifoInOrder /\ WordsInOrder /\ ReadInOrder

LEMMA InitOrder == Init => OrderInv
  BY DEF Init, W!Init, R!Init, OrderInv, FifoInOrder, WordsInOrder, ReadInOrder, Increasing

\* A cycle of the 125 MHz clock takes the first word out of the fifo or none.
LEMMA FifoMoves ==
    ASSUME FillOff, BoardInv, FifoInOrder, R!Clk
    PROVE  /\ r_dev0_fifo_fillType' = 0 /\ Increasing(dev0_fifo', produced)
           /\ \A v : Below(v, dev0_fifo) => Below(v, dev0_fifo')
           /\ ~R!dev0_fifo_rden => dev0_fifo' = dev0_fifo
           /\ R!dev0_fifo_rden => /\ dev0_fifo # <<>> /\ dev0_fifo' = Tail(dev0_fifo)
                                  /\ Head(dev0_fifo) \in 1..produced
                                  /\ Below(Head(dev0_fifo), dev0_fifo')
                                  /\ \A v : Below(v, dev0_fifo) => v < Head(dev0_fifo)
  <1>1. WireOfWrapper!REGISTER_ADDR \in Addr
    BY PacketAssumption DEF BoardInv, W!ReplyInv, W!TypeOK, WireOfWrapper!REGISTER_ADDR
  <1>2. r_dev0_fifo_fillType' = 0
    BY <1>1 DEF FillOff, FifoInOrder, R!Clk, R!WriteRegister
  <1>3. dev0_fifo \in Seq(Value)
    BY DEF BoardInv, RegistersOK
  <1>4. CASE R!dev0_fifo_rden
    <2>1. dev0_fifo # <<>> /\ dev0_fifo' = Tail(dev0_fifo)
      BY <1>4 DEF R!Clk, R!dev0_fifo_rden, R!dev0_fifo_empty
    <2> QED
      BY <1>2, <1>3, <1>4, <2>1, TailIncreasing DEF FifoInOrder
  <1>5. CASE ~R!dev0_fifo_rden
    BY <1>2, <1>5 DEF R!Clk, FifoInOrder
  <1> QED
    BY <1>4, <1>5

\* The word that leaves the fifo comes after what was delivered.
LEMMA HeadIsBetween ==
    ASSUME FillOff, BoardInv, FifoInOrder, R!Clk, R!dev0_fifo_rden,
           produced' = produced, delivered' = delivered
    PROVE  /\ Head(dev0_fifo) \in 1..produced' /\ Above(Head(dev0_fifo), delivered')
           /\ Below(Head(dev0_fifo), dev0_fifo')
  <1>1. /\ Head(dev0_fifo) \in 1..produced /\ Below(Head(dev0_fifo), dev0_fifo')
        /\ \A v : Below(v, dev0_fifo) => v < Head(dev0_fifo)
    BY FifoMoves
  <1>2. Above(Head(dev0_fifo), delivered)
    BY <1>1 DEF FifoInOrder, Above
  <1> QED
    BY <1>1, <1>2 DEF Between

\* What is between the two stays there.
LEMMA BetweenKept ==
    ASSUME FillOff, BoardInv, FifoInOrder, R!Clk, produced' = produced, delivered' = delivered,
           NEW v, Between(v)
    PROVE  v \in 1..produced' /\ Above(v, delivered') /\ Below(v, dev0_fifo')
  BY FifoMoves DEF Between

\* The access of a read request returns the first word of the fifo and takes it out, or
\* returns zero.
LEMMA WordRead ==
    ASSUME WireOfWrapper!REGISTER_ACCESS, ~WireOfWrapper!REGISTER_WRITE_OR_READ,
           WireOfWrapper!REGISTER_ADDR = "BULK_DATA", R!REG_VALID,
           dev0_fifo_single_read_d1 => register_access_delayed
    PROVE  R!dev0_fifo_rden /\ R!REG_DATA_OUT = Head(dev0_fifo)
  <1>1. \A d \in R!Device : R!ConfigOf[d] # "BULK_DATA" /\ R!StatusOf[d] # "BULK_DATA"
    BY DEF R!Device, R!ConfigOf, R!StatusOf
  <1>2. R!single_register_read /\ ~dev0_fifo_single_read_d1
    BY DEF R!single_register_read, WireOfWrapper!REGISTER_ACCESS
  <1>3. R!dev0_fifo_single_read
    BY <1>1 DEF R!REG_VALID
  <1>4. dev0_fifo # <<>>
    BY <1>3 DEF R!dev0_fifo_single_read, R!dev0_fifo_empty
  <1>5. R!REG_DATA_OUT = R!dev0_fifo_dout
    BY <1>1, <1>2 DEF R!REG_DATA_OUT
  <1> QED
    BY <1>2, <1>3, <1>4, <1>5 DEF R!dev0_fifo_rden, R!dev0_fifo_dout, R!dev0_fifo_empty

LEMMA ReadInOrderStep ==
    ASSUME FillOff, BoardInv, OrderInv, Clk, delivered' = delivered \/ state' = "FINISH_SEND"
    PROVE  ReadInOrder'
  <1>1. W!Clk /\ R!Clk /\ Record /\ produced' = produced
    BY DEF Clk
  <1>2. dev0_fifo_single_read_d1' => register_access_delayed'
    BY <1>1 DEF R!Clk, R!dev0_fifo_single_read, R!single_register_read, W!Clk, W!CaptureRegister,
                WireOfWrapper!REGISTER_ACCESS
  <1>3. SUFFICES ASSUME state' \in {"WAIT_RX_DONE", "WAIT_DATA_OUT_RDY", "DATA_OUT"},
                        what_to_do' = "read"
                 PROVE  /\ ~register_write_or_read_int'
                        /\ access'.addr = "BULK_DATA" /\ access'.data # 0 => Between(access.data)'
    BY <1>2 DEF ReadInOrder
  <1>4. CASE W!StartRequest
    <2>1. state = "IDLE" /\ pos >= 0 /\ rx.kind = "read"
      BY <1>3, <1>4 DEF W!StartRequest, rx
    <2>2. ~register_write_or_read_int' /\ access' = NoAccess
      BY <1>1, <1>4, <2>1 DEF W!StartRequest, Record, rx
    <2> QED
      BY <2>2 DEF NoAccess
  <1>5. CASE ~W!StartRequest
    <2>1. /\ state \in {"WAIT_RX_DONE", "WAIT_DATA_OUT_RDY", "DATA_OUT"} /\ what_to_do = "read"
          /\ register_write_or_read_int' = register_write_or_read_int
      <3>1. CASE W!Idle \/ W!AbortReply \/ W!FinishSend
        BY <1>3, <3>1 DEF W!Idle, W!AbortReply, W!FinishSend
      <3>2. CASE W!ReceiveByte
        BY <1>3, <3>2 DEF W!ReceiveByte
      <3>3. CASE W!WaitDataOutRdy
        BY <1>3, <3>3 DEF W!WaitDataOutRdy
      <3>4. CASE W!SendByte
        BY <1>3, <3>4 DEF W!SendByte, W!Sending, W!registerVars
      <3> QED
        BY <1>1, <1>5, <3>1, <3>2, <3>3, <3>4 DEF W!Clk, W!Fsm
    <2>2. ~register_write_or_read_int /\ delivered' = delivered
      BY <1>3, <2>1 DEF OrderInv, ReadInOrder
    <2> SUFFICES ASSUME access'.addr = "BULK_DATA", access'.data # 0 PROVE Between(access.data)'
      BY <2>1, <2>2
    <2>3. CASE ~WireOfWrapper!REGISTER_ACCESS
      <3>1. access' = access /\ Between(access.data)
        BY <1>1, <2>1, <2>3 DEF Record, OrderInv, ReadInOrder
      <3> QED
        BY <1>1, <2>2, <3>1, BetweenKept DEF Between, OrderInv
    <2>4. CASE WireOfWrapper!REGISTER_ACCESS
      <3>1. ~WireOfWrapper!REGISTER_WRITE_OR_READ
        BY <2>2 DEF WireOfWrapper!REGISTER_WRITE_OR_READ
      <3>2. access' = [made |-> TRUE, wr |-> WireOfWrapper!REGISTER_WRITE_OR_READ,
                       addr |-> WireOfWrapper!REGISTER_ADDR,
                       data |-> IF R!REG_VALID THEN R!REG_DATA_OUT ELSE 0]
        BY <1>1, <2>1, <2>4, <3>1 DEF Record
      <3>3. WireOfWrapper!REGISTER_ADDR = "BULK_DATA" /\ R!REG_VALID
        BY <3>2
      <3>4. R!dev0_fifo_rden /\ access'.data = Head(dev0_fifo)
        BY <2>4, <3>1, <3>2, <3>3, WordRead DEF OrderInv, ReadInOrder
      <3> QED
        BY <1>1, <2>2, <3>4, HeadIsBetween DEF Between, OrderInv
    <2> QED
      BY <2>3, <2>4
  <1> QED
    BY <1>4, <1>5

\* The words of a bulk reply are delivered with its last byte.
LEMMA BulkDelivered ==
    ASSUME FillOff, Unicast, BoardInv, StageInv, TransferInv, WireInv, OrderInv, Clk,
           state = "DATA_OUT", udp_tx_state = "SEND_USER_DATA", W!LastByte, what_to_do = "bulk"
    PROVE  /\ Words(wire') \in Seq(Nat) /\ Increasing(Words(wire'), produced)
           /\ \A i \in 1..Len(Words(wire')) : Between(Words(wire')[i])
  <1> DEFINE n == (tx_count_target \div 4) - 1
  <1>1. /\ tx_count \in Nat /\ tx_count_target \in Nat /\ tx_count_target % 4 = 0
        /\ tx_count = tx_count_target - 1 /\ tx_count_target >= 4
    BY Lengths, FifoNeverRunsDry DEF BoardInv, WholeWords
  <1>2. Len(wire) = tx_count /\ Len(wire') = tx_count_target /\ \A i \in 1..tx_count : wire'[i] = wire[i]
    BY <1>1, ByteSent DEF Clk
  <1>3. n \in Nat /\ tx_count_target = 4 * n + 4
    BY <1>1
  <1> HIDE DEF n
  <1>4. ASSUME NEW i \in 1..n
        PROVE  4 * i + 1 \in OnWire /\ wire'[4 * i + 1] = wire[4 * i + 1]
    <2>1. 4 * i + 1 \in 5..tx_count /\ (4 * i + 1) % 4 = 1
      BY <1>1, <1>3
    <2> QED
      BY <1>2, <2>1 DEF OnWire
  <1>5. Words(wire') = [i \in 1..n |-> wire'[4 * i + 1].val]
    BY <1>2 DEF Words, n
  <1>6. /\ \A i \in OnWire : Between(wire[i].val)
        /\ \A i, j \in OnWire : i < j => wire[i].val < wire[j].val
    BY DEF OrderInv, WordsInOrder
  <1>7. \A i \in 1..n : wire'[4 * i + 1].val \in 1..produced
    BY <1>4, <1>6 DEF Between
  <1>8. produced \in Nat
    BY DEF BoardInv, RegistersOK
  <1>9. Words(wire') \in Seq(Nat) /\ Len(Words(wire')) = n
    BY <1>3, <1>5, <1>7, <1>8
  <1>10. \A i \in 1..n : Words(wire')[i] = wire[4 * i + 1].val
    BY <1>4, <1>5
  <1>11. \A i, j \in 1..n : i < j => Words(wire')[i] < Words(wire')[j]
    <2> SUFFICES ASSUME NEW i \in 1..n, NEW j \in 1..n, i < j
                 PROVE  wire[4 * i + 1].val < wire[4 * j + 1].val
      BY <1>10
    <2>1. 4 * i + 1 < 4 * j + 1
      BY <1>3
    <2> QED
      BY <1>4, <1>6, <2>1
  <1>12. \A i \in 1..n : Between(Words(wire')[i])
    BY <1>4, <1>6, <1>10
  <1> QED
    BY <1>9, <1>11, <1>12 DEF Increasing, Between

LEMMA FifoInOrderStep ==
    ASSUME FillOff, Unicast, BoardInv, StageInv, TransferInv, WireInv, OrderInv, Clk
    PROVE  FifoInOrder' /\ (delivered' = delivered \/ state' = "FINISH_SEND")
  <1>1. /\ W!Clk /\ R!Clk /\ Record /\ produced' = produced /\ produced \in Nat
    BY DEF Clk, BoardInv, RegistersOK
  <1>2. /\ r_dev0_fifo_fillType' = 0 /\ Increasing(dev0_fifo', produced)
        /\ \A v : Below(v, dev0_fifo) => Below(v, dev0_fifo')
    BY <1>1, FifoMoves DEF OrderInv
  <1>3. /\ delivered \in Seq(Nat) /\ Increasing(delivered, produced)
        /\ \A i \in 1..Len(delivered) : Below(delivered[i], dev0_fifo')
    BY <1>2 DEF OrderInv, FifoInOrder
  <1>4. CASE delivered' = delivered
    BY <1>1, <1>2, <1>3, <1>4 DEF FifoInOrder
  <1>5. CASE delivered' # delivered
    <2>1. frame_done'
      BY <1>1, <1>5 DEF Record
    <2>2. state = "DATA_OUT" /\ udp_tx_state = "SEND_USER_DATA"
      BY <1>1, <2>1, BytesInDataOut DEF Record
    <2>3. W!LastByte /\ wire'[1].what = ReplyFlag(what_to_do)
      BY <1>1, <2>1, <2>2, ByteSent
    <2>4. state' = "FINISH_SEND"
      BY <1>1, <2>2, <2>3, LastByteAgreed, EngineSends
    <2>5. CASE what_to_do = "bulk"
      <3> DEFINE t == Words(wire')
      <3>1. /\ t \in Seq(Nat) /\ Increasing(t, produced)
            /\ \A i \in 1..Len(t) : Between(t[i])
        BY <2>2, <2>3, <2>5, BulkDelivered
      <3>2. delivered' = delivered \o t
        BY <1>1, <2>1, <2>3, <2>5 DEF Record, ReplyFlag
      <3> HIDE DEF t
      <3>3. \A i \in 1..Len(t) : Above(t[i], delivered) /\ Below(t[i], dev0_fifo')
        BY <1>2, <3>1 DEF Between
      <3>4. delivered' \in Seq(Nat) /\ Increasing(delivered', produced)
        BY <1>1, <1>3, <3>1, <3>2, <3>3, ConcatIncreasing, ConcatProperties
      <3>5. \A i \in 1..Len(delivered') : Below(delivered'[i], dev0_fifo')
        <4>1. \A i \in 1..Len(delivered') :
                \/ i \in 1..Len(delivered) /\ delivered'[i] = delivered[i]
                \/ i - Len(delivered) \in 1..Len(t) /\ delivered'[i] = t[i - Len(delivered)]
          BY <1>3, <3>1, <3>2, ConcatProperties
        <4> QED
          BY <1>3, <3>3, <4>1
      <3> QED
        BY <1>1, <1>2, <2>4, <3>4, <3>5 DEF FifoInOrder
    <2>6. CASE what_to_do # "bulk"
      <3>1. /\ what_to_do = "read" /\ access.addr = "BULK_DATA" /\ access.data # 0
            /\ delivered' = Append(delivered, access.data)
        BY <1>1, <1>5, <2>1, <2>3, <2>6 DEF Record, ReplyFlag
      <3>2. Between(access.data)
        BY <2>2, <3>1 DEF OrderInv, ReadInOrder
      <3>3. /\ access.data \in 1..produced /\ access.data \in Nat /\ Above(access.data, delivered)
            /\ Below(access.data, dev0_fifo')
        BY <1>1, <1>2, <3>2 DEF Between
      <3>4. delivered' \in Seq(Nat) /\ Increasing(delivered', produced)
        BY <1>1, <1>3, <3>1, <3>3, AppendIncreasing, AppendProperties
      <3>5. \A i \in 1..Len(delivered') : Below(delivered'[i], dev0_fifo')
        <4>1. \A i \in 1..Len(delivered') :
                (i \in 1..Len(delivered) /\ delivered'[i] = delivered[i]) \/ delivered'[i] = access.data
          BY <1>3, <3>1, <3>3, AppendProperties
        <4> QED
          BY <1>3, <3>3, <4>1
      <3> QED
        BY <1>1, <1>2, <2>4, <3>4, <3>5 DEF FifoInOrder
    <2> QED
      BY <2>5, <2>6
  <1> QED
    BY <1>4, <1>5

\* A byte of a bulk reply goes out that is not the last.
LEMMA WordSent ==
    ASSUME FillOff, Unicast, BoardInv, StageInv, TransferInv, WireInv, OrderInv, Clk,
           state = "DATA_OUT", udp_tx_state = "SEND_USER_DATA", ~W!LastByte, what_to_do = "bulk",
           delivered' = delivered
    PROVE  WordsInOrder'
  <1>1. /\ W!Clk /\ R!Clk /\ Record /\ produced' = produced /\ produced \in Nat
    BY DEF Clk, BoardInv, RegistersOK
  <1>2. /\ tx_count \in Nat /\ tx_count_target \in Nat /\ tx_count < tx_count_target - 1
        /\ tx_count_target % 4 = 0
    BY Lengths, FifoNeverRunsDry DEF BoardInv, WholeWords
  <1>3. /\ W!SendByte /\ tx_count' = tx_count + 1 /\ tx_count_target' = tx_count_target
    BY <1>1, LastByteAgreed, EngineSends
  <1>4. /\ Len(wire) = tx_count /\ Len(wire') = tx_count + 1
        /\ wire'[tx_count + 1] = W!DataByte /\ \A i \in 1..tx_count : wire'[i] = wire[i]
    BY <1>1, ByteSent
  <1>5. /\ \A i \in OnWire : Between(wire[i].val)
        /\ \A i, j \in OnWire : i < j => wire[i].val < wire[j].val
        /\ tx_count >= 4 /\ tx_count % 4 = 0 =>
             bulk_read_enable /\ dev0_fifo # <<>> /\ bulk_data_wheel.word = Head(dev0_fifo)
        /\ tx_count % 4 = 3 => dev0_fifo # <<>> /\ bulk_data_local = Head(dev0_fifo)
    BY <1>2 DEF OrderInv, WordsInOrder
  <1>6. register_access_int /\ bulk_mode_int /\ ~WireOfWrapper!REGISTER_ACCESS
        /\ (bulk_read_enable => tx_count >= 4 /\ tx_count % 4 = 0)
    BY DEF TransferInv, WireOfWrapper!REGISTER_ACCESS
  <1>7. R!dev0_fifo_rden <=> dev0_fifo # <<>> /\ bulk_read_enable
    BY <1>6 DEF R!dev0_fifo_rden, R!dev0_fifo_empty, R!dev0_fifo_single_read,
                R!single_register_read, WireOfWrapper!REGISTER_BLK_EN,
                WireOfWrapper!REGISTER_BLK_RDEN
  <1>8. W!GetNextBulkWord <=> tx_count % 4 = 3
    BY FetchInTime
  <1>9. \A i \in OnWire :
          /\ i \in 1..tx_count /\ wire'[i] = wire[i]
          /\ wire[i].val \in 1..produced' /\ Above(wire[i].val, delivered')
          /\ Below(wire[i].val, dev0_fifo')
    <2> SUFFICES ASSUME NEW i \in OnWire
                 PROVE  /\ i \in 1..tx_count /\ wire'[i] = wire[i]
                        /\ wire[i].val \in 1..produced' /\ Above(wire[i].val, delivered')
                        /\ Below(wire[i].val, dev0_fifo')
      OBVIOUS
    <2>1. i \in 1..tx_count /\ wire'[i] = wire[i]
      BY <1>2, <1>4 DEF OnWire
    <2>2. Between(wire[i].val)
      BY <1>5
    <2> QED
      BY <1>1, <2>1, <2>2, BetweenKept DEF OrderInv
  <1>10. CASE tx_count >= 4 /\ tx_count % 4 = 0
    <2>1. /\ R!dev0_fifo_rden /\ wire'[tx_count + 1].val = Head(dev0_fifo)
      BY <1>4, <1>5, <1>7, <1>10 DEF W!DataByte, W!OutByte
    <2>2. /\ Head(dev0_fifo) \in 1..produced' /\ Above(Head(dev0_fifo), delivered')
          /\ Below(Head(dev0_fifo), dev0_fifo')
      BY <1>1, <2>1, HeadIsBetween DEF OrderInv
    <2>3. \A i \in OnWire : wire[i].val < Head(dev0_fifo)
      BY <1>1, <1>5, <2>1, FifoMoves DEF OrderInv, Between
    <2>4. \A i \in OnWire' : i \in OnWire \/ i = tx_count + 1
      BY <1>2, <1>4 DEF OnWire
    <2>5. \A i \in OnWire' : Between(wire[i].val)'
      BY <1>9, <2>1, <2>2, <2>4 DEF Between
    <2>6. \A i, j \in OnWire' : i < j => wire'[i].val < wire'[j].val
      <3> SUFFICES ASSUME NEW i \in OnWire', NEW j \in OnWire', i < j
                   PROVE  wire'[i].val < wire'[j].val
        OBVIOUS
      <3>1. i \in OnWire
        <4>1. j \in 5..(tx_count + 1) /\ i \in 5..(tx_count + 1)
          BY <1>4 DEF OnWire
        <4> QED
          BY <1>2, <2>4, <4>1
      <3>2. CASE j \in OnWire
        BY <1>5, <1>9, <3>1, <3>2
      <3>3. CASE j = tx_count + 1
        BY <1>9, <2>1, <2>3, <3>1, <3>3
      <3> QED
        BY <2>4, <3>2, <3>3
    <2>7. tx_count' % 4 = 1
      BY <1>2, <1>3, <1>10, Quarters
    <2> QED
      BY <2>5, <2>6, <2>7 DEF WordsInOrder
  <1>11. CASE ~(tx_count >= 4 /\ tx_count % 4 = 0)
    <2>1. dev0_fifo' = dev0_fifo /\ ~bulk_read_enable
      BY <1>1, <1>6, <1>7, <1>11 DEF R!Clk
    <2>2. \A i \in OnWire' : i \in OnWire
      <3> SUFFICES ASSUME NEW i \in OnWire' PROVE i \in OnWire
        OBVIOUS
      <3>1. i \in 5..(tx_count + 1) /\ i % 4 = 1
        BY <1>4 DEF OnWire
      <3>2. i # tx_count + 1
        BY <1>2, <1>11, <3>1, Quarters
      <3> QED
        BY <1>2, <1>4, <3>1, <3>2 DEF OnWire
    <2>3. \A i \in OnWire' : Between(wire[i].val)'
      BY <1>9, <2>2 DEF Between
    <2>4. \A i, j \in OnWire' : i < j => wire'[i].val < wire'[j].val
      BY <1>5, <1>9, <2>2
    <2>5. tx_count' >= 4 /\ tx_count' % 4 = 0 =>
            bulk_read_enable' /\ dev0_fifo' # <<>> /\ bulk_data_wheel'.word = Head(dev0_fifo')
      <3> SUFFICES ASSUME tx_count' % 4 = 0
                   PROVE  bulk_read_enable' /\ dev0_fifo' # <<>>
                          /\ bulk_data_wheel'.word = Head(dev0_fifo')
        OBVIOUS
      <3>1. tx_count % 4 = 3
        BY <1>2, <1>3, Quarters
      <3>2. bulk_read_enable' /\ bulk_data_wheel' = [word |-> bulk_data_local, turn |-> 0]
        BY <1>1, <1>8, <3>1 DEF W!Clk, W!CaptureBulkWord
      <3> QED
        BY <1>5, <2>1, <3>1, <3>2
    <2>6. tx_count' % 4 = 3 /\ tx_count' < tx_count_target' - 1 =>
            dev0_fifo' # <<>> /\ bulk_data_local' = Head(dev0_fifo')
      <3> SUFFICES ASSUME tx_count' % 4 = 3, tx_count' < tx_count_target' - 1
                   PROVE  dev0_fifo' # <<>> /\ bulk_data_local' = Head(dev0_fifo')
        OBVIOUS
      <3>1. tx_count % 4 = 2 /\ tx_count + 2 < tx_count_target
        BY <1>2, <1>3, Quarters
      <3>2. tx_count_target <= 4 * (Len(dev0_fifo) + (tx_count \div 4) - 0) + 4
        BY <2>1 DEF TransferInv, Leaving
      <3>3. Len(dev0_fifo) # 0
        <4> SUFFICES ASSUME Len(dev0_fifo) = 0 PROVE FALSE
          OBVIOUS
        <4>1. tx_count_target <= 4 * (tx_count \div 4) + 4
          BY <1>2, <3>2, Quarters
        <4> QED
          BY <1>2, <3>1, <4>1, Quarters
      <3>4. dev0_fifo # <<>>
        BY <3>3
      <3>5. bulk_data_local' = R!REG_BLK_DOUT
        BY <1>1 DEF W!Clk, W!CaptureBulkWord
      <3> QED
        BY <1>6, <2>1, <3>4, <3>5 DEF R!REG_BLK_DOUT, R!dev0_fifo_dout, R!dev0_fifo_empty,
                                      WireOfWrapper!REGISTER_BLK_EN
    <2> QED
      BY <2>3, <2>4, <2>5, <2>6 DEF WordsInOrder
  <1> QED
    BY <1>10, <1>11

\* As long as nothing has been sent there is nothing to say about the words.
LEMMA NothingSentYet ==
    ASSUME wire = <<>>, tx_count = 0 PROVE WordsInOrder
  BY DEF WordsInOrder, OnWire

LEMMA WordsInOrderStep ==
    ASSUME FillOff, Unicast, BoardInv, StageInv, TransferInv, WireInv, OrderInv, Clk, WireInv',
           delivered' = delivered \/ state' = "FINISH_SEND"
    PROVE  WordsInOrder'
  <1>1. W!Clk
    BY DEF Clk
  <1>2. SUFFICES ASSUME state' = "DATA_OUT", what_to_do' = "bulk" PROVE WordsInOrder'
    BY DEF WordsInOrder
  <1>3. delivered' = delivered /\ Len(wire') = tx_count'
    BY <1>2 DEF WireInv
  <1>4. CASE state = "DATA_OUT" /\ udp_tx_state = "SEND_USER_DATA"
    <2>1. ~W!LastByte /\ W!SendByte
      BY <1>1, <1>2, <1>4, LastByteAgreed, EngineSends
    <2> QED
      BY <1>2, <1>3, <1>4, <2>1, WordSent DEF W!SendByte
  <1>5. CASE ~(state = "DATA_OUT" /\ udp_tx_state = "SEND_USER_DATA")
    <2>1. tx_count' = 0
      <3>1. CASE state # "DATA_OUT"
        BY <1>1, <1>2, <3>1, EngineElsewhere DEF BoardInv
      <3>2. CASE state = "DATA_OUT" /\ WireOfUdp!udp_tx_result # "ERR"
        <4>1. tx_count = 0
          BY <1>5, <3>2 DEF StageInv, Rest, Starting, Resolving, SendingFrame, Failing,
                            WireOfUdp!udp_tx_result
        <4> QED
          BY <1>1, <1>5, <3>2, <4>1, EngineSends
      <3>3. CASE state = "DATA_OUT" /\ WireOfUdp!udp_tx_result = "ERR"
        BY <1>1, <1>2, <3>3 DEF W!Clk, W!Fsm, W!Idle, W!StartRequest, W!ReceiveByte,
           W!WaitDataOutRdy, W!AbortReply, W!SendByte, W!Sending, W!FinishSend
      <3> QED
        BY <3>1, <3>2, <3>3
    <2>2. OnWire' = {} /\ ~(0 >= 4) /\ 0 % 4 = 0
      BY <1>3, <2>1 DEF OnWire
    <2> QED
      BY <2>1, <2>2 DEF WordsInOrder
  <1> QED
    BY <1>4, <1>5

\* A word that the device produces is put behind all others.
LEMMA WordProduced ==
    ASSUME FillOff, BoardInv, WireInv, OrderInv, DeviceWord PROVE OrderInv'
  <1>1. /\ produced \in Nat /\ produced' = produced + 1 /\ produced + 1 \in Value
        /\ dev0_fifo \in Seq(Value) /\ UNCHANGED <<wrapperVars, txVars, history>>
    <2>1. dev0_fifo \in Seq(Value) /\ produced \in 0..MaxWords /\ produced < MaxWords
      BY DEF BoardInv, RegistersOK, DeviceWord
    <2>2. produced \in Nat /\ produced + 1 \in Value
      BY <2>1, SmallValues, BoardAssumption
    <2> QED
      BY <2>1, <2>2 DEF DeviceWord
  <1>2. /\ dev0_fifo' = Append(dev0_fifo, produced + 1)
        /\ r_dev0_fifo_fillType' = 0 /\ dev0_fifo_single_read_d1' = dev0_fifo_single_read_d1
    BY DEF OrderInv, FifoInOrder, DeviceWord, R!FifoClk, R!registers
  <1>3. Increasing(dev0_fifo, produced) /\ Increasing(delivered, produced)
    BY DEF OrderInv, FifoInOrder
  <1>4. Above(produced + 1, dev0_fifo) /\ produced + 1 \in 1..(produced + 1)
    BY <1>1, <1>3 DEF Above, Increasing
  <1>5. /\ Increasing(dev0_fifo', produced')
        /\ \A v : Below(v, dev0_fifo) /\ v < produced + 1 => Below(v, dev0_fifo')
    <2>1. produced + 1 \in Nat /\ produced <= produced + 1
      BY <1>1
    <2> QED
      BY <1>1, <1>2, <1>3, <1>4, <2>1, AppendIncreasing
  <1>6. \A v : Between(v) => Between(v)'
    <2> SUFFICES ASSUME NEW v, Between(v)
                 PROVE  v \in 1..produced' /\ Above(v, delivered') /\ Below(v, dev0_fifo')
      BY DEF Between
    <2>1. v \in 1..produced /\ Above(v, delivered) /\ Below(v, dev0_fifo)
      BY DEF Between
    <2> QED
      BY <1>1, <1>5, <2>1 DEF history
  <1>7. FifoInOrder'
    <2>1. delivered' = delivered
      BY <1>1 DEF history
    <2>2. Increasing(delivered', produced')
      BY <1>1, <1>3, <2>1 DEF Increasing
    <2>3. \A i \in 1..Len(delivered) : delivered[i] < produced + 1 /\ Below(delivered[i], dev0_fifo)
      BY <1>1, <1>3 DEF OrderInv, FifoInOrder, Increasing
    <2> QED
      BY <1>2, <1>5, <2>1, <2>2, <2>3 DEF OrderInv, FifoInOrder
  <1>8. dev0_fifo # <<>> => dev0_fifo' # <<>> /\ Head(dev0_fifo') = Head(dev0_fifo)
    BY <1>1, <1>2
  <1>9. ReadInOrder'
    BY <1>1, <1>2, <1>6 DEF OrderInv, ReadInOrder, wrapperVars, history
  <1>10. WordsInOrder'
    BY <1>1, <1>6, <1>8 DEF OrderInv, WordsInOrder, OnWire, wrapperVars, history
  <1> QED
    BY <1>7, <1>9, <1>10 DEF OrderInv

LEMMA OrderStep ==
    FillOff /\ Unicast /\ BoardInv /\ StageInv /\ TransferInv /\ WireInv /\ OrderInv
        /\ WireInv' /\ [Next]_vars => OrderInv'
  <1> SUFFICES ASSUME FillOff, Unicast, BoardInv, StageInv, TransferInv, WireInv, OrderInv,
                      WireInv', [Next]_vars
               PROVE  OrderInv'
    OBVIOUS
  <1>1. CASE Clk
    <2>1. FifoInOrder' /\ (delivered' = delivered \/ state' = "FINISH_SEND")
      BY <1>1, FifoInOrderStep
    <2> QED
      BY <1>1, <2>1, ReadInOrderStep, WordsInOrderStep DEF OrderInv
  <1>2. CASE DeviceWord
    BY <1>2, WordProduced
  <1>3. CASE UNCHANGED vars
    <2>1. UNCHANGED <<wrapperVars, R!vars, history, produced>>
      BY <1>3 DEF vars
    <2> QED
      BY <2>1 DEF wrapperVars, R!vars, R!registers, history, OrderInv, FifoInOrder, WordsInOrder,
         ReadInOrder, OnWire, Between
  <1> QED
    BY <1>1, <1>2, <1>3 DEF Next

\* The words on their way from the fifo to the PC are in order, in every reachable state.
THEOREM OrderInvariant == ASSUME ~MacStalls, Unicast, FillOff PROVE Spec => []OrderInv
  <1>1. BoardInv /\ StageInv /\ TransferInv /\ WireInv /\ OrderInv /\ WireInv' /\ [Next]_vars
           => OrderInv'
    BY OrderStep
  <1> QED
    BY <1>1, InitOrder, BoardInvariant, StageInvariant, TransferInvariant, WireInvariant,
       PTL DEF Spec

\* The DAQ words reach the frames in the order in which the device produced them, and
\* none of them twice: whatever reads of the data register and bulk requests come, also in
\* the middle of one another, and whichever replies are given up (register_control.vhd
\* takes words out for both, ethernet_core_wrapper.vhd copies them through two registers).
THEOREM WordsAreDeliveredInOrder ==
    ASSUME ~MacStalls, Unicast, FillOff PROVE Spec => []DeliveredInOrder
  <1>1. OrderInv => DeliveredInOrder
    <2> SUFFICES ASSUME OrderInv PROVE DeliveredInOrder
      OBVIOUS
    <2>1. DOMAIN delivered = 1..Len(delivered)
      BY DEF OrderInv, FifoInOrder
    <2> QED
      BY <2>1 DEF OrderInv, FifoInOrder, Increasing, DeliveredInOrder
  <1> QED
    BY <1>1, OrderInvariant, PTL
=============================================================================
