------------------------------ MODULE JdrsBoard ------------------------------
(***************************************************************************)
(* The board that answers the readout PC: reply engine, register control,  *)
(* UDP and IP transmitter and address resolution wired together as in      *)
(* topl.vhd and UDP_Complete, clocked by the same 125 MHz clock, and the   *)
(* DAQ fifo filled on a clock of its own.  The environment delivers        *)
(* datagrams byte by byte, is the ARP store and the network that knows     *)
(* the PC, grants the MAC and takes bytes.                                 *)
(***************************************************************************)
EXTENDS JdrsProtocol, Sequences

CONSTANTS
    Packets,            \* datagrams the environment sends:
                        \*   [kind, addr, data, len, alias, src, broadcast]
    Addr, ZeroAddr, Value, Port,
    timeout_for_waiting, RxCountMod, PkgCtrMod, BlkCtrMod,
    FifoDepth, CountLag, UDP_HDR_BYTES, ETH_HDR_BYTES, IP_HDR_BYTES,
    Overlap,            \* may a datagram arrive while another one is served?
    ArpFails,           \* may the PC leave an ARP question unanswered?
    ARP_MAX_PKT_TMO,
    MacStalls,          \* may the MAC refuse a byte?
    MaxWords            \* bound: words the device produces

ASSUME BoardAssumption ==
    /\ UDP_HDR_BYTES \in Nat \ {0}
    /\ ETH_HDR_BYTES \in Nat \ {0} /\ IP_HDR_BYTES \in Nat \ {0}
    /\ Overlap \in BOOLEAN /\ ArpFails \in BOOLEAN /\ MacStalls \in BOOLEAN
    /\ MaxWords \in Nat /\ ARP_MAX_PKT_TMO \in Nat /\ CountLag \in Nat
    /\ FifoDepth \in Nat \ {0}
    /\ timeout_for_waiting \in Nat /\ timeout_for_waiting > 2
    /\ RxCountMod \in Nat /\ RxCountMod > 11
    /\ PkgCtrMod \in Nat \ {0} /\ BlkCtrMod \in Nat \ {0}
    \* requests come from hosts, whose address is neither zero nor the broadcast address
    /\ {"none", "all"} \cap Port = {}

\* Values are the unsigned numbers of a width that holds the initial contents of the
\* registers, the fill of the fifo and the words of the device.
ASSUME ValueAssumption ==
    /\ Value \subseteq Nat /\ \A v \in Value : 0..v \subseteq Value
    /\ {5, FifoDepth, MaxWords} \subseteq Value

ASSUME PacketAssumption ==
    /\ ZeroAddr \in Addr
    /\ \A p \in Packets :
         /\ p \in [kind : WhatToDo, addr : Addr, data : Value, len : Nat, alias : WhatToDo,
                   src : Port, broadcast : BOOLEAN]
         /\ p.len > 0

VARIABLES
    state, rx_count, tx_count, tx_blk_byte_count, timeout_for_waiting_count,
    rx_pkg_ctr_int, tx_blk_ctr_int, tx_count_target, tx_hdr, tx_start_reg, what_to_do,
    register_access_int, register_write_or_read_int, register_addr_int,
    register_write_data_int, bulk_mode_int, bulk_read_cnt_req, bulk_read_target_set,
    bulk_read_enable, bulk_data_local, bulk_data_wheel,
    register_access_delayed, register_read_ready_delayed, register_read_data_int, out_latch
VARIABLES
    r_led_config, r_led_knight_rider, r_spill_active, r_dev0_fifo_fillType,
    r_dev_config, r_dev_cfg_wr, r_dev_st_rd, mmcm_reg,
    dev0_fifo, dev0_fifo_fill_ctr, dev0_fifo_single_read_d1,
    single_register_read_delayed, single_register_write_delayed
VARIABLES udp_tx_state, udp_tx_count, udp_result_reg, ip_tx_start_reg
VARIABLES ip_tx_state, ip_tx_count, ip_result_reg, tx_mac_chn_reqd, mac_lookup_req,
          arp_req_ip_reg, tx_mac, mac_data_out_ready_reg
VARIABLES req_state, req_ip_addr, arp_entry_cache, cache_valid, nwk_rx_cntr, timeout_reg
VARIABLES               \* the environment
    pkt, pos,           \* the last datagram, and which of its bytes is on the wire (-1: none)
    store_status, timer_over, nwk_received, granted, mac_ready
VARIABLES               \* history, for the properties only
    serving,            \* the datagram the reply engine started on, and with which byte
    access,             \* the register access made for it, with the value read
    pops,               \* DAQ words its bulk transfer took out of the fifo
    arrived,            \* datagrams that came in since the last reset of the counter
    wire, frame_done,   \* user data of the frame being sent, and whether it is complete
    produced,           \* DAQ words written to the fifo so far
    delivered           \* DAQ words in the bulk replies sent so far

wrapperVars == <<state, rx_count, tx_count, tx_blk_byte_count, timeout_for_waiting_count,
    rx_pkg_ctr_int, tx_blk_ctr_int, tx_count_target, tx_hdr, tx_start_reg, what_to_do,
    register_access_int, register_write_or_read_int, register_addr_int,
    register_write_data_int, bulk_mode_int, bulk_read_cnt_req, bulk_read_target_set,
    bulk_read_enable, bulk_data_local, bulk_data_wheel,
    register_access_delayed, register_read_ready_delayed, register_read_data_int, out_latch>>
txVars == <<udp_tx_state, udp_tx_count, udp_result_reg, ip_tx_start_reg,
    ip_tx_state, ip_tx_count, ip_result_reg, tx_mac_chn_reqd, mac_lookup_req,
    arp_req_ip_reg, tx_mac, mac_data_out_ready_reg,
    req_state, req_ip_addr, arp_entry_cache, cache_valid, nwk_rx_cntr, timeout_reg>>
envVars == <<pkt, pos, store_status, timer_over, nwk_received, granted, mac_ready>>
history == <<serving, access, pops, arrived, wire, frame_done, delivered>>

-----------------------------------------------------------------------------
(* The wiring. *)

\* What a byte looks like as an identifier: bytes 1 to 5 are zero, a byte of
\* the address or of the data may be anything.
rx == [start |-> pos >= 0, valid |-> pos >= 0, last |-> pos = pkt.len - 1,
       kind |-> IF pos = 0 THEN pkt.kind ELSE IF pos < 6 THEN "nothing" ELSE pkt.alias,
       addr |-> pkt.addr, data |-> pkt.data, src |-> pkt.src, broadcast |-> pkt.broadcast]

\* Outputs that follow from a component's own registers do not look at its
\* inputs: WireOf... are instances used for those outputs only.
WireOfWrapper == INSTANCE UdpWrapper WITH
    udp_tx_result <- "NONE", udp_tx_data_out_ready <- FALSE,
    reg <- [ready |-> FALSE, data |-> 0],
    blk <- [valid |-> FALSE, empty |-> TRUE, count |-> 0, data |-> 0]
WireOfUdp == INSTANCE UdpTx WITH
    MaxPayload <- UDP_PAYLOAD_BYTES, tx_count <- udp_tx_count,
    tx_result_reg <- udp_result_reg, udp_tx_start <- tx_start_reg,
    udp_txi <- [data_length |-> 0, valid |-> FALSE, last |-> FALSE],
    ip_tx_result <- ip_result_reg, ip_tx_data_out_ready <- FALSE
Q == INSTANCE ArpReq WITH
    Host <- Port, ZeroHost <- "none",
    lookup_req <- mac_lookup_req, lookup_ip <- arp_req_ip_reg
arp == [got_mac |-> Q!got_mac, got_err |-> Q!got_err, mac |-> Q!mac]
WireOfIp == INSTANCE IPv4Tx WITH
    ZeroHost <- "none", BroadcastHost <- "all",
    MaxIpPayload <- UDP_PAYLOAD_BYTES + UDP_HDR_BYTES,
    tx_state <- ip_tx_state, tx_count <- ip_tx_count, tx_result_reg <- ip_result_reg,
    ip_tx_start <- ip_tx_start_reg,
    ip_tx <- [dst_ip_addr |-> tx_hdr.dst, data_length |-> 0, valid |-> FALSE, last |-> FALSE],
    arp_req_rslt <- arp, mac_tx_granted <- granted, mac_data_out_ready <- mac_ready

R == INSTANCE RegisterControl WITH
    REG_EN <- WireOfWrapper!REGISTER_ACCESS, REG_WR <- WireOfWrapper!REGISTER_WRITE_OR_READ,
    REG_ADDR <- WireOfWrapper!REGISTER_ADDR, REG_DATA <- WireOfWrapper!REGISTER_WRITE_DATA,
    REG_BLK_EN <- WireOfWrapper!REGISTER_BLK_EN,
    REG_BLK_RDEN <- WireOfWrapper!REGISTER_BLK_RDEN,
    SPILL_ACTIVE <- FALSE, REG_DEV_STATUS <- [d \in {"DEV0", "DEV1"} |-> 1]
W == INSTANCE UdpWrapper WITH
    udp_tx_result <- WireOfUdp!udp_tx_result,
    udp_tx_data_out_ready <- WireOfUdp!udp_tx_data_out_ready,
    reg <- [ready |-> R!REG_VALID, data |-> R!REG_DATA_OUT],
    blk <- [valid |-> R!REG_BLK_VALID, empty |-> R!REG_BLK_EMPTY,
            count |-> R!REG_BLK_COUNT, data |-> R!REG_BLK_DOUT]
U == INSTANCE UdpTx WITH
    MaxPayload <- UDP_PAYLOAD_BYTES, tx_count <- udp_tx_count,
    tx_result_reg <- udp_result_reg, udp_tx_start <- tx_start_reg,
    udp_txi <- [data_length |-> tx_hdr.data_length, valid |-> W!data_out_valid,
                last |-> W!data_out_last],
    ip_tx_result <- ip_result_reg, ip_tx_data_out_ready <- WireOfIp!ip_tx_data_out_ready
I == INSTANCE IPv4Tx WITH
    ZeroHost <- "none", BroadcastHost <- "all", MaxIpPayload <- UDP_PAYLOAD_BYTES + UDP_HDR_BYTES,
    tx_state <- ip_tx_state, tx_count <- ip_tx_count, tx_result_reg <- ip_result_reg,
    ip_tx_start <- ip_tx_start_reg,
    ip_tx <- [dst_ip_addr |-> tx_hdr.dst, data_length |-> U!total_length,
              valid |-> U!ip_tx_data_out_valid, last |-> U!ip_tx_data_out_last],
    arp_req_rslt <- arp, mac_tx_granted <- granted, mac_data_out_ready <- mac_ready

-----------------------------------------------------------------------------
(* The environment. *)

\* Bytes of a datagram come one per cycle; the next datagram comes any time later.
Deliver ==
    IF pos >= 0
    THEN pos' = (IF pos = pkt.len - 1 THEN -1 ELSE pos + 1) /\ UNCHANGED pkt
    ELSE \/ UNCHANGED <<pkt, pos>>
         \/ /\ Overlap \/ (state = "IDLE" /\ udp_tx_state = "IDLE")
            /\ pkt' \in Packets /\ pos' = 0

\* The store knows the PC or not, the PC answers or stays silent until the timer is over.
Lookup ==
    /\ store_status' \in IF req_state' = "LOOKUP" THEN {"BUSY", "FOUND", "NOT_FOUND"}
                          ELSE {"BUSY"}
    /\ timer_over' \in IF ArpFails /\ req_state' = "WAIT_REPLY" THEN BOOLEAN ELSE {FALSE}
    /\ nwk_received' \in [got : IF req_state' = "WAIT_REPLY" THEN BOOLEAN ELSE {FALSE},
                           entry : {req_ip_addr'}]
\* The arbitrator may have granted the MAC before it is asked.
Grant == granted' \in IF ip_tx_state' \in {"WAIT_MAC", "WAIT_CHN"} THEN BOOLEAN ELSE {FALSE}
Mac == mac_ready' \in IF MacStalls /\ ip_tx_state' \in {"SEND_IP_HDR", "SEND_USER_DATA"}
                      THEN BOOLEAN ELSE {TRUE}

-----------------------------------------------------------------------------
(* History. *)

NoAccess == [made |-> FALSE, wr |-> FALSE, addr |-> ZeroAddr, data |-> 0]
Serving(p, b) == [kind |-> p.kind, addr |-> p.addr, data |-> p.data, len |-> p.len,
                  byte |-> b, clean |-> ~register_access_int /\ ~bulk_mode_int]

UserByteOnWire == I!TakeByte /\ udp_tx_state = "SEND_USER_DATA"

\* The DAQ words in the user data of a bulk reply, one in four bytes.
Words(bytes) == [i \in 1..(Len(bytes) \div 4 - 1) |-> bytes[4 * i + 1].val]

Record ==
    /\ serving' = IF state = "IDLE" /\ pos >= 0 THEN Serving(pkt, pos) ELSE serving
    /\ access' =
         IF state = "IDLE" /\ pos >= 0 THEN NoAccess
         ELSE IF WireOfWrapper!REGISTER_ACCESS
         THEN [made |-> TRUE, wr |-> WireOfWrapper!REGISTER_WRITE_OR_READ,
               addr |-> WireOfWrapper!REGISTER_ADDR,
               data |-> IF WireOfWrapper!REGISTER_WRITE_OR_READ
                        THEN WireOfWrapper!REGISTER_WRITE_DATA
                        ELSE IF R!REG_VALID THEN R!REG_DATA_OUT ELSE 0]
         ELSE access
    /\ pops' = IF state = "IDLE" /\ pos >= 0 THEN 0
               ELSE IF WireOfWrapper!REGISTER_BLK_EN /\ R!dev0_fifo_rden THEN pops + 1 ELSE pops
    /\ arrived' = IF state = "DATA_OUT" /\ what_to_do = "cntreset" THEN 0
                  ELSE IF pos = 0 THEN (arrived + 1) % PkgCtrMod ELSE arrived
    /\ wire' = IF state = "IDLE" THEN <<>>
               ELSE IF UserByteOnWire THEN Append(wire, W!data_out) ELSE wire
    /\ frame_done' = (UserByteOnWire /\ I!EndOfPacket)
    /\ delivered' =
         IF ~frame_done' THEN delivered
         ELSE IF wire'[1].what = "bulk" THEN delivered \o Words(wire')
         ELSE IF wire'[1].what = "read" /\ access.addr = "BULK_DATA" /\ access.data # 0
         THEN Append(delivered, access.data)
         ELSE delivered

-----------------------------------------------------------------------------
Init ==
    /\ pkt \in Packets /\ pos = -1
    /\ store_status = "BUSY" /\ timer_over = FALSE
    /\ nwk_received = [got |-> FALSE, entry |-> "none"]
    /\ granted = FALSE /\ mac_ready = TRUE
    /\ W!Init /\ R!Init /\ U!Init /\ I!Init /\ Q!Init
    /\ serving = Serving(pkt, 0) /\ access = NoAccess
    /\ pops = 0 /\ arrived = 0
    /\ wire = <<>> /\ frame_done = FALSE
    /\ produced = 0 /\ delivered = <<>>

\* A rising edge of the 125 MHz clock: every component steps at once.
Clk ==
    /\ W!Clk /\ R!Clk /\ U!Clk /\ I!Clk /\ Q!Clk
    /\ Deliver /\ Lookup /\ Grant /\ Mac
    /\ Record /\ UNCHANGED produced

\* A rising edge of the fifo's write clock at which the device has a word.
DeviceWord ==
    /\ produced < MaxWords /\ ~R!dev0_fifo_full
    /\ R!FifoClk(TRUE, produced + 1)
    /\ produced' = produced + 1
    /\ UNCHANGED <<wrapperVars, txVars, envVars, history>>

Next == Clk \/ DeviceWord
vars == <<wrapperVars, R!vars, txVars, envVars, history, produced>>
Spec == Init /\ [][Next]_vars

-----------------------------------------------------------------------------
(* Properties. *)

Quiet == state = "IDLE" /\ udp_tx_state = "IDLE"

\* Every register of the board has its width, and the components around the
\* reply engine keep what it relies on.
TypeOK ==
    /\ W!TypeOK /\ W!InputOK
    /\ udp_tx_state \in U!State /\ udp_result_reg \in U!Result
    /\ udp_tx_count \in 0..(UDP_PAYLOAD_BYTES + UDP_HDR_BYTES) /\ ip_tx_start_reg \in BOOLEAN
    /\ ip_tx_state \in I!State /\ ip_result_reg \in I!Result
    /\ ip_tx_count \in 0..(UDP_PAYLOAD_BYTES + UDP_HDR_BYTES + ETH_HDR_BYTES + IP_HDR_BYTES)
    /\ tx_mac_chn_reqd \in BOOLEAN /\ mac_lookup_req \in BOOLEAN /\ req_state \in Q!State
    /\ r_led_config \in 0..31 /\ r_dev0_fifo_fillType \in 0..7
    /\ dev0_fifo \in Seq(Nat) /\ Len(dev0_fifo) <= FifoDepth

\* The length announced in the UDP header is the number of bytes the reply has.
HeaderAnnouncesReply == W!HeaderAnnouncesReply

\* A finished frame carries exactly the announced bytes, and the four bytes of
\* every word in their order: the three counters of reply engine, UDP and IP
\* transmitter have run in step through the whole frame.
ReplyIntact ==
    frame_done =>
        /\ Len(wire) = tx_hdr.data_length
        /\ \A i \in 5..Len(wire) :
             wire[i].what = "word" => /\ wire[i].idx = (i - 1) % 4
                                      /\ wire[i].val = wire[i - wire[i].idx].val

\* The frame answers the request that was received, with its identifier, or with
\* the timeout if that was a bulk request.
ReplyMatchesRequest ==
    frame_done =>
        \/ wire[1].what = ReplyFlag(serving.kind)
        \/ wire[1].what = "timeout" /\ serving.kind = "bulk"

\* A confirmed write has been carried out with the address and the value of the
\* request, if the request was complete.
ConfirmedWriteExecuted ==
    frame_done /\ serving.kind = "write" /\ serving.len >= 12 =>
        access = [made |-> TRUE, wr |-> TRUE, addr |-> serving.addr, data |-> serving.data]

\* The same for a reply engine that had nothing left over from an aborted reply
\* when the request came in.
CleanWriteExecuted == serving.clean => ConfirmedWriteExecuted

\* The word in a read reply is what the addressed register held when it was
\* accessed for this very request; a request cut off within its address reads x"0000".
ReadReplyIsFresh ==
    frame_done /\ serving.kind = "read" =>
        /\ access.made /\ ~access.wr
        /\ access.addr = IF serving.len >= 8 THEN serving.addr ELSE ZeroAddr
        /\ wire[5].val = access.data
CleanReadIsFresh == serving.clean => ReadReplyIsFresh

\* What a finished frame tells the PC is true: it answers the datagram that came in,
\* a confirmed write has reached the register, a read word is the register's own.
ReplyIsTrue == ReplyMatchesRequest /\ ConfirmedWriteExecuted /\ ReadReplyIsFresh

\* The same while replies may be given up because the PC's address is not found: every
\* frame answers its datagram, and is true if the engine began it with nothing left over
\* from a reply that was given up.
CleanReplyIsTrue == ReplyMatchesRequest /\ CleanWriteExecuted /\ CleanReadIsFresh

\* The DAQ words reach the frames in the order the device produced them, none twice.
DeliveredInOrder ==
    /\ \A i \in DOMAIN delivered : delivered[i] \in 1..produced
    /\ \A i, j \in DOMAIN delivered : i < j => delivered[i] < delivered[j]

\* A bulk reply takes as many words out of the fifo as it announced.
AnnouncedWords == tx_count_target \div REG_BULK_LEN_BYTES - 1
BulkTakesWhatItSends ==
    state = "IDLE" /\ serving.kind = "bulk" /\ udp_result_reg = "SENT" /\ serving.byte = 0 =>
        pops = AnnouncedWords
\* The same for replies that carry a word at all.
NonEmptyBulkTakesWhatItSends ==
    AnnouncedWords > 0 => BulkTakesWhatItSends

\* An idle reply engine has given back the register and the bulk access.
IdleIsClean ==
    state = "IDLE" => ~register_access_int /\ ~bulk_mode_int /\ ~bulk_read_target_set

\* The wait for the DAQ fifo never runs into its timeout.
NeverTimesOut == what_to_do # "timeout"

\* The package counter counts the datagrams that came in.
CounterCountsArrivals ==
    Quiet /\ pos < 0 => rx_pkg_ctr_int = arrived

\* Nothing of a request outlives its reply: the accesses are given back, the wait for
\* the fifo has ended before its timeout, and the counter has counted the datagram.
NothingLeftOver == IdleIsClean /\ NeverTimesOut /\ CounterCountsArrivals

\* The first byte of the datagram is what tells the engine what to do.
FirstByteDecides == serving.byte = 0

-----------------------------------------------------------------------------
(* Liveness: the clock runs, the store answers, the PC answers or the timer is over, *)
(* the MAC is granted. *)
Fairness ==
    /\ WF_vars(Clk)
    /\ []<>(req_state = "LOOKUP" => store_status # "BUSY")
    /\ []<>(req_state = "WAIT_REPLY" => nwk_received.got \/ timer_over)
    /\ []<>(ip_tx_state = "WAIT_CHN" => granted)
FairSpec == Spec /\ Fairness

\* Every datagram that reaches an idle board is answered by a frame, or its reply is
\* given up because of an error below.
Aborting == state = "DATA_OUT" /\ U!udp_tx_result = "ERR"
EveryRequestAnswered == (pos = 0 /\ state = "IDLE") ~> (frame_done \/ Aborting)

\* After every datagram the reply engine is ready for the next one.
AlwaysReadyAgain == []<>(state = "IDLE")
=============================================================================
