---------------------------- MODULE MCUdpWrapper ----------------------------
(***************************************************************************)
(* UdpWrapper alone, between components that do anything their interface   *)
(* allows: datagrams of any length at any time, a UDP layer that fails or  *)
(* stalls at any byte, a fifo whose count and empty flag say anything.     *)
(* Inputs the engine does not look at in a state are held still, and so    *)
(* are the values it only passes on.                                       *)
(***************************************************************************)
EXTENDS UdpWrapper

CONSTANTS Kind, MaxLen

Silence == [start |-> FALSE, valid |-> FALSE, last |-> FALSE, kind |-> "nothing",
            addr |-> ZeroAddr, data |-> 0, src |-> "PC", broadcast |-> FALSE]

\* A byte of a datagram, which has at most MaxLen of them.
RxByte ==
    {[start |-> TRUE, valid |-> v, last |-> l, kind |-> k, addr |-> a, data |-> d,
      src |-> "PC", broadcast |-> FALSE] :
        v \in IF state' = "IDLE" THEN BOOLEAN ELSE {TRUE},
        l \in IF state' = "WAIT_RX_DONE" /\ rx_count' >= MaxLen - 2 THEN {TRUE} ELSE BOOLEAN,
        k \in IF state' = "IDLE" THEN Kind ELSE {"nothing"},
        a \in IF state' = "WAIT_RX_DONE" /\ rx_count' = 6 THEN Addr ELSE {ZeroAddr},
        d \in IF state' = "WAIT_RX_DONE" /\ rx_count' = 10 /\ what_to_do' = "bulk"
             THEN Value ELSE {0}}

Environment ==
    /\ rx' \in CASE state' = "IDLE" -> RxByte \cup {Silence}
                [] state' = "WAIT_RX_DONE" -> RxByte
                [] OTHER -> {Silence}
    /\ udp_tx_result' \in IF state' = "DATA_OUT" THEN {"NONE", "SENDING", "ERR"} ELSE {"NONE"}
    /\ udp_tx_data_out_ready' \in IF state' = "DATA_OUT" THEN BOOLEAN ELSE {FALSE}
    /\ reg' \in [ready : {REGISTER_ACCESS'}, data : {0}]
    /\ blk' \in [valid : {REGISTER_BLK_EN'},
                 empty : IF REGISTER_BLK_EN' THEN BOOLEAN ELSE {FALSE},
                 count : IF REGISTER_BLK_EN' /\ state' = "WAIT_DATA_OUT_RDY"
                         THEN 0..(MAX_BLK_WORDS_PER_PKG + 1) ELSE {0},
                 data : {0}]

MCInit == /\ rx = Silence /\ udp_tx_result = "NONE" /\ udp_tx_data_out_ready = FALSE
          /\ reg = [ready |-> FALSE, data |-> 0]
          /\ blk = [valid |-> FALSE, empty |-> FALSE, count |-> 0, data |-> 0]
          /\ Init
MCSpec == MCInit /\ [][Clk /\ Environment]_<<vars, inputs>>
=============================================================================
