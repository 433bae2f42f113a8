------------------------------- MODULE IPv4Tx -------------------------------
(***************************************************************************)
(* The IP transmitter of the board, IPv4_TX.vhd, without its checksum      *)
(* process.  One step is one rising clock edge.  The inputs come from the  *)
(* UDP transmitter above, from the ARP layer and from the MAC below.  The  *)
(* bytes of the two headers are not told apart, only counted.              *)
(***************************************************************************)
EXTENDS Integers

CONSTANTS
    ZeroHost,       \* address of the registers after a reset
    BroadcastHost,  \* stands for the broadcast addresses of IP and Ethernet
    MaxIpPayload,   \* longest payload of an IP packet (1480)
    ETH_HDR_BYTES,  \* 14
    IP_HDR_BYTES    \* 20

VARIABLES
    tx_state, tx_count, tx_result_reg, tx_mac_chn_reqd, mac_lookup_req,
    arp_req_ip_reg, tx_mac, \* a host stands for its IP address and for its MAC
    mac_data_out_ready_reg

VARIABLES                   \* inputs
    ip_tx_start,
    ip_tx,                  \* [dst_ip_addr, data_length, valid, last]
    arp_req_rslt,           \* [got_mac, got_err, mac]
    mac_tx_granted, mac_data_out_ready

vars == <<tx_state, tx_count, tx_result_reg, tx_mac_chn_reqd, mac_lookup_req,
          arp_req_ip_reg, tx_mac, mac_data_out_ready_reg>>

addresses == <<arp_req_ip_reg, tx_mac>>

State == {"IDLE", "WAIT_MAC", "WAIT_CHN", "SEND_ETH_HDR", "SEND_IP_HDR", "SEND_USER_DATA"}
Result == {"NONE", "SENDING", "ERR", "SENT"}

-----------------------------------------------------------------------------
ip_tx_data_out_ready ==
    tx_state = "SEND_USER_DATA" /\ mac_data_out_ready /\ mac_data_out_ready_reg

mac_data_out_valid ==
    /\ mac_data_out_ready
    /\ \/ tx_state \in {"SEND_ETH_HDR", "SEND_IP_HDR"}
       \/ tx_state = "SEND_USER_DATA" /\ ip_tx.valid
mac_data_out_last == tx_state = "SEND_USER_DATA" /\ ip_tx.last

TakeByte == /\ tx_state = "SEND_USER_DATA" /\ mac_data_out_ready
            /\ ip_tx.valid \/ tx_count = 0
EndOfPacket == TakeByte /\ (tx_count = ip_tx.data_length \/ ip_tx.last)

-----------------------------------------------------------------------------
Init == /\ tx_state = "IDLE" /\ tx_count = 0 /\ tx_result_reg = "NONE"
        /\ tx_mac_chn_reqd = FALSE /\ mac_lookup_req = FALSE
        /\ arp_req_ip_reg = ZeroHost /\ tx_mac = ZeroHost
        /\ mac_data_out_ready_reg = FALSE

Idle == /\ tx_state = "IDLE" /\ ~ip_tx_start
        /\ tx_count' = 0 /\ tx_mac_chn_reqd' = FALSE /\ mac_lookup_req' = FALSE
        /\ UNCHANGED <<tx_state, tx_result_reg, arp_req_ip_reg, tx_mac>>

\* The MAC address has to be looked up, except for the broadcast address.
Start == /\ tx_state = "IDLE" /\ ip_tx_start
         /\ tx_count' = 0 /\ tx_mac_chn_reqd' = FALSE
         /\ IF ip_tx.data_length > MaxIpPayload
            THEN /\ tx_result_reg' = "ERR"
                 /\ UNCHANGED <<tx_state, mac_lookup_req, arp_req_ip_reg, tx_mac>>
            ELSE /\ tx_result_reg' = "SENDING"
                 /\ IF ip_tx.dst_ip_addr = BroadcastHost
                    THEN /\ tx_state' = "WAIT_CHN" /\ tx_mac' = BroadcastHost
                         /\ UNCHANGED <<mac_lookup_req, arp_req_ip_reg>>
                    ELSE /\ tx_state' = "WAIT_MAC" /\ mac_lookup_req' = TRUE
                         /\ arp_req_ip_reg' = ip_tx.dst_ip_addr
                         /\ UNCHANGED tx_mac

WaitMac == /\ tx_state = "WAIT_MAC"
           /\ mac_lookup_req' = FALSE
           /\ IF arp_req_rslt.got_mac
              THEN /\ tx_mac_chn_reqd' = TRUE /\ tx_mac' = arp_req_rslt.mac
                   /\ tx_state' = IF mac_tx_granted THEN "SEND_ETH_HDR" ELSE "WAIT_CHN"
                   /\ UNCHANGED tx_result_reg
              ELSE IF arp_req_rslt.got_err
              THEN /\ tx_result_reg' = "ERR" /\ tx_state' = "IDLE"
                   /\ UNCHANGED <<tx_mac_chn_reqd, tx_mac>>
              ELSE UNCHANGED <<tx_state, tx_result_reg, tx_mac_chn_reqd, tx_mac>>
           /\ UNCHANGED <<tx_count, arp_req_ip_reg>>

WaitChn == /\ tx_state = "WAIT_CHN"
           /\ tx_state' = IF mac_tx_granted THEN "SEND_ETH_HDR" ELSE tx_state
           /\ UNCHANGED <<tx_count, tx_result_reg, tx_mac_chn_reqd, mac_lookup_req, addresses>>

SendEthHdr == /\ tx_state = "SEND_ETH_HDR"
              /\ IF ~mac_data_out_ready THEN UNCHANGED <<tx_state, tx_count>>
                 ELSE IF tx_count = ETH_HDR_BYTES - 1
                 THEN tx_state' = "SEND_IP_HDR" /\ tx_count' = 0
                 ELSE tx_count' = tx_count + 1 /\ UNCHANGED tx_state
              /\ UNCHANGED <<tx_result_reg, tx_mac_chn_reqd, mac_lookup_req, addresses>>

SendIpHdr == /\ tx_state = "SEND_IP_HDR"
             /\ IF ~mac_data_out_ready THEN UNCHANGED <<tx_state, tx_count>>
                ELSE IF tx_count = IP_HDR_BYTES - 1
                THEN tx_state' = "SEND_USER_DATA" /\ tx_count' = 1
                ELSE tx_count' = tx_count + 1 /\ UNCHANGED tx_state
             /\ UNCHANGED <<tx_result_reg, tx_mac_chn_reqd, mac_lookup_req, addresses>>

EndData == /\ EndOfPacket
           /\ tx_state' = "IDLE" /\ tx_mac_chn_reqd' = FALSE
           /\ tx_result_reg' = IF tx_count = ip_tx.data_length THEN "SENT" ELSE "ERR"
           /\ UNCHANGED <<tx_count, mac_lookup_req, addresses>>

SendData == /\ TakeByte /\ ~EndOfPacket
            /\ tx_count' = tx_count + 1
            /\ UNCHANGED <<tx_state, tx_result_reg, tx_mac_chn_reqd, mac_lookup_req, addresses>>

StallData == /\ tx_state = "SEND_USER_DATA" /\ ~TakeByte
             /\ UNCHANGED <<tx_state, tx_count, tx_result_reg, tx_mac_chn_reqd, mac_lookup_req,
                            addresses>>

Clk == /\ mac_data_out_ready_reg' = mac_data_out_ready
       /\ \/ Idle \/ Start \/ WaitMac \/ WaitChn \/ SendEthHdr \/ SendIpHdr
          \/ EndData \/ SendData \/ StallData
=============================================================================
