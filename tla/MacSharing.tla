------------------------------ MODULE MacSharing ------------------------------
(***************************************************************************)
(* What lies between the reply engine and the MAC: UDP_TX and IPv4_TX, the *)
(* address resolution, the ARP transmitter and the arbitrator, wired as in *)
(* UDP_Complete_nomac.vhd, IP_complete_nomac.vhd and arpv2.vhd, all on the *)
(* same clock.  The environment starts datagrams and feeds them as the     *)
(* reply engine does, and delivers the ARP frames of other hosts, at any   *)
(* time.  The two cycles arp_SYNC takes to hand over a pulse are left out. *)
(* The MAC refuses bytes of ARP frames only: what a refusal does to a      *)
(* reply is shown in JdrsBoard.                                            *)
(***************************************************************************)
EXTENDS Integers

CONSTANTS
    Host, ZeroHost, BroadcastHost, ARP_MAX_PKT_TMO,
    Length,         \* user data of a datagram
    UDP_HDR_BYTES, ETH_HDR_BYTES, IP_HDR_BYTES, ARP_BYTES

ASSUME SharingAssumption ==
    /\ ZeroHost \notin Host /\ BroadcastHost \notin Host \cup {ZeroHost}
    /\ ARP_MAX_PKT_TMO \in Nat /\ Length \in Nat \ {0}
    /\ UDP_HDR_BYTES \in Nat \ {0} /\ ETH_HDR_BYTES \in Nat \ {0}
    /\ IP_HDR_BYTES \in Nat \ {0} /\ ARP_BYTES \in Nat \ {0}

VARIABLES udp_tx_state, udp_tx_count, udp_result_reg, ip_tx_start_reg
VARIABLES ip_tx_state, ip_tx_count, ip_result_reg, ip_mac_req, mac_lookup_req,
          arp_req_ip_reg, tx_mac, mac_data_out_ready_reg
VARIABLES req_state, req_ip_addr, arp_entry_cache, cache_valid, nwk_rx_cntr, timeout_reg
VARIABLES arp_tx_state, arp_tx_count, arp_mac_req, send_I_have_reg, I_have_target,
          send_who_has_reg, who_has_target, tx_mode, target
VARIABLES grant         \* the arbitrator: "M1" (IP) or "M2" (ARP)
VARIABLES               \* the environment
    udp_tx_start, dst_ip_addr, mac_tx_tready, store_status, timer_over,
    arp_in              \* the ARP frame that has come in: [oper, entry]

udpVars == <<udp_tx_state, udp_tx_count, udp_result_reg, ip_tx_start_reg>>
ipVars == <<ip_tx_state, ip_tx_count, ip_result_reg, ip_mac_req, mac_lookup_req,
            arp_req_ip_reg, tx_mac, mac_data_out_ready_reg>>
reqVars == <<req_state, req_ip_addr, arp_entry_cache, cache_valid, nwk_rx_cntr, timeout_reg>>
arpVars == <<arp_tx_state, arp_tx_count, arp_mac_req, send_I_have_reg, I_have_target,
             send_who_has_reg, who_has_target, tx_mode, target>>
envVars == <<udp_tx_start, dst_ip_addr, mac_tx_tready, store_status, timer_over, arp_in>>
vars == <<udpVars, ipVars, reqVars, arpVars, grant, envVars>>

-----------------------------------------------------------------------------
(* The wiring. *)

\* The reply engine offers a byte whenever UDP_TX takes one, the last one as such.
Offered == udp_tx_state = "SEND_USER_DATA"

ip_tx_data_out_ready ==
    ip_tx_state = "SEND_USER_DATA" /\ mac_tx_tready /\ mac_data_out_ready_reg

U == INSTANCE UdpTx WITH
    MaxPayload <- Length, tx_count <- udp_tx_count, tx_result_reg <- udp_result_reg,
    udp_txi <- [data_length |-> Length, valid |-> Offered,
                last |-> Offered /\ udp_tx_count = Length],
    ip_tx_result <- ip_result_reg, ip_tx_data_out_ready <- ip_tx_data_out_ready
Q == INSTANCE ArpReq WITH
    lookup_req <- mac_lookup_req, lookup_ip <- arp_req_ip_reg,
    nwk_received <- [got |-> arp_in.oper # "NOP", entry |-> arp_in.entry]
I == INSTANCE IPv4Tx WITH
    MaxIpPayload <- Length + UDP_HDR_BYTES, tx_state <- ip_tx_state,
    tx_count <- ip_tx_count, tx_result_reg <- ip_result_reg,
    tx_mac_chn_reqd <- ip_mac_req, ip_tx_start <- ip_tx_start_reg,
    ip_tx <- [dst_ip_addr |-> dst_ip_addr, data_length |-> U!total_length,
              valid |-> U!ip_tx_data_out_valid, last |-> U!ip_tx_data_out_last],
    arp_req_rslt <- [got_mac |-> Q!got_mac, got_err |-> Q!got_err, mac |-> Q!mac],
    mac_tx_granted <- grant = "M1",
    mac_data_out_ready <- mac_tx_tready
A == INSTANCE ArpTx WITH
    tx_state <- arp_tx_state, tx_count <- arp_tx_count, tx_mac_chn_reqd <- arp_mac_req,
    send_I_have <- arp_in.oper = "REQUEST", arp_entry <- arp_in.entry,
    send_who_has <- Q!nwk_req, ip_entry <- req_ip_addr,
    mac_tx_granted <- grant = "M2", data_out_ready <- mac_tx_tready

\* Mutated: IP takes the channel away from ARP.
Arbitrate_IpFirst ==
    grant' = IF ip_mac_req THEN "M1" ELSE IF arp_mac_req THEN "M2" ELSE "M1"
\* Mutated: ARP takes the channel away from IP.
Arbitrate_ArpFirst == grant' = IF arp_mac_req THEN "M2" ELSE "M1"
\* Mutated: the channel stays with IP.
Arbitrate_KeepsIp == grant' = IF grant = "M2" /\ arp_mac_req THEN "M2" ELSE "M1"

\* Port 1 has the channel also while nobody asks for it.
Arbitrate ==
    grant' = IF grant = "M1"
             THEN IF ~ip_mac_req /\ arp_mac_req THEN "M2" ELSE "M1"
             ELSE IF arp_mac_req THEN "M2" ELSE "M1"

-----------------------------------------------------------------------------
(* The environment. *)

\* The reply engine starts a datagram when none is under way, and lowers its start
\* when it sees the result.
Start ==
    /\ udp_tx_start' \in IF udp_tx_start THEN {U!udp_tx_result \notin {"SENDING", "ERR"}}
                         ELSE IF udp_tx_state = "IDLE" THEN BOOLEAN ELSE {FALSE}
    /\ dst_ip_addr' \in IF udp_tx_start' /\ ~udp_tx_start THEN Host ELSE {dst_ip_addr}
Mac == mac_tx_tready' \in IF arp_tx_state' = "SEND" THEN BOOLEAN ELSE {TRUE}
Store == store_status' \in IF req_state' = "LOOKUP" THEN {"BUSY", "FOUND", "NOT_FOUND"}
                           ELSE {"BUSY"}
Timer == timer_over' \in IF req_state' = "WAIT_REPLY" THEN BOOLEAN ELSE {FALSE}

\* Another host asks for the board's address, or answers the board's question.
NoFrame == [oper |-> "NOP", entry |-> ZeroHost]
ArpFrame == {NoFrame} \cup [oper : {"REQUEST", "REPLY"}, entry : Host]
ArpIn ==
    arp_in' \in {f \in ArpFrame : f.oper = "REPLY" => f.entry = req_ip_addr'
                                                     /\ req_state' = "WAIT_REPLY"}

Init ==
    /\ U!Init /\ I!Init /\ Q!Init /\ A!Init /\ grant = "M1"
    /\ udp_tx_start = FALSE /\ dst_ip_addr = ZeroHost /\ mac_tx_tready = TRUE
    /\ store_status = "BUSY" /\ timer_over = FALSE /\ arp_in = NoFrame

Next == U!Clk /\ I!Clk /\ Q!Clk /\ A!Clk /\ Arbitrate
        /\ Start /\ Mac /\ Store /\ Timer /\ ArpIn
Spec == Init /\ [][Next]_vars

\* The clock runs, the MAC takes bytes, the store answers, the timer runs.
Fairness == /\ WF_vars(Next) /\ []<>mac_tx_tready
            /\ []<>(req_state = "LOOKUP" => store_status # "BUSY")
            /\ []<>(req_state = "WAIT_REPLY" => timer_over)
FairSpec == Spec /\ Fairness

-----------------------------------------------------------------------------
(* Properties. *)

IpSending == ip_tx_state \in {"SEND_ETH_HDR", "SEND_IP_HDR", "SEND_USER_DATA"}

\* Every register of the two senders has its width.
TypeOK ==
    /\ udp_tx_state \in U!State /\ ip_tx_state \in I!State /\ arp_tx_state \in A!State
    /\ udp_result_reg \in U!Result /\ ip_result_reg \in I!Result
    /\ udp_tx_count \in 0..(Length + UDP_HDR_BYTES)
    /\ ip_tx_count \in 0..(Length + UDP_HDR_BYTES + ETH_HDR_BYTES + IP_HDR_BYTES)
    /\ arp_tx_count \in 0..(ARP_BYTES + 1)
    /\ grant \in {"M1", "M2"} /\ tx_mode \in {"REPLY", "REQUEST"}
    /\ req_state \in Q!State /\ nwk_rx_cntr \in 0..(ARP_MAX_PKT_TMO + 1)
    /\ {target, tx_mac, arp_entry_cache, req_ip_addr, arp_req_ip_reg}
          \subseteq Host \cup {ZeroHost}

\* Every byte of an ARP frame goes out on a channel that is ARP's.
ArpOwnsChannel == A!data_out_valid => grant = "M2"

\* Every byte of an IP frame goes out on a channel that is IP's.
IpOwnsChannel == I!mac_data_out_valid => grant = "M1"

\* An IP frame that has the channel keeps it to its end: a cut frame lacks its
\* beginning, never its end.
IpKeepsChannel == [][IpSending /\ IpSending' /\ grant = "M1" => grant' = "M1"]_vars

\* A question the ARP transmitter has latched is answered, however busy IP keeps the MAC.
LatchedIsAnswered ==
    send_I_have_reg ~> (arp_tx_state = "SEND" /\ tx_mode = "REPLY")

\* Every datagram the reply engine starts comes to its end, provided the ARP
\* transmitter gets a break: as long as a question waits at the end of each frame it
\* keeps asking for the channel, and the arbitrator leaves it there.
ArpPauses == arp_tx_state = "IDLE" /\ ~send_I_have_reg /\ ~send_who_has_reg
DatagramEnds == []<>ArpPauses => ((udp_tx_state = "PAUSE") ~> (udp_tx_state = "IDLE"))

\* Neither of the two senders starves the other on the one channel of the MAC.
BothGetTheirTurn == LatchedIsAnswered /\ DatagramEnds

\* The address resolution tells an error as often as the IP transmitter waits for it:
\* a frame is sent, or the datagram has failed, and never both.
FailedIsNotSent == IpSending => udp_tx_state # "IDLE"

\* A frame goes to the host its IP header names.
FrameGoesToItsHost == IpSending => tx_mac = dst_ip_addr
=============================================================================
