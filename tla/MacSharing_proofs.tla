-------------------------- MODULE MacSharing_proofs --------------------------
(***************************************************************************)
(* Proofs about the sharing of the MAC: for any number of hosts, any       *)
(* length of the datagrams and of the headers, and whatever the            *)
(* environment does.                                                       *)
(***************************************************************************)
EXTENDS MacSharing, TLAPS

\* The states of IPv4_TX in which the channel is asked for or used.
NeedsChannel == {"WAIT_CHN", "SEND_ETH_HDR", "SEND_IP_HDR", "SEND_USER_DATA"}

\* A sender asks for the channel from the moment it waits for it to the end of its
\* frame, and ARP sends only while the channel is its own.  (IPv4_TX would send to the
\* broadcast address without asking, but no reply goes there.)
ChannelInv ==
    /\ arp_tx_state \in {"WAIT_MAC", "SEND"} => arp_mac_req
    /\ arp_tx_state = "SEND" => grant = "M2"
    /\ ip_tx_state \in NeedsChannel => ip_mac_req
    /\ dst_ip_addr \in Host \cup {ZeroHost}

LEMMA InitChannel == Init => ChannelInv
  BY DEF Init, I!Init, A!Init, ChannelInv, NeedsChannel

LEMMA ArpStep ==
    ASSUME ChannelInv, A!Clk, Arbitrate
    PROVE  /\ arp_tx_state' \in {"WAIT_MAC", "SEND"} => arp_mac_req'
           /\ arp_tx_state' = "SEND" => grant' = "M2"
<1>1. CASE A!Idle
  BY <1>1 DEF A!Idle
<1>2. CASE A!TakeUp
  BY <1>2 DEF A!TakeUp
<1>3. CASE A!WaitMac
  BY <1>3 DEF A!WaitMac, Arbitrate, ChannelInv
<1>4. CASE A!Send
  BY <1>4 DEF A!Send, Arbitrate, ChannelInv
<1> QED
  BY <1>1, <1>2, <1>3, <1>4 DEF A!Clk

LEMMA IpStep ==
    ASSUME ChannelInv, I!Clk
    PROVE  ip_tx_state' \in NeedsChannel => ip_mac_req'
<1>1. dst_ip_addr # BroadcastHost
  BY SharingAssumption DEF ChannelInv
<1>2. CASE I!Idle
  BY <1>2 DEF I!Idle, NeedsChannel
<1>3. CASE I!Start
  BY <1>1, <1>3 DEF I!Start, NeedsChannel
<1>4. CASE I!WaitMac
  BY <1>4 DEF I!WaitMac, NeedsChannel
<1>5. CASE I!WaitChn
  BY <1>5 DEF I!WaitChn, NeedsChannel, ChannelInv
<1>6. CASE I!SendEthHdr
  BY <1>6 DEF I!SendEthHdr, NeedsChannel, ChannelInv
<1>7. CASE I!SendIpHdr
  BY <1>7 DEF I!SendIpHdr, NeedsChannel, ChannelInv
<1>8. CASE I!EndData
  BY <1>8 DEF I!EndData, NeedsChannel
<1>9. CASE I!SendData
  BY <1>9 DEF I!SendData, I!TakeByte, NeedsChannel, ChannelInv
<1>10. CASE I!StallData
  BY <1>10 DEF I!StallData, NeedsChannel, ChannelInv
<1> QED
  BY <1>2, <1>3, <1>4, <1>5, <1>6, <1>7, <1>8, <1>9, <1>10 DEF I!Clk

LEMMA StartStep ==
    ASSUME ChannelInv, Start
    PROVE  dst_ip_addr' \in Host \cup {ZeroHost}
<1>1. dst_ip_addr' \in IF udp_tx_start' /\ ~udp_tx_start THEN Host ELSE {dst_ip_addr}
  BY DEF Start
<1> QED
  BY <1>1 DEF ChannelInv

LEMMA ChannelStep == ChannelInv /\ [Next]_vars => ChannelInv'
<1> SUFFICES ASSUME ChannelInv, [Next]_vars
             PROVE  ChannelInv'
  OBVIOUS
<1>1. CASE Next
  BY <1>1, ArpStep, IpStep, StartStep DEF Next, ChannelInv
<1>2. CASE UNCHANGED vars
  BY <1>2 DEF vars, ipVars, arpVars, envVars, ChannelInv
<1> QED
  BY <1>1, <1>2

\* The channel discipline holds in every reachable state.
THEOREM ChannelInvariant == Spec => []ChannelInv
  BY InitChannel, ChannelStep, PTL DEF Spec

\* Every byte of an ARP frame goes out on ARP's channel (arp_TX.vhd, tx_arbitrator.vhd).
THEOREM ArpFramesAreWhole == Spec => []ArpOwnsChannel
<1>1. ChannelInv => ArpOwnsChannel
  BY DEF ChannelInv, ArpOwnsChannel, A!data_out_valid
<1> QED
  BY <1>1, ChannelInvariant, PTL

\* An IP frame that has the channel keeps it to its end (IPv4_TX.vhd, tx_arbitrator.vhd).
THEOREM IpFramesAreNotCutOff == Spec => IpKeepsChannel
<1>1. ChannelInv /\ [Next]_vars
        => [IpSending /\ IpSending' /\ grant = "M1" => grant' = "M1"]_vars
  <2> SUFFICES ASSUME ChannelInv, Next, IpSending, grant = "M1"
               PROVE  grant' = "M1"
    OBVIOUS
  <2>1. ip_mac_req
    BY DEF ChannelInv, NeedsChannel, IpSending
  <2> QED
    BY <2>1 DEF Next, Arbitrate
<1> QED
  BY <1>1, ChannelInvariant, PTL DEF Spec, IpKeepsChannel

-----------------------------------------------------------------------------
(* The error handshake.  UDP_TX, IPv4_TX and the address resolution agree on the  *)
(* stage of a datagram in every cycle, although none of them waits for another    *)
(* when an address cannot be found: the IP transmitter starts a second lookup     *)
(* before its start is taken back, and the three pauses of the resolution make    *)
(* that one fail as well, before the next datagram can begin.                     *)

\* No datagram: UDP_TX rests, or has just been started.
Rest ==
    /\ udp_tx_state \in {"IDLE", "PAUSE"} /\ ip_tx_state = "IDLE"
    /\ (ip_tx_start_reg <=> udp_tx_state = "PAUSE") /\ ~mac_lookup_req
    /\ udp_tx_state = "PAUSE" => udp_tx_count = 0
    /\ req_state = "IDLE" \/ (req_state # "LOOKUP" /\ cache_valid)

\* The address is looked up.  An error that is seen here is a new one.
Resolving ==
    /\ udp_tx_state = "SEND_UDP_HDR" /\ ip_tx_state = "WAIT_MAC"
    /\ ip_result_reg # "ERR" /\ ip_tx_start_reg /\ udp_tx_count = 0
    /\ \/ req_state # "LOOKUP" /\ cache_valid
       \/ mac_lookup_req /\ req_state = "IDLE"
       \/ /\ ~mac_lookup_req /\ ~cache_valid
          /\ \/ req_state \in {"LOOKUP", "WAIT_REPLY"} /\ ~timeout_reg
             \/ req_state = "PAUSE1" /\ timeout_reg

\* The frame is sent: the counters of the two transmitters run in step.
Sending ==
    /\ ip_tx_state \in NeedsChannel /\ ip_result_reg # "ERR" /\ ip_tx_start_reg
    /\ ~mac_lookup_req /\ req_state # "LOOKUP" /\ cache_valid
    /\ \/ /\ udp_tx_state = "SEND_UDP_HDR" /\ udp_tx_count \in 0..(UDP_HDR_BYTES - 1)
          /\ IF ip_tx_state = "SEND_USER_DATA" THEN ip_tx_count = udp_tx_count + 1
             ELSE udp_tx_count = 0
       \/ /\ udp_tx_state = "SEND_USER_DATA" /\ udp_tx_count \in 1..Length
          /\ ip_tx_state = "SEND_USER_DATA" /\ ip_tx_count = udp_tx_count + UDP_HDR_BYTES

\* The address was not found.  IPv4_TX has told the error, UDP_TX has passed it on
\* while IPv4_TX started again, and IPv4_TX is about to fail again.
Failing ==
    /\ timeout_reg /\ ~cache_valid
    /\ \/ /\ udp_tx_state = "SEND_UDP_HDR" /\ ip_tx_state = "IDLE" /\ req_state = "PAUSE2"
          /\ ip_result_reg = "ERR" /\ ip_tx_start_reg /\ ~mac_lookup_req
       \/ /\ udp_tx_state = "IDLE" /\ ip_tx_state = "WAIT_MAC" /\ req_state = "PAUSE3"
          /\ ~ip_tx_start_reg /\ mac_lookup_req /\ ~udp_tx_start
       \/ /\ udp_tx_state = "IDLE" /\ ip_tx_state = "WAIT_MAC" /\ req_state = "IDLE"
          /\ ~ip_tx_start_reg /\ ~mac_lookup_req

StageInv ==
    /\ Rest \/ Resolving \/ Sending \/ Failing
    /\ udp_tx_state # "IDLE" => udp_result_reg = "SENDING"

LEMMA InitStage == Init => StageInv
  BY DEF Init, U!Init, I!Init, Q!Init, StageInv, Rest

-----------------------------------------------------------------------------
(* What each of the three does in a cycle of each stage.                   *)

\* The resolution while nobody asks it: what is in the cache stays valid, and no
\* lookup begins.
LEMMA ResolutionUnasked ==
    ASSUME Q!Clk, ~mac_lookup_req
    PROVE  /\ cache_valid => cache_valid'
           /\ req_state # "LOOKUP" => req_state' # "LOOKUP"
           /\ req_state = "IDLE" => UNCHANGED <<req_state, cache_valid, timeout_reg>>
           /\ req_state = "PAUSE2" => req_state' = "PAUSE3" /\ UNCHANGED <<cache_valid, timeout_reg>>
           /\ req_state = "PAUSE1" => req_state' = "PAUSE2" /\ UNCHANGED <<cache_valid, timeout_reg>>
<1>1. CASE Q!Idle
  BY <1>1 DEF Q!Idle, Q!vars
<1>2. CASE Q!StartLookup
  BY <1>2 DEF Q!StartLookup
<1>3. CASE Q!Lookup
  BY <1>3 DEF Q!Lookup
<1>4. CASE Q!Receive
  BY <1>4 DEF Q!Receive, Q!Received
<1>5. CASE Q!WaitReply
  BY <1>5 DEF Q!WaitReply
<1>6. CASE Q!Pause
  BY <1>6 DEF Q!Pause
<1> QED
  BY <1>1, <1>2, <1>3, <1>4, <1>5, <1>6 DEF Q!Clk

\* The resolution when it is asked: it begins, unless it has the answer or does not
\* hear the question, and in these two cases something valid is in the cache.
LEMMA ResolutionAsked ==
    ASSUME Q!Clk, mac_lookup_req,
           req_state = "IDLE" \/ (req_state # "LOOKUP" /\ cache_valid)
    PROVE  \/ /\ req_state' = "LOOKUP" /\ ~timeout_reg' /\ ~cache_valid'
              /\ ~Q!got_mac
           \/ req_state' # "LOOKUP" /\ cache_valid'
<1>1. CASE Q!Idle
  BY <1>1 DEF Q!Idle, Q!vars, Q!InCache
<1>2. CASE Q!StartLookup
  BY <1>2 DEF Q!StartLookup, Q!got_mac, Q!InCache, Q!Found, Q!Answered, Q!Received
<1>4. CASE Q!Receive
  BY <1>4 DEF Q!Receive, Q!Received
<1>5. CASE Q!WaitReply
  BY <1>5 DEF Q!WaitReply
<1>6. CASE Q!Pause
  BY <1>6 DEF Q!Pause
<1> QED
  BY <1>1, <1>2, <1>4, <1>5, <1>6 DEF Q!Clk, Q!Lookup

\* The resolution while it works: it answers, or goes on, or gives up, and it has
\* answered when something valid is in the cache.
LEMMA ResolutionWorks ==
    ASSUME Q!Clk, ~mac_lookup_req, ~cache_valid,
           req_state \in {"LOOKUP", "WAIT_REPLY"}, ~timeout_reg
    PROVE  /\ ~Q!got_err
           /\ \/ req_state' # "LOOKUP" /\ cache_valid'
              \/ /\ ~Q!got_mac /\ ~cache_valid'
                 /\ \/ req_state' \in {"LOOKUP", "WAIT_REPLY"} /\ ~timeout_reg'
                    \/ req_state' = "PAUSE1" /\ timeout_reg'
<1>1. ~Q!got_err
  BY DEF Q!got_err
<1>2. CASE Q!Lookup
  BY <1>1, <1>2 DEF Q!Lookup, Q!got_mac, Q!Found, Q!Answered, Q!Received
<1>3. CASE Q!Receive
  BY <1>1, <1>3 DEF Q!Receive, Q!Received
<1>4. CASE Q!WaitReply
  BY <1>1, <1>4 DEF Q!WaitReply, Q!got_mac, Q!Found, Q!Answered
<1> QED
  BY <1>2, <1>3, <1>4 DEF Q!Clk, Q!Idle, Q!StartLookup, Q!Pause

\* The resolution when it has given up: it tells an error, and not an answer.
LEMMA ResolutionFails ==
    ASSUME Q!Clk, req_state \in {"IDLE", "PAUSE1", "PAUSE2", "PAUSE3"},
           timeout_reg, ~cache_valid, mac_lookup_req => req_state = "PAUSE3"
    PROVE  /\ ~Q!got_mac /\ (Q!got_err <=> ~mac_lookup_req)
           /\ timeout_reg' /\ ~cache_valid'
           /\ req_state' = CASE req_state = "PAUSE1" -> "PAUSE2"
                             [] req_state = "PAUSE2" -> "PAUSE3"
                             [] OTHER -> "IDLE"
<1>1. ~Q!got_mac /\ (Q!got_err <=> ~mac_lookup_req)
  BY DEF Q!got_mac, Q!got_err, Q!Found, Q!Answered, Q!Received, Q!InCache
<1>2. CASE Q!Idle
  BY <1>1, <1>2 DEF Q!Idle, Q!vars
<1>3. CASE Q!Pause
  BY <1>1, <1>3 DEF Q!Pause
<1> QED
  BY <1>1, <1>2, <1>3 DEF Q!Clk, Q!StartLookup, Q!Lookup, Q!Receive, Q!Received, Q!WaitReply

-----------------------------------------------------------------------------
(* A cycle of each stage.                                                  *)
LEMMA RestStep ==
    ASSUME StageInv, ChannelInv, Next, Rest PROVE Rest' \/ Resolving'
<1> USE SharingAssumption
<1>1. /\ Q!Clk /\ U!Clk /\ I!Clk /\ ~mac_lookup_req
      /\ dst_ip_addr # BroadcastHost
  BY DEF Next, Rest, ChannelInv
<1>2. req_state' = "IDLE" \/ (req_state' # "LOOKUP" /\ cache_valid')
  BY <1>1, ResolutionUnasked DEF Rest
<1>3. CASE udp_tx_state = "IDLE"
  <2>1. /\ ip_tx_state' = "IDLE" /\ ~mac_lookup_req'
    BY <1>1, <1>3 DEF Rest, I!Clk, I!Idle, I!Start, I!WaitMac, I!WaitChn, I!SendEthHdr,
                      I!SendIpHdr, I!EndData, I!EndOfPacket, I!TakeByte, I!SendData, I!StallData
  <2>2. U!Idle
    BY <1>1, <1>3 DEF U!Clk, U!Pause, U!HeaderError, U!SendHeader, U!EndData, U!TakeByte,
                      U!SendData, U!StallData
  <2>3. /\ udp_tx_state' \in {"IDLE", "PAUSE"} /\ udp_tx_count' = 0
        /\ (ip_tx_start_reg' <=> udp_tx_state' = "PAUSE")
    BY <1>3, <2>2 DEF Rest, U!Idle
  <2> QED
    BY <1>2, <2>1, <2>3 DEF Rest
<1>4. CASE udp_tx_state = "PAUSE"
  <2>1. U!Pause
    BY <1>1, <1>4 DEF U!Clk, U!Idle, U!HeaderError, U!SendHeader, U!EndData, U!TakeByte,
                      U!SendData, U!StallData
  <2>2. udp_tx_state' = "SEND_UDP_HDR" /\ udp_tx_count' = 0 /\ ip_tx_start_reg'
    BY <1>4, <2>1 DEF Rest, U!Pause
  <2>3. I!Start
    BY <1>1, <1>4 DEF Rest, I!Clk, I!Idle, I!WaitMac, I!WaitChn, I!SendEthHdr,
                      I!SendIpHdr, I!EndData, I!EndOfPacket, I!TakeByte, I!SendData, I!StallData
  <2>4. ~(U!total_length > Length + UDP_HDR_BYTES)
    BY DEF U!total_length
  <2>5. ip_tx_state' = "WAIT_MAC" /\ ip_result_reg' = "SENDING" /\ mac_lookup_req'
    BY <1>1, <2>3, <2>4 DEF I!Start
  <2> QED
    BY <1>2, <2>2, <2>5 DEF Resolving
<1> QED
  BY <1>3, <1>4 DEF Rest

\* UDP_TX waits in its header until IPv4_TX takes bytes.
LEMMA HeaderWaits ==
    ASSUME U!Clk, udp_tx_state = "SEND_UDP_HDR", ip_result_reg # "ERR", ~ip_tx_data_out_ready
    PROVE  UNCHANGED <<udp_tx_state, udp_tx_count, ip_tx_start_reg, udp_result_reg>>
<1>1. U!SendHeader
  BY DEF U!Clk, U!Idle, U!Pause, U!HeaderError, U!EndData, U!TakeByte, U!SendData, U!StallData
<1> QED
  BY <1>1 DEF U!SendHeader

LEMMA ResolvingStep ==
    ASSUME StageInv, Next, Resolving PROVE Resolving' \/ Sending' \/ Failing'
<1> USE SharingAssumption
<1>1. Q!Clk /\ U!Clk /\ I!Clk
  BY DEF Next
<1>2. /\ udp_tx_state' = "SEND_UDP_HDR" /\ udp_tx_count' = 0 /\ ip_tx_start_reg'
  BY <1>1, HeaderWaits DEF Resolving, ip_tx_data_out_ready
<1>3. I!WaitMac
  BY <1>1 DEF Resolving, I!Clk, I!Idle, I!Start, I!WaitChn, I!SendEthHdr, I!SendIpHdr,
              I!EndData, I!EndOfPacket, I!TakeByte, I!SendData, I!StallData
<1>4. ~mac_lookup_req'
  BY <1>3 DEF I!WaitMac
<1>5. CASE Q!got_mac
  <2>1. /\ ip_tx_state' \in {"WAIT_CHN", "SEND_ETH_HDR"} /\ ip_result_reg' # "ERR"
    BY <1>3, <1>5 DEF I!WaitMac, Resolving
  <2>2. req_state' # "LOOKUP" /\ cache_valid'
    <3>1. CASE mac_lookup_req
      BY <1>1, <1>5, <3>1, ResolutionAsked DEF Resolving
    <3>2. CASE ~mac_lookup_req /\ req_state # "LOOKUP" /\ cache_valid
      BY <1>1, <3>2, ResolutionUnasked
    <3>3. CASE /\ ~mac_lookup_req /\ ~cache_valid
               /\ req_state \in {"LOOKUP", "WAIT_REPLY"} /\ ~timeout_reg
      BY <1>1, <1>5, <3>3, ResolutionWorks
    <3>4. ~(~mac_lookup_req /\ ~cache_valid /\ req_state = "PAUSE1" /\ timeout_reg)
      BY <1>1, <1>5, ResolutionFails
    <3> QED
      BY <3>1, <3>2, <3>3, <3>4 DEF Resolving
  <2>3. 0 \in 0..(UDP_HDR_BYTES - 1)
    OBVIOUS
  <2> QED
    BY <1>2, <1>4, <2>1, <2>2, <2>3 DEF Sending, NeedsChannel
<1>6. CASE ~Q!got_mac /\ Q!got_err
  <2>1. ip_tx_state' = "IDLE" /\ ip_result_reg' = "ERR"
    BY <1>3, <1>6 DEF I!WaitMac
  <2>2. ~mac_lookup_req /\ ~cache_valid /\ req_state = "PAUSE1" /\ timeout_reg
    <3>1. ~mac_lookup_req /\ timeout_reg
      BY <1>6 DEF Q!got_err
    <3>2. ~cache_valid
      BY <1>6, <3>1 DEF Q!got_mac
    <3> QED
      BY <3>1, <3>2 DEF Resolving
  <2>3. timeout_reg' /\ ~cache_valid' /\ req_state' = "PAUSE2"
    BY <1>1, <2>2, ResolutionFails
  <2> QED
    BY <1>2, <1>4, <2>1, <2>3 DEF Failing
<1>7. CASE ~Q!got_mac /\ ~Q!got_err
  <2>1. ip_tx_state' = "WAIT_MAC" /\ ip_result_reg' # "ERR"
    BY <1>3, <1>7 DEF I!WaitMac, Resolving
  <2>2. CASE mac_lookup_req
    <3>1. \/ req_state' = "LOOKUP" /\ ~timeout_reg' /\ ~cache_valid'
          \/ req_state' # "LOOKUP" /\ cache_valid'
      BY <1>1, <2>2, ResolutionAsked DEF Resolving
    <3> QED
      BY <1>2, <1>4, <2>1, <3>1 DEF Resolving
  <2>3. CASE /\ ~mac_lookup_req /\ ~cache_valid
             /\ req_state \in {"LOOKUP", "WAIT_REPLY"} /\ ~timeout_reg
    <3>1. \/ req_state' # "LOOKUP" /\ cache_valid'
          \/ /\ ~cache_valid'
             /\ \/ req_state' \in {"LOOKUP", "WAIT_REPLY"} /\ ~timeout_reg'
                \/ req_state' = "PAUSE1" /\ timeout_reg'
      BY <1>1, <2>3, ResolutionWorks
    <3> QED
      BY <1>2, <1>4, <2>1, <3>1 DEF Resolving
  <2>4. ~(~mac_lookup_req /\ cache_valid)
    BY <1>7 DEF Q!got_mac
  <2>5. ~(~mac_lookup_req /\ ~cache_valid /\ req_state = "PAUSE1" /\ timeout_reg)
    BY <1>1, <1>7, ResolutionFails
  <2> QED
    BY <2>2, <2>3, <2>4, <2>5 DEF Resolving
<1> QED
  BY <1>5, <1>6, <1>7

\* While the frame is sent the two transmitters take the same bytes, and its last
\* byte in the same cycle.
LEMMA SendingStep ==
    ASSUME StageInv, Next, Sending PROVE Sending' \/ Rest'
<1> USE SharingAssumption
<1>1. /\ Q!Clk /\ U!Clk /\ I!Clk
      /\ ip_tx_state \in NeedsChannel /\ ip_result_reg # "ERR" /\ ip_tx_start_reg
      /\ ~mac_lookup_req /\ req_state # "LOOKUP" /\ cache_valid
  BY DEF Next, Sending
<1>2. req_state' # "LOOKUP" /\ cache_valid'
  BY <1>1, ResolutionUnasked
<1>3. CASE ip_tx_state # "SEND_USER_DATA"
  <2>1. /\ udp_tx_state = "SEND_UDP_HDR" /\ udp_tx_count = 0 /\ ~ip_tx_data_out_ready
    BY <1>3 DEF Sending, ip_tx_data_out_ready
  <2>2. udp_tx_state' = "SEND_UDP_HDR" /\ udp_tx_count' = 0 /\ ip_tx_start_reg'
    BY <1>1, <2>1, HeaderWaits
  <2>3. /\ ip_tx_state' \in NeedsChannel /\ ip_result_reg' # "ERR" /\ ~mac_lookup_req'
        /\ ip_tx_state' = "SEND_USER_DATA" => ip_tx_count' = 1
    <3>1. CASE I!WaitChn
      BY <1>1, <3>1 DEF I!WaitChn, NeedsChannel
    <3>2. CASE I!SendEthHdr
      BY <1>1, <3>2 DEF I!SendEthHdr, NeedsChannel
    <3>3. CASE I!SendIpHdr
      BY <1>1, <3>3 DEF I!SendIpHdr, NeedsChannel
    <3> QED
      BY <1>1, <1>3, <3>1, <3>2, <3>3
         DEF NeedsChannel, I!Clk, I!Idle, I!Start, I!WaitMac, I!EndData, I!EndOfPacket,
             I!TakeByte, I!SendData, I!StallData
  <2>4. 0 \in 0..(UDP_HDR_BYTES - 1)
    OBVIOUS
  <2> QED
    BY <1>2, <2>2, <2>3, <2>4 DEF Sending
<1>4. CASE ip_tx_state = "SEND_USER_DATA"
  <2>1. I!EndData \/ I!SendData \/ I!StallData
    BY <1>1, <1>4 DEF I!Clk, I!Idle, I!Start, I!WaitMac, I!WaitChn, I!SendEthHdr, I!SendIpHdr
  <2>2. CASE ~ip_tx_data_out_ready
    <3>1. I!StallData
      <4>1. ~I!TakeByte
        BY <2>2 DEF I!TakeByte, U!ip_tx_data_out_valid, Sending, ip_tx_data_out_ready
      <4> QED
        BY <2>1, <4>1 DEF I!EndData, I!EndOfPacket, I!SendData
    <3>2. UNCHANGED <<ip_tx_state, ip_tx_count, ip_result_reg, mac_lookup_req>>
      BY <3>1 DEF I!StallData
    <3>3. UNCHANGED <<udp_tx_state, udp_tx_count, ip_tx_start_reg>>
      <4>1. CASE udp_tx_state = "SEND_UDP_HDR"
        BY <1>1, <2>2, <4>1, HeaderWaits
      <4>2. CASE udp_tx_state = "SEND_USER_DATA"
        BY <1>1, <2>2, <4>2 DEF U!Clk, U!Idle, U!Pause, U!HeaderError, U!SendHeader, U!EndData,
                                U!TakeByte, U!SendData, U!StallData, U!vars
      <4> QED
        BY <4>1, <4>2 DEF Sending
    <3> QED
      BY <1>2, <3>2, <3>3 DEF Sending
  <2>3. CASE ip_tx_data_out_ready /\ udp_tx_state = "SEND_UDP_HDR"
    <3>1. /\ udp_tx_count \in 0..(UDP_HDR_BYTES - 1) /\ ip_tx_count = udp_tx_count + 1
      BY <1>4, <2>3 DEF Sending
    <3>2. I!TakeByte /\ ~I!EndOfPacket
      <4>1. I!TakeByte
        BY <1>4, <2>3 DEF I!TakeByte, U!ip_tx_data_out_valid, ip_tx_data_out_ready
      <4>2. ~U!ip_tx_data_out_last
        BY <2>3 DEF U!ip_tx_data_out_last
      <4>3. U!total_length = Length + UDP_HDR_BYTES
        BY DEF U!total_length
      <4>4. ip_tx_count # Length + UDP_HDR_BYTES
        BY <3>1
      <4> QED
        BY <4>1, <4>2, <4>3, <4>4 DEF I!EndOfPacket
    <3>3. /\ ip_tx_state' = "SEND_USER_DATA" /\ ip_tx_count' = udp_tx_count + 2
          /\ ip_result_reg' # "ERR" /\ ~mac_lookup_req'
      BY <1>1, <1>4, <2>1, <3>1, <3>2 DEF I!EndData, I!SendData, I!StallData
    <3>4. U!SendHeader
      BY <1>1, <2>3 DEF U!Clk, U!Idle, U!Pause, U!HeaderError, U!EndData, U!TakeByte,
                        U!SendData, U!StallData
    <3>5. /\ ip_tx_start_reg'
          /\ IF udp_tx_count = UDP_HDR_BYTES - 1
             THEN udp_tx_state' = "SEND_USER_DATA" /\ udp_tx_count' = 1
             ELSE udp_tx_state' = "SEND_UDP_HDR" /\ udp_tx_count' = udp_tx_count + 1
      BY <1>1, <2>3, <3>4 DEF U!SendHeader
    <3>6. CASE udp_tx_count = UDP_HDR_BYTES - 1
      <4>1. ip_tx_count' = udp_tx_count' + UDP_HDR_BYTES /\ udp_tx_count' \in 1..Length
        BY <3>3, <3>5, <3>6
      <4> QED
        BY <1>2, <3>3, <3>5, <3>6, <4>1 DEF Sending, NeedsChannel
    <3>7. CASE udp_tx_count # UDP_HDR_BYTES - 1
      <4>1. ip_tx_count' = udp_tx_count' + 1 /\ udp_tx_count' \in 0..(UDP_HDR_BYTES - 1)
        BY <3>1, <3>3, <3>5, <3>7
      <4> QED
        BY <1>2, <3>3, <3>5, <3>7, <4>1 DEF Sending, NeedsChannel
    <3> QED
      BY <3>6, <3>7
  <2>4. CASE ip_tx_data_out_ready /\ udp_tx_state = "SEND_USER_DATA"
    <3>1. udp_tx_count \in 1..Length /\ ip_tx_count = udp_tx_count + UDP_HDR_BYTES
      BY <1>4, <2>4 DEF Sending
    <3>2. U!TakeByte /\ (U!EndData \/ U!SendData)
      BY <1>1, <2>4 DEF U!Clk, U!Idle, U!Pause, U!HeaderError, U!SendHeader, U!TakeByte,
                        U!StallData, Offered
    <3>3. /\ I!TakeByte
          /\ I!EndOfPacket <=> udp_tx_count = Length
      <4>1. I!TakeByte
        BY <1>4, <2>4 DEF I!TakeByte, U!ip_tx_data_out_valid, ip_tx_data_out_ready, Offered
      <4>2. U!ip_tx_data_out_last <=> udp_tx_count = Length
        BY <2>4 DEF U!ip_tx_data_out_last, Offered
      <4>3. U!total_length = Length + UDP_HDR_BYTES
        BY DEF U!total_length
      <4>4. ip_tx_count = Length + UDP_HDR_BYTES <=> udp_tx_count = Length
        BY <3>1
      <4> QED
        BY <4>1, <4>2, <4>3, <4>4 DEF I!EndOfPacket
    <3>4. CASE udp_tx_count = Length
      <4>1. udp_tx_state' = "IDLE" /\ ~ip_tx_start_reg'
        BY <3>2, <3>4 DEF U!EndData, U!SendData
      <4>2. ip_tx_state' = "IDLE" /\ ~mac_lookup_req'
        BY <1>1, <2>1, <3>3, <3>4 DEF I!EndData, I!SendData, I!StallData
      <4> QED
        BY <1>2, <4>1, <4>2 DEF Rest
    <3>5. CASE udp_tx_count # Length
      <4>1. /\ udp_tx_state' = "SEND_USER_DATA" /\ ip_tx_start_reg'
            /\ udp_tx_count' = udp_tx_count + 1
        BY <1>1, <2>4, <3>2, <3>5 DEF U!EndData, U!SendData, Offered
      <4>2. /\ ip_tx_state' = "SEND_USER_DATA" /\ ip_tx_count' = ip_tx_count + 1
            /\ ip_result_reg' # "ERR" /\ ~mac_lookup_req'
        BY <1>1, <1>4, <2>1, <3>3, <3>5 DEF I!EndData, I!SendData, I!StallData
      <4>3. ip_tx_count' = udp_tx_count' + UDP_HDR_BYTES /\ udp_tx_count' \in 1..Length
        BY <3>1, <3>5, <4>1, <4>2
      <4> QED
        BY <1>2, <4>1, <4>2, <4>3 DEF Sending, NeedsChannel
    <3> QED
      BY <3>4, <3>5
  <2> QED
    BY <2>2, <2>3, <2>4 DEF Sending
<1> QED
  BY <1>3, <1>4

LEMMA FailingStep ==
    ASSUME StageInv, ChannelInv, Next, Failing PROVE Failing' \/ Rest'
<1> USE SharingAssumption
<1>1. /\ Q!Clk /\ U!Clk /\ I!Clk /\ Start /\ dst_ip_addr # BroadcastHost
  BY DEF Next, ChannelInv
<1>2. CASE udp_tx_state = "SEND_UDP_HDR"
  <2>1. /\ ip_tx_state = "IDLE" /\ req_state = "PAUSE2" /\ timeout_reg /\ ~cache_valid
        /\ ip_result_reg = "ERR" /\ ip_tx_start_reg /\ ~mac_lookup_req
    BY <1>2 DEF Failing
  <2>2. U!HeaderError
    BY <1>1, <1>2, <2>1 DEF U!Clk, U!Idle, U!Pause, U!SendHeader, U!EndData, U!TakeByte,
                            U!SendData, U!StallData
  <2>3. udp_tx_state' = "IDLE" /\ ~ip_tx_start_reg'
    BY <2>2 DEF U!HeaderError
  <2>4. I!Start
    BY <1>1, <2>1 DEF I!Clk, I!Idle, I!WaitMac, I!WaitChn, I!SendEthHdr, I!SendIpHdr, I!EndData,
                      I!EndOfPacket, I!TakeByte, I!SendData, I!StallData
  <2>5. ~(U!total_length > Length + UDP_HDR_BYTES)
    BY DEF U!total_length
  <2>6. ip_tx_state' = "WAIT_MAC" /\ mac_lookup_req'
    BY <1>1, <2>4, <2>5 DEF I!Start
  <2>7. req_state' = "PAUSE3" /\ timeout_reg' /\ ~cache_valid'
    BY <1>1, <2>1, ResolutionFails
  <2>8. ~udp_tx_start'
    <3>1. udp_result_reg = "SENDING"
      BY <1>2 DEF StageInv
    <3>2. U!udp_tx_result = "SENDING"
      BY <2>1, <3>1 DEF U!udp_tx_result
    <3> QED
      BY <1>1, <1>2, <3>2 DEF Start
  <2> QED
    BY <2>3, <2>6, <2>7, <2>8 DEF Failing
<1>3. CASE udp_tx_state = "IDLE"
  <2>1. /\ ip_tx_state = "WAIT_MAC" /\ ~ip_tx_start_reg /\ timeout_reg /\ ~cache_valid
        /\ \/ req_state = "PAUSE3" /\ mac_lookup_req /\ ~udp_tx_start
           \/ req_state = "IDLE" /\ ~mac_lookup_req
    BY <1>3 DEF Failing
  <2>2. U!Idle
    BY <1>1, <1>3 DEF U!Clk, U!Pause, U!HeaderError, U!SendHeader, U!EndData, U!TakeByte,
                      U!SendData, U!StallData
  <2>3. I!WaitMac
    BY <1>1, <2>1 DEF I!Clk, I!Idle, I!Start, I!WaitChn, I!SendEthHdr, I!SendIpHdr, I!EndData,
                      I!EndOfPacket, I!TakeByte, I!SendData, I!StallData
  <2>4. /\ ~Q!got_mac /\ (Q!got_err <=> ~mac_lookup_req)
        /\ timeout_reg' /\ ~cache_valid' /\ req_state' = "IDLE"
    BY <1>1, <2>1, ResolutionFails
  <2>5. CASE mac_lookup_req
    <3>1. ip_tx_state' = "WAIT_MAC" /\ ~mac_lookup_req'
      BY <2>1, <2>3, <2>4, <2>5 DEF I!WaitMac
    <3>2. udp_tx_state' = "IDLE" /\ ~ip_tx_start_reg'
      BY <1>3, <2>1, <2>2, <2>5 DEF U!Idle
    <3> QED
      BY <2>4, <3>1, <3>2 DEF Failing
  <2>6. CASE ~mac_lookup_req
    <3>1. ip_tx_state' = "IDLE" /\ ~mac_lookup_req'
      BY <2>1, <2>3, <2>4, <2>6 DEF I!WaitMac
    <3>2. /\ udp_tx_state' \in {"IDLE", "PAUSE"} /\ udp_tx_count' = 0
          /\ (ip_tx_start_reg' <=> udp_tx_state' = "PAUSE")
      BY <1>3, <2>1, <2>2 DEF U!Idle
    <3> QED
      BY <2>4, <3>1, <3>2 DEF Rest
  <2> QED
    BY <2>5, <2>6
<1> QED
  BY <1>2, <1>3 DEF Failing

\* While UDP_TX is not idle its result says that it is sending.
LEMMA ResultStep ==
    ASSUME StageInv, U!Clk PROVE udp_tx_state' # "IDLE" => udp_result_reg' = "SENDING"
<1>1. CASE U!Idle
  BY <1>1 DEF U!Idle
<1>2. CASE U!Pause
  BY <1>2 DEF U!Pause, StageInv
<1>3. CASE U!HeaderError
  BY <1>3 DEF U!HeaderError
<1>4. CASE U!SendHeader
  BY <1>4 DEF U!SendHeader, StageInv
<1>5. CASE U!EndData
  BY <1>5 DEF U!EndData
<1>6. CASE U!SendData
  BY <1>6 DEF U!SendData, U!TakeByte, StageInv
<1>7. CASE U!StallData
  BY <1>7 DEF U!StallData, U!vars, StageInv
<1> QED
  BY <1>1, <1>2, <1>3, <1>4, <1>5, <1>6, <1>7 DEF U!Clk

LEMMA StageStep == StageInv /\ ChannelInv /\ [Next]_vars => StageInv'
<1> SUFFICES ASSUME StageInv, ChannelInv, [Next]_vars PROVE StageInv'
  OBVIOUS
<1>1. CASE Next
  <2>1. (Rest \/ Resolving \/ Sending \/ Failing)'
    BY <1>1, RestStep, ResolvingStep, SendingStep, FailingStep DEF StageInv
  <2>2. udp_tx_state' # "IDLE" => udp_result_reg' = "SENDING"
    BY <1>1, ResultStep DEF Next
  <2> QED
    BY <2>1, <2>2 DEF StageInv
<1>2. CASE UNCHANGED vars
  BY <1>2 DEF vars, udpVars, ipVars, reqVars, envVars, StageInv, Rest, Resolving, Sending, Failing
<1> QED
  BY <1>1, <1>2

\* The three agree on the stage of a datagram in every reachable state.
THEOREM StageInvariant == Spec => []StageInv
<1>1. ChannelInv /\ StageInv /\ [Next]_vars => StageInv'
  BY StageStep
<1> QED
  BY <1>1, InitStage, ChannelInvariant, PTL DEF Spec

\* No frame is sent for a datagram UDP_TX has already given up or reported as sent
\* (arp_REQ.vhd, IPv4_TX.vhd, UDP_TX.vhd).
THEOREM FailedDatagramsAreNotSent == Spec => []FailedIsNotSent
<1>1. StageInv => FailedIsNotSent
  BY DEF StageInv, Rest, Resolving, Sending, Failing, NeedsChannel, FailedIsNotSent, IpSending
<1> QED
  BY <1>1, StageInvariant, PTL

\* What UDP_TX reports is what IPv4_TX did: "SENT" in the cycle in which the packet
\* of the full length ends, and an error only after an error below.
ResultIsTrue ==
    [][udp_tx_state # "IDLE" /\ udp_tx_state' = "IDLE" =>
         \/ udp_result_reg' = "SENT" /\ ip_result_reg' = "SENT" /\ IpSending
         \/ udp_result_reg' = "ERR" /\ ip_result_reg = "ERR" /\ ~IpSending]_vars

\* Every datagram is reported as what became of it (UDP_TX.vhd, IPv4_TX.vhd).
THEOREM ResultsAreTrue == Spec => ResultIsTrue
<1> DEFINE Ended == udp_tx_state # "IDLE" /\ udp_tx_state' = "IDLE"
           Told == \/ udp_result_reg' = "SENT" /\ ip_result_reg' = "SENT" /\ IpSending
                   \/ udp_result_reg' = "ERR" /\ ip_result_reg = "ERR" /\ ~IpSending
<1>1. StageInv /\ ChannelInv /\ [Next]_vars => [Ended => Told]_vars
  <2> SUFFICES ASSUME StageInv, Next, Ended PROVE Told
    OBVIOUS
  <2>1. U!Clk /\ I!Clk
    BY DEF Next
  <2>2. CASE U!HeaderError
    <3>1. udp_result_reg' = "ERR" /\ ip_result_reg = "ERR" /\ udp_tx_state = "SEND_UDP_HDR"
      BY <2>2 DEF U!HeaderError
    <3>2. Failing
      BY <3>1 DEF StageInv, Rest, Resolving, Sending
    <3> QED
      BY <3>1, <3>2 DEF Failing, IpSending
  <2>3. CASE U!EndData
    <3>1. udp_tx_state = "SEND_USER_DATA" /\ ip_tx_data_out_ready
      BY <2>3 DEF U!EndData, U!TakeByte
    <3>2. Sending /\ ip_tx_state = "SEND_USER_DATA"
      BY <3>1 DEF StageInv, Rest, Resolving, Sending, Failing
    <3>3. udp_tx_count \in 1..Length /\ ip_tx_count = udp_tx_count + UDP_HDR_BYTES
      BY <3>1, <3>2 DEF Sending
    <3>4. udp_tx_count = Length /\ udp_result_reg' = "SENT"
      BY <2>3, <3>1 DEF U!EndData, Offered
    <3>5. U!total_length = Length + UDP_HDR_BYTES
      BY DEF U!total_length
    <3>6. ip_tx_count = U!total_length
      BY <3>3, <3>4, <3>5
    <3>7. I!EndOfPacket
      BY <3>1, <3>2, <3>6 DEF I!EndOfPacket, I!TakeByte, U!ip_tx_data_out_valid,
                              ip_tx_data_out_ready, Offered
    <3>8. I!EndData
      BY <2>1, <3>2, <3>7 DEF I!Clk, I!Idle, I!Start, I!WaitMac, I!WaitChn, I!SendEthHdr,
                              I!SendIpHdr, I!SendData, I!StallData, I!EndOfPacket
    <3>9. ip_result_reg' = "SENT"
      BY <3>6, <3>8 DEF I!EndData
    <3> QED
      BY <3>2, <3>4, <3>9 DEF IpSending
  <2> QED
    BY <2>1, <2>2, <2>3 DEF U!Clk, U!Idle, U!Pause, U!SendHeader, U!SendData, U!TakeByte,
                            U!StallData, U!vars
<1> QED
  BY <1>1, StageInvariant, ChannelInvariant, PTL DEF Spec, ResultIsTrue
=============================================================================
