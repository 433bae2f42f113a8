-------------------------------- MODULE ArpReq --------------------------------
(***************************************************************************)
(* The address resolution of the board, arp_REQ.vhd: it finds the MAC of   *)
(* an IP address in its cache of one entry, in the store or by asking the  *)
(* network.  One step is one rising clock edge.  An entry is named by the  *)
(* host it belongs to, which stands for its IP address and its MAC.  The   *)
(* timer that counts seconds is an input that says when it is over.        *)
(***************************************************************************)
EXTENDS Integers

CONSTANTS
    Host,               \* hosts of the network
    ZeroHost,           \* the address 0.0.0.0 of the registers after a reset
    ARP_MAX_PKT_TMO     \* entries of others that are accepted before giving up (5)

VARIABLES
    req_state, req_ip_addr, arp_entry_cache, cache_valid, nwk_rx_cntr, timeout_reg

VARIABLES               \* inputs
    lookup_req, lookup_ip,
    store_status,       \* "BUSY", "FOUND" or "NOT_FOUND"
    nwk_received,       \* [got, entry]: an entry has come in from the network
    timer_over

vars == <<req_state, req_ip_addr, arp_entry_cache, cache_valid, nwk_rx_cntr, timeout_reg>>

State == {"IDLE", "LOOKUP", "WAIT_REPLY", "PAUSE1", "PAUSE2", "PAUSE3"}

-----------------------------------------------------------------------------
InCache == cache_valid /\ arp_entry_cache = lookup_ip
Found == req_state = "LOOKUP" /\ store_status = "FOUND"
Received == req_state = "WAIT_REPLY" /\ nwk_received.got
Answered == Received /\ nwk_received.entry = req_ip_addr

\* The answer: got_mac is a level, held off while the lookup is asked for.
got_mac == Found \/ Answered \/ IF lookup_req THEN InCache ELSE cache_valid
got_err == ~lookup_req /\ timeout_reg
mac == IF Found \/ Answered THEN req_ip_addr ELSE arp_entry_cache

\* The question to the network.
nwk_req == req_state = "LOOKUP" /\ store_status = "NOT_FOUND"

-----------------------------------------------------------------------------
Init == /\ req_state = "IDLE" /\ req_ip_addr = ZeroHost
        /\ arp_entry_cache = ZeroHost /\ cache_valid = FALSE
        /\ nwk_rx_cntr = 0 /\ timeout_reg = FALSE

Idle == /\ req_state = "IDLE" /\ ~(lookup_req /\ ~InCache)
        /\ UNCHANGED vars

StartLookup == /\ req_state = "IDLE" /\ lookup_req /\ ~InCache
               /\ req_state' = "LOOKUP" /\ req_ip_addr' = lookup_ip
               /\ cache_valid' = FALSE /\ timeout_reg' = FALSE
               /\ UNCHANGED <<arp_entry_cache, nwk_rx_cntr>>

Lookup == /\ req_state = "LOOKUP"
          /\ \/ /\ store_status = "FOUND"
                /\ req_state' = "IDLE"
                /\ arp_entry_cache' = req_ip_addr /\ cache_valid' = TRUE
                /\ UNCHANGED nwk_rx_cntr
             \/ /\ store_status = "NOT_FOUND"
                /\ req_state' = "WAIT_REPLY" /\ nwk_rx_cntr' = 0
                /\ UNCHANGED <<arp_entry_cache, cache_valid>>
             \/ /\ store_status = "BUSY"
                /\ UNCHANGED <<req_state, arp_entry_cache, cache_valid, nwk_rx_cntr>>
          /\ UNCHANGED <<req_ip_addr, timeout_reg>>

\* Whatever entry comes in goes to the cache and is valid there.
Receive == /\ Received
           /\ arp_entry_cache' = nwk_received.entry /\ cache_valid' = TRUE
           /\ IF nwk_received.entry = req_ip_addr
              THEN req_state' = "IDLE" /\ UNCHANGED <<nwk_rx_cntr, timeout_reg>>
              ELSE IF nwk_rx_cntr > ARP_MAX_PKT_TMO
              THEN req_state' = "IDLE" /\ timeout_reg' = TRUE /\ UNCHANGED nwk_rx_cntr
              ELSE nwk_rx_cntr' = nwk_rx_cntr + 1 /\ UNCHANGED <<req_state, timeout_reg>>
           /\ UNCHANGED req_ip_addr

WaitReply == /\ req_state = "WAIT_REPLY" /\ ~Received
             /\ IF timer_over THEN req_state' = "PAUSE1" /\ timeout_reg' = TRUE
                ELSE UNCHANGED <<req_state, timeout_reg>>
             /\ UNCHANGED <<req_ip_addr, arp_entry_cache, cache_valid, nwk_rx_cntr>>

\* Mutated: no pause after an error.
Pause_None == /\ req_state \in {"PAUSE1", "PAUSE2", "PAUSE3"} /\ req_state' = "IDLE"
              /\ UNCHANGED <<req_ip_addr, arp_entry_cache, cache_valid, nwk_rx_cntr, timeout_reg>>

\* Three cycles in which a lookup is not heard: the IP transmitter starts once more
\* before its start is taken back, and is to see the error again.
Pause == /\ req_state \in {"PAUSE1", "PAUSE2", "PAUSE3"}
         /\ req_state' = CASE req_state = "PAUSE1" -> "PAUSE2"
                           [] req_state = "PAUSE2" -> "PAUSE3"
                           [] req_state = "PAUSE3" -> "IDLE"
         /\ UNCHANGED <<req_ip_addr, arp_entry_cache, cache_valid, nwk_rx_cntr, timeout_reg>>

Clk == Idle \/ StartLookup \/ Lookup \/ Receive \/ WaitReply \/ Pause
=============================================================================
