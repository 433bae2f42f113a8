-------------------------------- MODULE ArpTx --------------------------------
(***************************************************************************)
(* The ARP transmitter of the board, arp_TX.vhd.  It sends answers ("I     *)
(* have") and questions ("who has") that are asked for by pulses.  One     *)
(* step is one rising clock edge.  The bytes of a frame are only counted.  *)
(***************************************************************************)
EXTENDS Integers

CONSTANTS
    ZeroHost,       \* address of the registers after a reset
    ARP_BYTES       \* length of an ARP frame (42)

VARIABLES
    tx_state, tx_count, tx_mac_chn_reqd,
    send_I_have_reg, I_have_target, send_who_has_reg, who_has_target,
    tx_mode, target

VARIABLES           \* inputs
    send_I_have, arp_entry, send_who_has, ip_entry, mac_tx_granted, data_out_ready

vars == <<tx_state, tx_count, tx_mac_chn_reqd, send_I_have_reg, I_have_target,
          send_who_has_reg, who_has_target, tx_mode, target>>

State == {"IDLE", "WAIT_MAC", "SEND"}

-----------------------------------------------------------------------------
data_out_valid == tx_state = "SEND" /\ data_out_ready /\ tx_count < ARP_BYTES
data_out_last == tx_state = "SEND" /\ tx_count = ARP_BYTES - 1

Answering == tx_state = "IDLE" /\ send_I_have_reg
Asking == tx_state = "IDLE" /\ ~send_I_have_reg /\ send_who_has_reg

Init == /\ tx_state = "IDLE" /\ tx_count = 0 /\ tx_mac_chn_reqd = FALSE
        /\ send_I_have_reg = FALSE /\ send_who_has_reg = FALSE
        /\ I_have_target = ZeroHost /\ who_has_target = ZeroHost
        /\ target = ZeroHost /\ tx_mode = "REPLY"

\* Pulses are latched in every state, but taking up an earlier one clears the latch.
Latch ==
    /\ send_I_have_reg' = IF Answering THEN FALSE ELSE send_I_have_reg \/ send_I_have
    /\ I_have_target' = IF send_I_have /\ ~Answering THEN arp_entry ELSE I_have_target
    /\ send_who_has_reg' = IF Asking THEN FALSE ELSE send_who_has_reg \/ send_who_has
    /\ who_has_target' = IF send_who_has /\ ~Asking THEN ip_entry ELSE who_has_target

Idle == /\ tx_state = "IDLE" /\ ~Answering /\ ~Asking
        /\ tx_count' = 0 /\ tx_mac_chn_reqd' = FALSE
        /\ UNCHANGED <<tx_state, tx_mode, target>>

TakeUp == /\ Answering \/ Asking
          /\ tx_state' = "WAIT_MAC" /\ tx_mac_chn_reqd' = TRUE /\ tx_count' = 0
          /\ tx_mode' = IF Answering THEN "REPLY" ELSE "REQUEST"
          /\ target' = IF Answering THEN I_have_target ELSE who_has_target

WaitMac == /\ tx_state = "WAIT_MAC"
           /\ tx_count' = 0
           /\ tx_state' = IF mac_tx_granted THEN "SEND" ELSE tx_state
           /\ UNCHANGED <<tx_mac_chn_reqd, tx_mode, target>>

Send == /\ tx_state = "SEND"
        /\ tx_count' = IF data_out_ready THEN tx_count + 1 ELSE tx_count
        /\ tx_state' = IF tx_count >= ARP_BYTES THEN "IDLE" ELSE tx_state
        /\ UNCHANGED <<tx_mac_chn_reqd, tx_mode, target>>

Clk == Latch /\ (Idle \/ TakeUp \/ WaitMac \/ Send)
=============================================================================
