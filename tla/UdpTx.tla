-------------------------------- MODULE UdpTx --------------------------------
(***************************************************************************)
(* The UDP transmitter of the board, UDP_TX.vhd.  One step is one rising   *)
(* clock edge.  The inputs come from the reply engine above and from the   *)
(* IP transmitter below, and are never changed here.  The bytes of the     *)
(* header are not told apart, only counted.                                *)
(***************************************************************************)
EXTENDS Integers

CONSTANTS
    MaxPayload,     \* longest user data of a datagram (1472)
    UDP_HDR_BYTES   \* 8

VARIABLES
    udp_tx_state, tx_count, tx_result_reg, ip_tx_start_reg

VARIABLES                       \* inputs
    udp_tx_start,
    udp_txi,                    \* [data_length, valid, byte, last]
    ip_tx_result, ip_tx_data_out_ready

vars == <<udp_tx_state, tx_count, tx_result_reg, ip_tx_start_reg>>

State == {"IDLE", "PAUSE", "SEND_UDP_HDR", "SEND_USER_DATA"}
Result == {"NONE", "SENDING", "ERR", "SENT"}

-----------------------------------------------------------------------------
\* The result of the previous datagram is hidden until the IP layer is started.
udp_tx_result == IF udp_tx_start /\ ~ip_tx_start_reg THEN "NONE" ELSE tx_result_reg
udp_tx_data_out_ready == udp_tx_state = "SEND_USER_DATA"

total_length == udp_txi.data_length + UDP_HDR_BYTES

\* A byte of user data that counts.
TakeByte == /\ udp_tx_state = "SEND_USER_DATA" /\ ip_tx_data_out_ready
            /\ udp_txi.valid \/ tx_count = 0

ip_tx_data_out_valid ==
    /\ ip_tx_data_out_ready
    /\ \/ udp_tx_state = "SEND_UDP_HDR"
       \/ udp_tx_state = "SEND_USER_DATA" /\ udp_txi.valid
ip_tx_data_out_last == udp_tx_state = "SEND_USER_DATA" /\ udp_txi.last

-----------------------------------------------------------------------------
Init == /\ udp_tx_state = "IDLE" /\ tx_count = 0
        /\ tx_result_reg = "NONE" /\ ip_tx_start_reg = FALSE

Idle == /\ udp_tx_state = "IDLE"
        /\ tx_count' = 0
        /\ IF ~udp_tx_start THEN UNCHANGED <<udp_tx_state, tx_result_reg, ip_tx_start_reg>>
           ELSE IF udp_txi.data_length > MaxPayload
           THEN tx_result_reg' = "ERR" /\ UNCHANGED <<udp_tx_state, ip_tx_start_reg>>
           ELSE /\ udp_tx_state' = "PAUSE"
                /\ tx_result_reg' = "SENDING" /\ ip_tx_start_reg' = TRUE

\* One cycle for the IP layer to see the start and to drop an old error.
Pause == /\ udp_tx_state = "PAUSE" /\ udp_tx_state' = "SEND_UDP_HDR"
         /\ UNCHANGED <<tx_count, tx_result_reg, ip_tx_start_reg>>

HeaderError == /\ udp_tx_state = "SEND_UDP_HDR" /\ ip_tx_result = "ERR"
               /\ udp_tx_state' = "IDLE"
               /\ tx_result_reg' = "ERR" /\ ip_tx_start_reg' = FALSE
               /\ UNCHANGED tx_count

SendHeader == /\ udp_tx_state = "SEND_UDP_HDR" /\ ip_tx_result # "ERR"
              /\ IF ~ip_tx_data_out_ready THEN UNCHANGED <<udp_tx_state, tx_count>>
                 ELSE IF tx_count = UDP_HDR_BYTES - 1
                 THEN udp_tx_state' = "SEND_USER_DATA" /\ tx_count' = 1
                 ELSE tx_count' = tx_count + 1 /\ UNCHANGED udp_tx_state
              /\ UNCHANGED <<tx_result_reg, ip_tx_start_reg>>

\* The datagram ends with its count, or with an error if the user data ends first.
EndData == /\ TakeByte
           /\ tx_count = udp_txi.data_length \/ udp_txi.last
           /\ udp_tx_state' = "IDLE" /\ ip_tx_start_reg' = FALSE
           /\ tx_result_reg' = IF tx_count = udp_txi.data_length THEN "SENT" ELSE "ERR"
           /\ UNCHANGED tx_count

SendData == /\ TakeByte
            /\ tx_count # udp_txi.data_length /\ ~udp_txi.last
            /\ tx_count' = tx_count + 1
            /\ UNCHANGED <<udp_tx_state, tx_result_reg, ip_tx_start_reg>>

\* The IP layer is not ready: the reply engine is not told, so its byte is lost.
StallData == /\ udp_tx_state = "SEND_USER_DATA" /\ ~TakeByte
             /\ UNCHANGED vars

Clk == Idle \/ Pause \/ HeaderError \/ SendHeader \/ EndData \/ SendData \/ StallData
=============================================================================
