--------------------------- MODULE RegisterControl ---------------------------
(***************************************************************************)
(* The register file and the DAQ fifo of the board, register_control.vhd.  *)
(* Clk is one rising edge of the 125 MHz clock, FifoClk one of the MMCM    *)
(* clock that fills the fifo; the two clocks are not related.  The inputs  *)
(* are variables this module never changes.  The asynchronous reset is not *)
(* modelled beyond the initial state.                                      *)
(*                                                                         *)
(* Registers with the same behaviour share one address: the 31 lower MMCM  *)
(* registers and the last one, one config and one status register for each *)
(* of the two devices, and "NONE" for the addresses nobody decodes.        *)
(***************************************************************************)
EXTENDS Integers, Sequences

CONSTANTS
    Value,          \* register contents and DAQ words
    FifoDepth,      \* words the DAQ fifo holds (65536)
    CountLag        \* words the read side of the fifo does not count yet

ASSUME RegisterAssumption ==
    /\ 0 \in Value /\ Value \subseteq Nat
    /\ FifoDepth \in Nat \ {0} /\ CountLag \in Nat

Device == {"DEV0", "DEV1"}
RA == {"LED_REG", "LED_KNIGHT_RIDER", "SPILL_ACTIVE", "MMCM", "MMCM_LAST",
       "BULK_DATA", "BULK_DATA_COUNT", "BULK_DATA_FILL",
       "DEV0_CONFIG", "DEV0_STATUS", "DEV1_CONFIG", "DEV1_STATUS", "NONE"}
ConfigOf == [DEV0 |-> "DEV0_CONFIG", DEV1 |-> "DEV1_CONFIG"]
StatusOf == [DEV0 |-> "DEV0_STATUS", DEV1 |-> "DEV1_STATUS"]

VARIABLES
    r_led_config, r_led_knight_rider, r_spill_active, r_dev0_fifo_fillType,
    r_dev_config, r_dev_cfg_wr, r_dev_st_rd,    \* by device
    mmcm_reg,                                   \* by address
    dev0_fifo, dev0_fifo_fill_ctr, dev0_fifo_single_read_d1,
    single_register_read_delayed, single_register_write_delayed

VARIABLES           \* inputs
    REG_EN, REG_WR, REG_ADDR, REG_DATA, REG_BLK_EN, REG_BLK_RDEN,
    SPILL_ACTIVE,   \* or the push button
    REG_DEV_STATUS  \* by device

registers == <<r_led_config, r_led_knight_rider, r_spill_active, r_dev0_fifo_fillType,
               r_dev_config, r_dev_cfg_wr, r_dev_st_rd, mmcm_reg,
               dev0_fifo_single_read_d1, single_register_read_delayed,
               single_register_write_delayed>>
vars == <<registers, dev0_fifo, dev0_fifo_fill_ctr>>

-----------------------------------------------------------------------------
single_register_read == REG_EN /\ ~REG_WR
single_register_write == REG_EN /\ REG_WR
single_register_read_strobe == single_register_read /\ ~single_register_read_delayed
single_register_write_strobe == single_register_write /\ ~single_register_write_delayed

\* The DAQ fifo: first word fall through, so its output is its first word.
dev0_fifo_empty == dev0_fifo = <<>>
dev0_fifo_full == Len(dev0_fifo) >= FifoDepth
dev0_fifo_dout == IF dev0_fifo_empty THEN 0 ELSE Head(dev0_fifo)
dev0_fifo_count == IF Len(dev0_fifo) > CountLag THEN Len(dev0_fifo) - CountLag ELSE 0

dev0_fifo_single_read ==
    single_register_read /\ REG_ADDR = "BULK_DATA" /\ ~dev0_fifo_empty
\* Mutated: reading the data register leaves the word in the fifo.
dev0_fifo_rden_BulkOnly == ~dev0_fifo_empty /\ REG_BLK_EN /\ REG_BLK_RDEN
dev0_fifo_rden ==
    /\ ~dev0_fifo_empty
    /\ \/ REG_BLK_EN /\ REG_BLK_RDEN
       \/ dev0_fifo_single_read /\ ~dev0_fifo_single_read_d1

\* Outputs of the bulk transfer.
REG_BLK_DOUT == IF REG_BLK_EN THEN dev0_fifo_dout ELSE 0
REG_BLK_COUNT == IF REG_BLK_EN THEN dev0_fifo_count ELSE 0
REG_BLK_EMPTY == REG_BLK_EN /\ dev0_fifo_empty
REG_BLK_VALID == REG_BLK_EN

\* Outputs of the register read.
REG_VALID ==
    /\ single_register_read
    /\ \/ REG_ADDR \in {"LED_REG", "LED_KNIGHT_RIDER", "SPILL_ACTIVE",
                        "BULK_DATA_FILL", "BULK_DATA_COUNT"}
       \/ dev0_fifo_single_read
       \/ \E d \in Device : REG_ADDR \in {ConfigOf[d], StatusOf[d]}

REG_DATA_OUT ==
    IF ~single_register_read THEN 0
    ELSE CASE REG_ADDR = "LED_REG" -> r_led_config
           [] REG_ADDR = "LED_KNIGHT_RIDER" -> r_led_knight_rider
           [] REG_ADDR = "SPILL_ACTIVE" -> r_spill_active
           [] REG_ADDR = "BULK_DATA_FILL" -> r_dev0_fifo_fillType
           [] REG_ADDR = "BULK_DATA_COUNT" -> dev0_fifo_count
           [] REG_ADDR = "BULK_DATA" -> dev0_fifo_dout
           [] REG_ADDR \in {"MMCM", "MMCM_LAST"} -> mmcm_reg[REG_ADDR]
           [] \E d \in Device : REG_ADDR = ConfigOf[d] ->
                r_dev_config[CHOOSE d \in Device : REG_ADDR = ConfigOf[d]]
           [] \E d \in Device : REG_ADDR = StatusOf[d] ->
                REG_DEV_STATUS[CHOOSE d \in Device : REG_ADDR = StatusOf[d]]
           [] OTHER -> 0

\* The clock generator is started with the write of its last register.
mmcm_start == single_register_write /\ REG_ADDR = "MMCM_LAST"

-----------------------------------------------------------------------------
Init ==
    /\ r_led_config = 0 /\ r_led_knight_rider = 5 /\ r_spill_active = 0
    /\ r_dev0_fifo_fillType = 0
    /\ r_dev_config = [d \in Device |-> 0]
    /\ r_dev_cfg_wr = [d \in Device |-> FALSE] /\ r_dev_st_rd = [d \in Device |-> FALSE]
    /\ mmcm_reg = [a \in {"MMCM", "MMCM_LAST"} |-> 0]
    /\ dev0_fifo = <<>> /\ dev0_fifo_fill_ctr = 0 /\ dev0_fifo_single_read_d1 = FALSE
    /\ single_register_read_delayed = FALSE /\ single_register_write_delayed = FALSE

\* Mutated: fields keep all bits; both devices are told of every write.
WriteRegister_AllBits ==
    LET strobe(A) == single_register_write_strobe /\ REG_ADDR \in A
        config(d) == strobe({ConfigOf[d]})
    IN /\ r_led_config' = IF strobe({"LED_REG", "LED_KNIGHT_RIDER"})
                          THEN REG_DATA ELSE r_led_config
       /\ r_dev0_fifo_fillType' = IF strobe({"BULK_DATA_FILL"})
                                  THEN REG_DATA ELSE r_dev0_fifo_fillType
       /\ r_dev_config' = [d \in Device |-> IF config(d) THEN REG_DATA ELSE r_dev_config[d]]
       /\ r_dev_cfg_wr' = [d \in Device |-> strobe({ConfigOf[e] : e \in Device})]
       /\ UNCHANGED r_led_knight_rider

\* Both LED addresses write the LED configuration; fields are 5 and 3 bits wide.
WriteRegister ==
    LET strobe(A) == single_register_write_strobe /\ REG_ADDR \in A
        config(d) == strobe({ConfigOf[d]})
    IN /\ r_led_config' = IF strobe({"LED_REG", "LED_KNIGHT_RIDER"})
                          THEN REG_DATA % 32 ELSE r_led_config
       /\ r_dev0_fifo_fillType' = IF strobe({"BULK_DATA_FILL"})
                                  THEN REG_DATA % 8 ELSE r_dev0_fifo_fillType
       /\ r_dev_config' = [d \in Device |-> IF config(d) THEN REG_DATA ELSE r_dev_config[d]]
       /\ r_dev_cfg_wr' = [d \in Device |-> config(d)]
       /\ UNCHANGED r_led_knight_rider

\* The MMCM takes its registers on the level, not on the strobe.
WriteMmcm ==
    mmcm_reg' = [a \in DOMAIN mmcm_reg |->
                   IF single_register_write /\ REG_ADDR = a THEN REG_DATA ELSE mmcm_reg[a]]

\* A device is told that its status register has been read.  The notification
\* vector has the indices 0 to 126 and is addressed with 128 to 255: what such a
\* write does is up to the build.  (So is the word read from the status array,
\* whose indices are the same: REG_DEV_STATUS may be anything.)
NotifyStatusRead ==
    r_dev_st_rd' \in [Device -> BOOLEAN]
    /\ \A d \in Device :
         r_dev_st_rd'[d] => single_register_read_strobe /\ REG_ADDR = StatusOf[d]

Clk ==
    /\ WriteRegister /\ WriteMmcm /\ NotifyStatusRead
    /\ r_spill_active' = IF SPILL_ACTIVE THEN 1 ELSE 0
    /\ single_register_read_delayed' = single_register_read
    /\ single_register_write_delayed' = single_register_write
    /\ dev0_fifo_single_read_d1' = dev0_fifo_single_read
    /\ dev0_fifo' = IF dev0_fifo_rden THEN Tail(dev0_fifo) ELSE dev0_fifo
    /\ UNCHANGED dev0_fifo_fill_ctr

\* Mutated: the fill counter does not wait for the fifo.
FifoClk_CountsOn(BLK_DEV0_WREN, BLK_DEV0_DIN) ==
    LET fill == r_dev0_fifo_fillType = 1
        wren == (fill \/ BLK_DEV0_WREN) /\ ~dev0_fifo_full
        din == IF fill THEN dev0_fifo_fill_ctr ELSE BLK_DEV0_DIN
    IN /\ dev0_fifo' = IF wren THEN Append(dev0_fifo, din) ELSE dev0_fifo
       /\ dev0_fifo_fill_ctr' = IF fill THEN dev0_fifo_fill_ctr + 1 ELSE dev0_fifo_fill_ctr
       /\ UNCHANGED registers

\* The MMCM clock: the fill counter or the device (wren, din) fills the fifo.
FifoClk(BLK_DEV0_WREN, BLK_DEV0_DIN) ==
    LET fill == r_dev0_fifo_fillType = 1
        wren == (fill \/ BLK_DEV0_WREN) /\ ~dev0_fifo_full
        din == IF fill THEN dev0_fifo_fill_ctr ELSE BLK_DEV0_DIN
    IN /\ dev0_fifo' = IF wren THEN Append(dev0_fifo, din) ELSE dev0_fifo
       /\ dev0_fifo_fill_ctr' = IF fill /\ ~dev0_fifo_full THEN dev0_fifo_fill_ctr + 1
                                ELSE dev0_fifo_fill_ctr
       /\ UNCHANGED registers
=============================================================================
