--------------------------- MODULE MCRegisterControl ---------------------------
(***************************************************************************)
(* RegisterControl alone, driven by a bus master that does what the reply  *)
(* engine does: accesses of one clock cycle with a pause after each, and   *)
(* bulk transfers with a read enable in any cycle.  The device writes to   *)
(* the fifo whenever it likes.                                             *)
(***************************************************************************)
EXTENDS RegisterControl, FiniteSets

CONSTANTS
    Addresses,      \* registers the bus master accesses
    Writes,         \* values it writes
    DeviceWords,    \* words the device puts into the fifo
    MaxWords        \* bound: words that go into the fifo

ASSUME DriverAssumption ==
    /\ Addresses \subseteq RA /\ Writes \subseteq Value
    /\ DeviceWords \subseteq Value /\ MaxWords \in Nat

VARIABLES
    last_write,     \* by address: the value of the last write access
    last_access,    \* what was read or written in the last bus cycle
    stored,         \* words that went into the fifo, as the writer saw it
    counted,        \* the positions in stored of the words of the fill counter
    taken           \* words that came out of it, as the bus master saw them

inputs == <<REG_EN, REG_WR, REG_ADDR, REG_DATA, REG_BLK_EN, REG_BLK_RDEN,
            SPILL_ACTIVE, REG_DEV_STATUS>>
history == <<last_write, last_access, stored, counted, taken>>
allVars == <<vars, inputs, history>>

Pause == /\ REG_EN' = FALSE /\ REG_WR' = FALSE /\ REG_BLK_EN' = FALSE
         /\ REG_BLK_RDEN' = FALSE
         /\ REG_ADDR' = "NONE" /\ REG_DATA' = 0
ReadAccess == /\ ~REG_EN /\ ~REG_BLK_EN
              /\ REG_EN' = TRUE /\ REG_WR' = FALSE /\ REG_BLK_EN' = FALSE
              /\ REG_BLK_RDEN' = FALSE
              /\ REG_ADDR' \in Addresses /\ REG_DATA' = 0
WriteAccess == /\ ~REG_EN /\ ~REG_BLK_EN
               /\ REG_EN' = TRUE /\ REG_WR' = TRUE /\ REG_BLK_EN' = FALSE
               /\ REG_BLK_RDEN' = FALSE
               /\ REG_ADDR' \in Addresses /\ REG_DATA' \in Writes
BulkCycle == /\ ~REG_EN
             /\ REG_EN' = FALSE /\ REG_WR' = FALSE /\ REG_BLK_EN' = TRUE
             /\ REG_BLK_RDEN' \in BOOLEAN
             /\ REG_ADDR' = "NONE" /\ REG_DATA' = 0

BusMaster == Pause \/ ReadAccess \/ WriteAccess \/ BulkCycle

\* What the bus master and the device see of the fifo.
Record ==
    /\ last_write' = IF REG_EN /\ REG_WR THEN [last_write EXCEPT ![REG_ADDR] = REG_DATA]
                     ELSE last_write
    /\ last_access' = [read |-> IF REG_EN /\ ~REG_WR THEN REG_ADDR ELSE "NONE",
                       written |-> IF REG_EN /\ REG_WR THEN REG_ADDR ELSE "NONE"]
    /\ taken' =
         IF REG_EN /\ ~REG_WR /\ REG_ADDR = "BULK_DATA" /\ REG_VALID
         THEN Append(taken, REG_DATA_OUT)
         ELSE IF REG_BLK_EN /\ REG_BLK_RDEN /\ ~REG_BLK_EMPTY
         THEN Append(taken, REG_BLK_DOUT)
         ELSE taken
    /\ UNCHANGED <<stored, counted>>

MCInit ==
    /\ Init
    /\ REG_EN = FALSE /\ REG_WR = FALSE /\ REG_BLK_EN = FALSE /\ REG_BLK_RDEN = FALSE
    /\ REG_ADDR = "NONE" /\ REG_DATA = 0
    /\ SPILL_ACTIVE = FALSE /\ REG_DEV_STATUS = [d \in Device |-> 0]
    /\ last_write = [a \in RA |-> IF a = "LED_KNIGHT_RIDER" THEN 5 ELSE 0]
    /\ last_access = [read |-> "NONE", written |-> "NONE"]
    /\ stored = <<>> /\ counted = {} /\ taken = <<>>

BusClock == Clk /\ BusMaster /\ Record /\ UNCHANGED <<SPILL_ACTIVE, REG_DEV_STATUS>>

\* What the writer sees: a word goes in unless the fifo is full.
FifoClock ==
    \E wren \in BOOLEAN, word \in DeviceWords :
        LET fill == r_dev0_fifo_fillType = 1
            written == (fill \/ wren) /\ Len(dev0_fifo) < FifoDepth
        IN /\ Len(stored) < MaxWords
           /\ FifoClk(wren, word)
           /\ stored' = IF written
                        THEN Append(stored, IF fill THEN dev0_fifo_fill_ctr ELSE word)
                        ELSE stored
           /\ counted' = IF written /\ fill THEN counted \cup {Len(stored) + 1}
                         ELSE counted
           /\ UNCHANGED <<inputs, last_write, last_access, taken>>

MCSpec == MCInit /\ [][BusClock \/ FifoClock]_allVars

-----------------------------------------------------------------------------
TypeOK ==
    /\ r_led_config \in 0..31 /\ r_led_knight_rider \in 0..31 /\ r_spill_active \in 0..1
    /\ r_dev0_fifo_fillType \in 0..7
    /\ r_dev_config \in [Device -> Value]
    /\ r_dev_cfg_wr \in [Device -> BOOLEAN] /\ r_dev_st_rd \in [Device -> BOOLEAN]
    /\ dev0_fifo \in Seq(Nat) /\ Len(dev0_fifo) <= FifoDepth
    /\ dev0_fifo_fill_ctr \in Nat
    /\ dev0_fifo_single_read_d1 \in BOOLEAN

\* No word is lost, invented, reordered or handed out twice on its way from the
\* device or the fill counter to the bus master, whether it is read through the
\* data register or in bulk, and whatever the two clocks do.
NoWordLost == stored = taken \o dev0_fifo

\* The fill counter numbers the words it stores without a gap, although it stands
\* still whenever the fifo is full and the device may store words in between: each
\* of its words says how many of its words went before.
FillCounterHasNoGap ==
    /\ dev0_fifo_fill_ctr = Cardinality(counted)
    /\ \A i \in counted : stored[i] = Cardinality({j \in counted : j < i})

\* A device is told of a write to its configuration exactly once per write, and it
\* then finds in the configuration the value of that write.
ConfigIsThereWhenAnnounced ==
    \A d \in Device :
        /\ r_dev_cfg_wr[d] <=> last_access.written = ConfigOf[d]
        /\ r_dev_cfg_wr[d] => r_dev_config[d] = last_write[ConfigOf[d]]
=============================================================================
