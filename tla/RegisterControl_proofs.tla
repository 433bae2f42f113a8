------------------------ MODULE RegisterControl_proofs ------------------------
(***************************************************************************)
(* What holds of the register file and the DAQ fifo for every depth of the *)
(* fifo, every set of registers and values the bus master accesses, every  *)
(* word of the device and every interleaving of the two clocks.            *)
(*                                                                         *)
(* The hinge is OneCycleAccess: an access of the bus master lasts one      *)
(* cycle, so what the register file remembers of the cycle before is never *)
(* up together with a new access.  A strobe is then the access itself, and *)
(* a read of the data register takes its word when it hands it out.        *)
(***************************************************************************)
EXTENDS MCRegisterControl, FiniteSetTheorems, SequenceTheorems, TLAPS

-----------------------------------------------------------------------------
(* The inductive invariant.                                                *)
InputsOK ==
    /\ REG_EN \in BOOLEAN /\ REG_WR \in BOOLEAN
    /\ REG_BLK_EN \in BOOLEAN /\ REG_BLK_RDEN \in BOOLEAN
    /\ REG_ADDR \in RA /\ REG_DATA \in Value

HistoryOK ==
    /\ last_write \in [RA -> Nat]
    /\ stored \in Seq(Nat) /\ taken \in Seq(Nat)
    /\ counted \subseteq 1..Len(stored)

OneCycleAccess ==
    /\ single_register_write_delayed => ~REG_EN
    /\ single_register_read_delayed => ~REG_EN
    /\ dev0_fifo_single_read_d1 => ~REG_EN

\* The device's configuration is what was last written to its address.
ConfigIsLastWrite == \A d \in Device : r_dev_config[d] = last_write[ConfigOf[d]]

AnnouncedAsWritten == \A d \in Device : r_dev_cfg_wr[d] <=> last_access.written = ConfigOf[d]

IInv == /\ TypeOK /\ InputsOK /\ HistoryOK /\ OneCycleAccess
        /\ NoWordLost /\ FillCounterHasNoGap
        /\ ConfigIsLastWrite /\ AnnouncedAsWritten

-----------------------------------------------------------------------------
(* Lemmas about the operators.                                             *)

\* Moving the first word of the fifo to the words taken changes nothing in what
\* both hold together.
LEMMA MoveHead ==
    ASSUME NEW S, NEW t \in Seq(S), NEW f \in Seq(S), f # <<>>
    PROVE  /\ Append(t, Head(f)) \o Tail(f) = t \o f
           /\ Head(f) \in S /\ Tail(f) \in Seq(S) /\ Len(Tail(f)) = Len(f) - 1
  <1>1. /\ Head(f) \in S /\ Tail(f) \in Seq(S) /\ Len(Tail(f)) = Len(f) - 1
        /\ f = <<Head(f)>> \o Tail(f)
    <2>1. /\ Len(f) \in Nat \ {0} /\ Head(f) = f[1] /\ f[1] \in S
          /\ Tail(f) \in Seq(S) /\ Len(Tail(f)) = Len(f) - 1
          /\ \A i \in 1..Len(Tail(f)) : Tail(f)[i] = f[i + 1]
      BY HeadTailProperties
    <2>2. <<Head(f)>> \in Seq(S) /\ Len(<<Head(f)>>) = 1 /\ <<Head(f)>>[1] = f[1]
      BY <2>1
    <2> DEFINE g == <<Head(f)>> \o Tail(f)
    <2>3. /\ g \in Seq(S) /\ Len(g) = Len(f)
          /\ \A i \in 1..Len(g) : g[i] = IF i <= 1 THEN <<Head(f)>>[i] ELSE Tail(f)[i - 1]
      BY <2>1, <2>2, ConcatProperties
    <2>4. \A i \in 1..Len(f) : g[i] = f[i]
      BY <2>1, <2>2, <2>3
    <2> QED
      BY <2>1, <2>3, <2>4, SeqEqual
  <1>2. Append(t, Head(f)) = t \o <<Head(f)>>
    BY <1>1, AppendIsConcat
  <1>3. <<Head(f)>> \in Seq(S)
    BY <1>1
  <1> QED
    BY <1>1, <1>2, <1>3, ConcatAssociative

\* A word put into the fifo goes behind all others, those already taken included.
LEMMA AppendBehind ==
    ASSUME NEW S, NEW t \in Seq(S), NEW f \in Seq(S), NEW w \in S, NEW s, s = t \o f
    PROVE  Append(s, w) = t \o Append(f, w)
  <1>1. /\ s \in Seq(S) /\ <<w>> \in Seq(S)
    BY ConcatProperties
  <1>2. Append(s, w) = s \o <<w>> /\ Append(f, w) = f \o <<w>>
    BY <1>1, AppendIsConcat
  <1> QED
    BY <1>1, <1>2, ConcatAssociative

\* An access of one cycle is its own strobe, and takes its word from the fifo.
LEMMA AccessIsStrobe ==
    ASSUME OneCycleAccess
    PROVE  /\ single_register_write_strobe <=> single_register_write
           /\ dev0_fifo_single_read => ~dev0_fifo_single_read_d1
  BY DEF OneCycleAccess, single_register_write_strobe, single_register_write,
         dev0_fifo_single_read, single_register_read

\* Each device has a configuration register of its own.
LEMMA ConfigAddresses ==
    ASSUME NEW d \in Device
    PROVE  /\ ConfigOf[d] \in RA /\ ConfigOf[d] \notin {"LED_KNIGHT_RIDER", "NONE"}
           /\ \A e \in Device : ConfigOf[d] = ConfigOf[e] => d = e
  BY DEF Device, ConfigOf, RA

\* The data register hands out a word exactly when there is one.
LEMMA DataRegisterValid ==
    ASSUME REG_EN, ~REG_WR, REG_ADDR = "BULK_DATA"
    PROVE  /\ REG_VALID <=> dev0_fifo # <<>>
           /\ REG_DATA_OUT = dev0_fifo_dout
  BY DEF REG_VALID, REG_DATA_OUT, single_register_read, dev0_fifo_single_read,
         dev0_fifo_empty, Device, ConfigOf, StatusOf

-----------------------------------------------------------------------------
(* The bus clock.                                                          *)

\* The bus master takes a word exactly when the fifo gives one up, and it is the
\* first one.
LEMMA TakesWhatIsGivenUp ==
    ASSUME OneCycleAccess, InputsOK, Clk, Record
    PROVE  \/ /\ dev0_fifo # <<>>
              /\ taken' = Append(taken, Head(dev0_fifo)) /\ dev0_fifo' = Tail(dev0_fifo)
           \/ taken' = taken /\ dev0_fifo' = dev0_fifo
  <1>1. dev0_fifo' = IF dev0_fifo_rden THEN Tail(dev0_fifo) ELSE dev0_fifo
    BY DEF Clk
  <1>2. dev0_fifo_rden <=>
          /\ dev0_fifo # <<>>
          /\ \/ REG_BLK_EN /\ REG_BLK_RDEN
             \/ REG_EN /\ ~REG_WR /\ REG_ADDR = "BULK_DATA"
    BY AccessIsStrobe DEF dev0_fifo_rden, dev0_fifo_empty, dev0_fifo_single_read,
                          single_register_read
  <1>3. dev0_fifo # <<>> => dev0_fifo_dout = Head(dev0_fifo)
    BY DEF dev0_fifo_dout, dev0_fifo_empty
  <1>4. CASE REG_EN /\ ~REG_WR /\ REG_ADDR = "BULK_DATA" /\ dev0_fifo # <<>>
    BY <1>1, <1>2, <1>3, <1>4, DataRegisterValid DEF Record
  <1>5. CASE /\ ~(REG_EN /\ ~REG_WR /\ REG_ADDR = "BULK_DATA" /\ dev0_fifo # <<>>)
             /\ REG_BLK_EN /\ REG_BLK_RDEN /\ dev0_fifo # <<>>
    BY <1>1, <1>2, <1>3, <1>5, DataRegisterValid
       DEF Record, REG_BLK_EMPTY, REG_BLK_DOUT, dev0_fifo_empty
  <1>6. CASE /\ ~(REG_EN /\ ~REG_WR /\ REG_ADDR = "BULK_DATA" /\ dev0_fifo # <<>>)
             /\ ~(REG_BLK_EN /\ REG_BLK_RDEN /\ dev0_fifo # <<>>)
    BY <1>1, <1>2, <1>6, DataRegisterValid DEF Record, REG_BLK_EMPTY, dev0_fifo_empty
  <1> QED
    BY <1>4, <1>5, <1>6

LEMMA BusClockKeeps ==
    ASSUME IInv, BusClock PROVE IInv'
  <1> USE RegisterAssumption, DriverAssumption
  <1>0. /\ TypeOK /\ InputsOK /\ HistoryOK /\ OneCycleAccess
        /\ Clk /\ BusMaster /\ Record
    BY DEF IInv, BusClock
  <1>1. InputsOK'
    <2>1. CASE Pause
      BY <2>1 DEF Pause, InputsOK, RA
    <2>2. CASE ReadAccess
      BY <2>2 DEF ReadAccess, InputsOK
    <2>3. CASE WriteAccess
      BY <2>3 DEF WriteAccess, InputsOK
    <2>4. CASE BulkCycle
      BY <2>4 DEF BulkCycle, InputsOK, RA
    <2> QED
      BY <1>0, <2>1, <2>2, <2>3, <2>4 DEF BusMaster
  <1>2. OneCycleAccess'
    <2>1. REG_EN => ~REG_EN'
      BY <1>0 DEF BusMaster, Pause, ReadAccess, WriteAccess, BulkCycle
    <2>2. /\ single_register_write_delayed' => REG_EN
          /\ single_register_read_delayed' => REG_EN
          /\ dev0_fifo_single_read_d1' => REG_EN
      BY <1>0 DEF Clk, single_register_write, single_register_read, dev0_fifo_single_read
    <2> QED
      BY <2>1, <2>2 DEF OneCycleAccess
  <1>3. /\ dev0_fifo \in Seq(Nat) /\ taken \in Seq(Nat) /\ Len(dev0_fifo) <= FifoDepth
    BY <1>0 DEF TypeOK, HistoryOK
  <1>4. /\ taken' \o dev0_fifo' = taken \o dev0_fifo
        /\ taken' \in Seq(Nat) /\ dev0_fifo' \in Seq(Nat) /\ Len(dev0_fifo') <= FifoDepth
    <2>1. CASE /\ dev0_fifo # <<>>
               /\ taken' = Append(taken, Head(dev0_fifo)) /\ dev0_fifo' = Tail(dev0_fifo)
      <3>1. /\ taken' \o dev0_fifo' = taken \o dev0_fifo
            /\ Head(dev0_fifo) \in Nat /\ dev0_fifo' \in Seq(Nat)
            /\ Len(dev0_fifo') = Len(dev0_fifo) - 1
        BY <1>3, <2>1, MoveHead
      <3>2. taken' \in Seq(Nat)
        BY <1>3, <2>1, <3>1, AppendProperties
      <3>3. Len(dev0_fifo) \in Nat
        BY <1>3, LenProperties
      <3> QED
        BY <1>3, <3>1, <3>2, <3>3
    <2>2. CASE taken' = taken /\ dev0_fifo' = dev0_fifo
      BY <1>3, <2>2
    <2> QED
      BY <1>0, <2>1, <2>2, TakesWhatIsGivenUp
  <1>5. NoWordLost'
    BY <1>0, <1>4 DEF IInv, NoWordLost, Record
  <1>6. FillCounterHasNoGap'
    BY <1>0 DEF IInv, FillCounterHasNoGap, Record, Clk
  <1>7. TypeOK'
    <2>1. REG_DATA % 32 \in 0..31 /\ REG_DATA % 8 \in 0..7
      BY <1>0 DEF InputsOK
    <2>2. /\ r_led_config' \in 0..31 /\ r_led_knight_rider' \in 0..31
          /\ r_dev0_fifo_fillType' \in 0..7
      BY <1>0, <2>1 DEF Clk, WriteRegister, TypeOK
    <2>3. r_dev_config' \in [Device -> Value]
      BY <1>0 DEF Clk, WriteRegister, TypeOK, InputsOK
    <2>4. r_dev_cfg_wr' \in [Device -> BOOLEAN]
      <3>1. single_register_write_strobe \in BOOLEAN
        BY DEF single_register_write_strobe
      <3> QED
        BY <1>0, <3>1 DEF Clk, WriteRegister
    <2>5. r_dev_st_rd' \in [Device -> BOOLEAN] /\ r_spill_active' \in 0..1
      BY <1>0 DEF Clk, NotifyStatusRead
    <2>6. dev0_fifo_fill_ctr' \in Nat /\ dev0_fifo_single_read_d1' \in BOOLEAN
      BY <1>0 DEF Clk, TypeOK, dev0_fifo_single_read
    <2> QED
      BY <1>4, <2>2, <2>3, <2>4, <2>5, <2>6 DEF TypeOK
  <1>8. HistoryOK'
    <2>1. last_write' \in [RA -> Nat]
      BY <1>0 DEF Record, HistoryOK, InputsOK
    <2> QED
      BY <1>0, <1>4, <2>1 DEF Record, HistoryOK
  <1>9. ConfigIsLastWrite'
    <2> SUFFICES ASSUME NEW d \in Device
                 PROVE  r_dev_config'[d] = last_write'[ConfigOf[d]]
      BY DEF ConfigIsLastWrite
    <2>1. r_dev_config[d] = last_write[ConfigOf[d]] /\ last_write \in [RA -> Nat]
      BY <1>0 DEF IInv, ConfigIsLastWrite, HistoryOK
    <2>2. r_dev_config'[d] = IF REG_EN /\ REG_WR /\ REG_ADDR = ConfigOf[d]
                             THEN REG_DATA ELSE r_dev_config[d]
      BY <1>0, AccessIsStrobe DEF Clk, WriteRegister, single_register_write
    <2>3. last_write'[ConfigOf[d]] = IF REG_EN /\ REG_WR /\ REG_ADDR = ConfigOf[d]
                                     THEN REG_DATA ELSE last_write[ConfigOf[d]]
      BY <1>0, <2>1, ConfigAddresses DEF Record
    <2> QED
      BY <2>1, <2>2, <2>3
  <1>10. AnnouncedAsWritten'
    <2> SUFFICES ASSUME NEW d \in Device
                 PROVE  r_dev_cfg_wr'[d] <=> last_access'.written = ConfigOf[d]
      BY DEF AnnouncedAsWritten
    <2>1. r_dev_cfg_wr'[d] <=> REG_EN /\ REG_WR /\ REG_ADDR = ConfigOf[d]
      BY <1>0, AccessIsStrobe DEF Clk, WriteRegister, single_register_write
    <2>2. last_access'.written = IF REG_EN /\ REG_WR THEN REG_ADDR ELSE "NONE"
      BY <1>0 DEF Record
    <2> QED
      BY <2>1, <2>2, ConfigAddresses
  <1> QED
    BY <1>1, <1>2, <1>5, <1>6, <1>7, <1>8, <1>9, <1>10 DEF IInv

-----------------------------------------------------------------------------
(* The clock of the fifo.                                                  *)

\* Counting on: the next word of the fill counter says how many went before it.
LEMMA CountsOn ==
    ASSUME NEW s \in Seq(Nat), NEW C \in SUBSET (1..Len(s)),
           \A i \in C : s[i] = Cardinality({j \in C : j < i})
    PROVE  LET t == Append(s, Cardinality(C))
               D == C \cup {Len(s) + 1}
           IN  /\ Cardinality(D) = Cardinality(C) + 1
               /\ \A i \in D : t[i] = Cardinality({j \in D : j < i})
  <1> DEFINE t == Append(s, Cardinality(C))
             D == C \cup {Len(s) + 1}
  <1>1. Len(s) \in Nat
    BY LenProperties
  <1>2. IsFiniteSet(C) /\ Cardinality(C) \in Nat
    <2>1. IsFiniteSet(1..Len(s))
      BY <1>1, FS_Interval
    <2>2. IsFiniteSet(C)
      BY <2>1, FS_Subset
    <2> QED
      BY <2>2, FS_CardinalityType
  <1>3. Len(s) + 1 \notin C
    BY <1>1
  <1>4. Cardinality(D) = Cardinality(C) + 1
    BY <1>2, <1>3, FS_AddElement
  <1>5. t[Len(s) + 1] = Cardinality(C) /\ \A i \in 1..Len(s) : t[i] = s[i]
    BY <1>2, AppendProperties
  <1>6. ASSUME NEW i \in D PROVE t[i] = Cardinality({j \in D : j < i})
    <2>1. CASE i \in C
      <3>1. {j \in D : j < i} = {j \in C : j < i}
        BY <1>1, <2>1
      <3> QED
        BY <1>5, <2>1, <3>1
    <2>2. CASE i = Len(s) + 1
      <3>1. \A j \in C : j < i
        BY <1>1, <2>2
      <3>2. ~(i < i)
        BY <1>1, <2>2
      <3>3. {j \in D : j < i} = C
        BY <2>2, <3>1, <3>2
      <3> QED
        BY <1>5, <2>2, <3>3
    <2> QED
      BY <1>6, <2>1, <2>2
  <1> QED
    BY <1>4, <1>6

LEMMA FifoClockKeeps ==
    ASSUME IInv, FifoClock PROVE IInv'
  <1> USE RegisterAssumption, DriverAssumption
  <1>0. /\ TypeOK /\ InputsOK /\ HistoryOK /\ OneCycleAccess
        /\ NoWordLost /\ FillCounterHasNoGap /\ ConfigIsLastWrite /\ AnnouncedAsWritten
    BY DEF IInv
  <1>1. UNCHANGED <<registers, inputs, last_write, last_access, taken>>
    BY DEF FifoClock, FifoClk
  <1>2. InputsOK'
    BY <1>0, <1>1 DEF InputsOK, inputs
  <1>3. OneCycleAccess'
    BY <1>0, <1>1 DEF OneCycleAccess, inputs, registers
  <1>4. ConfigIsLastWrite' /\ AnnouncedAsWritten'
    BY <1>0, <1>1 DEF ConfigIsLastWrite, AnnouncedAsWritten, registers
  <1>5. /\ dev0_fifo \in Seq(Nat) /\ Len(dev0_fifo) \in Nat /\ Len(dev0_fifo) <= FifoDepth
        /\ stored \in Seq(Nat) /\ Len(stored) \in Nat /\ taken \in Seq(Nat)
        /\ dev0_fifo_fill_ctr \in Nat /\ counted \subseteq 1..Len(stored)
    BY <1>0, LenProperties DEF TypeOK, HistoryOK
  <1>6. PICK wren \in BOOLEAN, word \in DeviceWords :
          LET fill == r_dev0_fifo_fillType = 1
              written == (fill \/ wren) /\ Len(dev0_fifo) < FifoDepth
          IN /\ FifoClk(wren, word)
             /\ stored' = IF written
                          THEN Append(stored, IF fill THEN dev0_fifo_fill_ctr ELSE word)
                          ELSE stored
             /\ counted' = IF written /\ fill THEN counted \cup {Len(stored) + 1}
                           ELSE counted
    BY DEF FifoClock
  <1> DEFINE fill == r_dev0_fifo_fillType = 1
             written == (fill \/ wren) /\ Len(dev0_fifo) < FifoDepth
             din == IF fill THEN dev0_fifo_fill_ctr ELSE word
  <1>7. word \in Nat /\ din \in Nat
    BY <1>5
  <1>8. /\ dev0_fifo' = IF written THEN Append(dev0_fifo, din) ELSE dev0_fifo
        /\ stored' = IF written THEN Append(stored, din) ELSE stored
        /\ counted' = IF written /\ fill THEN counted \cup {Len(stored) + 1} ELSE counted
        /\ dev0_fifo_fill_ctr' = IF written /\ fill THEN dev0_fifo_fill_ctr + 1
                                 ELSE dev0_fifo_fill_ctr
    BY <1>5, <1>6 DEF FifoClk, dev0_fifo_full
  <1> HIDE DEF fill, written, din
  <1>9. /\ dev0_fifo' \in Seq(Nat) /\ Len(dev0_fifo') <= FifoDepth
        /\ stored' \in Seq(Nat) /\ Len(stored') \in {Len(stored), Len(stored) + 1}
        /\ written => Len(stored') = Len(stored) + 1
        /\ dev0_fifo_fill_ctr' \in Nat
    <2>1. CASE written
      BY <1>5, <1>7, <1>8, <2>1, AppendProperties DEF written
    <2>2. CASE ~written
      BY <1>5, <1>8, <2>2
    <2> QED
      BY <2>1, <2>2
  <1>10. TypeOK'
    BY <1>0, <1>1, <1>9 DEF TypeOK, registers
  <1>11. HistoryOK'
    <2>1. counted' \subseteq 1..Len(stored')
      <3>1. counted \subseteq 1..Len(stored')
        BY <1>5, <1>9
      <3>2. written => Len(stored) + 1 \in 1..Len(stored')
        BY <1>5, <1>9
      <3> QED
        BY <1>8, <3>1, <3>2
    <2> QED
      BY <1>0, <1>1, <1>9, <2>1 DEF HistoryOK
  <1>12. NoWordLost'
    <2>1. CASE written
      <3>1. stored = taken \o dev0_fifo
        BY <1>0 DEF NoWordLost
      <3>2. Append(stored, din) = taken \o Append(dev0_fifo, din)
        BY <1>5, <1>7, <3>1, AppendBehind
      <3> QED
        BY <1>1, <1>8, <2>1, <3>2 DEF NoWordLost
    <2>2. CASE ~written
      BY <1>0, <1>1, <1>8, <2>2 DEF NoWordLost
    <2> QED
      BY <2>1, <2>2
  <1>13. FillCounterHasNoGap'
    <2>1. CASE written /\ fill
      <3>1. stored' = Append(stored, Cardinality(counted))
        BY <1>0, <1>8, <2>1 DEF din, FillCounterHasNoGap
      <3>2. counted' = counted \cup {Len(stored) + 1}
        BY <1>8, <2>1
      <3>3. \A i \in counted : stored[i] = Cardinality({j \in counted : j < i})
        BY <1>0 DEF FillCounterHasNoGap
      <3>4. /\ Cardinality(counted') = Cardinality(counted) + 1
            /\ \A i \in counted' : stored'[i] = Cardinality({j \in counted' : j < i})
        <4>1. counted \in SUBSET (1..Len(stored)) /\ stored \in Seq(Nat)
          BY <1>5
        <4>2. LET t == Append(stored, Cardinality(counted))
                  D == counted \cup {Len(stored) + 1}
              IN  /\ Cardinality(D) = Cardinality(counted) + 1
                  /\ \A i \in D : t[i] = Cardinality({j \in D : j < i})
          BY ONLY <3>3, <4>1, CountsOn
        <4> QED
          BY ONLY <3>1, <3>2, <4>2
      <3>5. dev0_fifo_fill_ctr' = Cardinality(counted) + 1
        BY <1>0, <1>8, <2>1 DEF FillCounterHasNoGap
      <3> QED
        BY <3>4, <3>5 DEF FillCounterHasNoGap
    <2>2. CASE ~(written /\ fill)
      <3>1. counted' = counted /\ dev0_fifo_fill_ctr' = dev0_fifo_fill_ctr
        BY <1>8, <2>2
      <3>2. \A i \in counted : stored'[i] = stored[i]
        BY <1>5, <1>7, <1>8, AppendProperties
      <3> QED
        BY <1>0, <3>1, <3>2 DEF FillCounterHasNoGap
    <2> QED
      BY <2>1, <2>2
  <1> QED
    BY <1>2, <1>3, <1>4, <1>10, <1>11, <1>12, <1>13 DEF IInv

-----------------------------------------------------------------------------
(* The invariant and what follows from it.                                 *)
LEMMA InitIInv == MCInit => IInv
  <1> SUFFICES ASSUME MCInit PROVE IInv
    OBVIOUS
  <1> USE RegisterAssumption, DriverAssumption DEF MCInit, Init
  <1>1. <<>> \in Seq(Nat) /\ Len(<<>>) = 0 /\ <<>> \o <<>> = <<>>
    BY EmptySeq, ConcatEmptySeq
  <1>2. TypeOK
    <2>1. Len(dev0_fifo) <= FifoDepth /\ dev0_fifo \in Seq(Nat)
      BY <1>1
    <2>2. /\ r_dev_config \in [Device -> Value]
          /\ r_dev_cfg_wr \in [Device -> BOOLEAN] /\ r_dev_st_rd \in [Device -> BOOLEAN]
      OBVIOUS
    <2>3. /\ r_led_config \in 0..31 /\ r_led_knight_rider \in 0..31 /\ r_spill_active \in 0..1
          /\ r_dev0_fifo_fillType \in 0..7 /\ dev0_fifo_fill_ctr \in Nat
      OBVIOUS
    <2>4. dev0_fifo_single_read_d1 \in BOOLEAN
      OBVIOUS
    <2> QED
      BY <2>1, <2>2, <2>3, <2>4 DEF TypeOK
  <1>6. InputsOK /\ OneCycleAccess
    BY DEF InputsOK, OneCycleAccess, RA
  <1>3. HistoryOK
    BY <1>1 DEF HistoryOK
  <1>4. NoWordLost /\ FillCounterHasNoGap
    BY <1>1, FS_EmptySet DEF NoWordLost, FillCounterHasNoGap
  <1>5. ConfigIsLastWrite /\ AnnouncedAsWritten
    BY ConfigAddresses DEF ConfigIsLastWrite, AnnouncedAsWritten
  <1> QED
    BY <1>2, <1>3, <1>4, <1>5, <1>6 DEF IInv

LEMMA StutterKeeps == IInv /\ UNCHANGED allVars => IInv'
  BY DEF IInv, TypeOK, InputsOK, HistoryOK, OneCycleAccess, NoWordLost, FillCounterHasNoGap,
         ConfigIsLastWrite, AnnouncedAsWritten, allVars, vars, registers, inputs, history

LEMMA Invariant == MCSpec => []IInv
  <1>1. IInv /\ [BusClock \/ FifoClock]_allVars => IInv'
    BY BusClockKeeps, FifoClockKeeps, StutterKeeps
  <1> QED
    BY <1>1, InitIInv, PTL DEF MCSpec

\* Every register and every word of the fifo is of its kind, and the fifo never
\* holds more than its depth.
THEOREM Typing == MCSpec => []TypeOK
  <1>1. IInv => TypeOK
    BY DEF IInv
  <1> QED
    BY <1>1, Invariant, PTL

\* No word is lost, invented, reordered or handed out twice between the device or
\* the fill counter and the bus master, whichever way it reads them.
THEOREM WordsArePassedOn == MCSpec => []NoWordLost
  <1>1. IInv => NoWordLost
    BY DEF IInv
  <1> QED
    BY <1>1, Invariant, PTL

\* The words of the fill counter are numbered without a gap.
THEOREM CountingIsGapless == MCSpec => []FillCounterHasNoGap
  <1>1. IInv => FillCounterHasNoGap
    BY DEF IInv
  <1> QED
    BY <1>1, Invariant, PTL

\* A device is told of each write to its configuration, and of nothing else, and
\* finds the value of that write there.
THEOREM AnnouncedConfigIsThere == MCSpec => []ConfigIsThereWhenAnnounced
  <1>1. IInv => ConfigIsThereWhenAnnounced
    BY DEF IInv, ConfigIsLastWrite, AnnouncedAsWritten, ConfigIsThereWhenAnnounced
  <1> QED
    BY <1>1, Invariant, PTL
=============================================================================
