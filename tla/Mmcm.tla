-------------------------------- MODULE Mmcm --------------------------------
(***************************************************************************)
(* The clock generator of the readout board (TMrfData_MMCMConf), and the   *)
(* call configMMCM() that programs it: the search for the dividers, the    *)
(* counters computed from them, and the registers with the counters in     *)
(* their fields. Frequencies are in MHz; the source computes with doubles, *)
(* here a frequency is a fraction <<numerator, denominator>>.              *)
(*                                                                         *)
(* The generator on the board is external: the command makes it take the   *)
(* counters of its registers.                                              *)
(***************************************************************************)
EXTENDS Integers, Sequences

CONSTANTS
    Asked,        \* frequencies the program asks for
    Losable,      \* register writes that may be lost
    RA_START,     \* the board's 32 registers of the generator start here, and
    RA_STEP       \* are so far apart

\* CLKFBOUT counts 5 to MaxMult, DIVCLK 1 to MaxDiv, CLKOUT0 1 to MaxOut.
MaxMult == 64
MaxDiv == 80
MaxOut == 128

CLKIN == 66
VCO_MIN == 600
VCO_MAX == 1200
FRAC_PRECISION == 10
NoFrequency == <<0, 1>>

VARIABLES
    open,      \* the device is open
    divs,      \* clkfbout_mult, divclk_divide, clkout0_divide
    _frequency,
    items,     \* the local items: name -> data of the registers; 0 at first
    board,     \* external: the registers of the board
    clock,     \* external: the counters the generator runs with
    asked,     \* history: the frequency the last call asked for
    lost       \* history: a write of the last call was lost

vars == <<open, divs, _frequency, items, board, clock, asked, lost>>

-----------------------------------------------------------------------------
(***************************************************************************)
(* The search.                                                             *)
(***************************************************************************)
Abs(x) == IF x < 0 THEN -x ELSE x
VcoInRange(m, d) == CLKIN * m \in VCO_MIN * d..VCO_MAX * d

\* The pairs of the two outer loops.
Inputs == UNION {{<<m, d>> : d \in {e \in (CLKIN * m) \div VCO_MAX..(CLKIN * m) \div VCO_MIN :
                                    e \in 1..MaxDiv /\ VcoInRange(m, e)}} : m \in 5..MaxMult}

\* The dividers the loops try and that come closer than 1 MHz to f, with the
\* distance as a fraction. A pair has its closest output next to f, or at the
\* end of the loop if f lies behind it.
Near(f) ==
    LET Neighbours(m, d) ==
            LET q == (CLKIN * m) \div (f * d) IN {q, q + 1, MaxOut} \cap 1..MaxOut
        Tried(m, d) == {[m |-> m, d |-> d, o |-> o, num |-> Abs(CLKIN * m - f * d * o)] :
                           o \in Neighbours(m, d)}
    IN  {x \in UNION {Tried(p[1], p[2]) : p \in Inputs} : x.num < x.d * x.o}

Closer(x, y) == x.num * y.d * y.o < y.num * x.d * x.o
Earlier(x, y) == \/ x.m < y.m
                 \/ x.m = y.m /\ (x.d < y.d \/ (x.d = y.d /\ x.o < y.o))

\* The loops keep the first of the closest dividers; m is 0 if there are none.
calc_fout(f) ==
    LET near == Near(f)
    IN  IF near = {} THEN [m |-> 0]
        ELSE CHOOSE x \in near : \A y \in near \ {x} : Closer(x, y) \/ (~Closer(y, x) /\ Earlier(x, y))

-----------------------------------------------------------------------------
(***************************************************************************)
(* The counters and the registers.                                         *)
(***************************************************************************)
round_frac(decimal, precision) ==
    LET half == 2^(FRAC_PRECISION - precision - 1)
    IN  IF (decimal \div half) % 2 = 1 THEN decimal + half ELSE decimal

\* Mutated: the low time of an odd divider is the high time.
mmcm_divider_Even(divide, duty) ==
    LET high == ((((duty * 2^FRAC_PRECISION) \div 100000) * divide) \div 2^FRAC_PRECISION) % 128
    IN  IF divide = 1 THEN [high |-> 1, low |-> 1, edge |-> 0, no_count |-> 1]
        ELSE [high |-> high % 64, low |-> high % 64, edge |-> 0, no_count |-> 0]

\* Six bits for each time: a time of 64 is sent as 0.
mmcm_divider(divide, duty) ==
    LET temp == round_frac(((duty * 2^FRAC_PRECISION) \div 100000) * divide, 1)
        time == (temp \div 2^FRAC_PRECISION) % 128
        edge == (temp \div 2^(FRAC_PRECISION - 1)) % 2
        high == IF time = 0 THEN 1 ELSE IF time = divide THEN divide - 1 ELSE time
    IN  IF divide = 1 THEN [high |-> 1, low |-> 1, edge |-> 0, no_count |-> 1]
        ELSE [high |-> high % 64, low |-> (divide - high) % 64,
              edge |-> IF time = 0 THEN 0 ELSE IF time = divide THEN 1 ELSE edge,
              no_count |-> 0]

\* The phase of all clocks is 0: the fields of the phase are 0.
mmcm_count_calc(divide) == mmcm_divider(divide, 50000)

\* The two registers of a counter, and the one of the input divider.
Counter(c) == <<c.high * 64 + c.low, (c.edge * 2 + c.no_count) * 64>>
InputDivider(c) == <<(c.edge * 2 + c.no_count) * 4096 + c.high * 64 + c.low>>

Outputs == {"CLKOUT0", "CLKOUT1", "CLKOUT2", "CLKOUT3", "CLKOUT4", "CLKOUT5", "CLKOUT6"}
Registers == Outputs \cup {"CLKFBOUT", "DIVCLK"}

calculate_mmcm_register(x) ==
    [name \in Registers |->
        CASE name = "CLKFBOUT" -> Counter(mmcm_count_calc(x.m))
          [] name = "DIVCLK" -> InputDivider(mmcm_count_calc(x.d))
          [] OTHER -> Counter(mmcm_count_calc(x.o))]

-----------------------------------------------------------------------------
\* External: a counter divides by its high and low time, or not at all.
Time(t) == IF t = 0 THEN 64 ELSE t
Divides(data) ==
    LET flags == IF Len(data) = 2 THEN data[2] \div 64 ELSE data[1] \div 4096
    IN  IF flags % 2 = 1 THEN 1 ELSE Time((data[1] \div 64) % 64) + Time(data[1] % 64)
Output(registers, name) ==
    <<CLKIN * Divides(registers["CLKFBOUT"]),
      Divides(registers["DIVCLK"]) * Divides(registers[name])>>

\* Before the first call the dividers are what the memory holds.
Init ==
    /\ open \in BOOLEAN
    /\ divs \in [m : {5, MaxMult}, d : {1}, o : {1, MaxOut}]
    /\ _frequency = NoFrequency
    /\ items = [name \in Registers |-> IF name = "DIVCLK" THEN <<0>> ELSE <<0, 0>>]
    /\ board = items /\ clock = board /\ asked = 0 /\ lost = FALSE

setFrequency(f) ==
    LET found == IF f = 0 THEN [m |-> 0] ELSE calc_fout(f)
    IN  /\ divs' = IF found.m = 0 THEN divs ELSE [m |-> found.m, d |-> found.d, o |-> found.o]
        /\ _frequency' = IF found.m = 0 THEN NoFrequency ELSE <<CLKIN * found.m, found.d * found.o>>
        /\ items' = IF f = 0 THEN items ELSE calculate_mmcm_register(divs')

\* The addresses the library has for a counter (the first of its registers) and
\* for the command, and whether the board has its register there; it starts the
\* generator with a write to the last one.
Place(name) ==
    CASE name = "CLKOUT0" -> 1 [] name = "CLKOUT1" -> 3 [] name = "CLKOUT2" -> 5
      [] name = "CLKOUT3" -> 7 [] name = "CLKOUT4" -> 9 [] name = "CLKOUT5" -> 11
      [] name = "CLKOUT6" -> 13 [] name = "DIVCLK" -> 15 [] name = "CLKFBOUT" -> 16
      [] name = "command" -> 31
mmcm_address(name) == 128 + 4 * Place(name)
Reaches(name) == mmcm_address(name) = RA_START + RA_STEP * Place(name)

\* The registers are written one by one, then the command.
configMMCM(f, losses) ==
    /\ open /\ setFrequency(f)
    /\ board' = [name \in Registers |->
                    IF name \in losses \/ ~Reaches(name) THEN board[name] ELSE items'[name]]
    /\ clock' = IF "command" \in losses \/ ~Reaches("command") THEN clock ELSE board'
    /\ asked' = f /\ lost' = (losses # {})
    /\ UNCHANGED open

configMMCMClosed(f) ==
    /\ ~open /\ setFrequency(0)
    /\ asked' = f /\ lost' = FALSE /\ UNCHANGED <<open, board, clock>>

Next ==
    \E f \in Asked :
        \/ \E losses \in SUBSET Losable : configMMCM(f, losses)
        \/ configMMCMClosed(f)
Spec == Init /\ [][Next]_vars

-----------------------------------------------------------------------------
\* The registers a call sends make every output of a generator that takes them run
\* with the frequency the call returns, if it is not 0 (calc_fout, mmcm_divider,
\* mmcm_count_calc, calculate_mmcm_register).
RegistersAsReturned ==
    _frequency # NoFrequency =>
        \A name \in Outputs : Output(items, name) = _frequency

\* After a call that has lost nothing the generator of the board runs with the
\* frequency the call returns (configMMCM, the addresses of both sides).
ClockIsAsReturned ==
    open /\ _frequency # NoFrequency /\ ~lost =>
        \A name \in Outputs : Output(clock, name) = _frequency

\* The closest generatable frequency is returned for every frequency.
ClosestIsFound == open /\ asked # 0 => _frequency # NoFrequency

\* getFrequency() is the frequency the generator is set to.
FrequencyIsSet ==
    open /\ ~lost /\ clock # [name \in Registers |-> IF name = "DIVCLK" THEN <<0>> ELSE <<0, 0>>] =>
        Output(clock, "CLKOUT0") = _frequency
=============================================================================
