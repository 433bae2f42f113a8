------------------------------ MODULE MrfData ------------------------------
(***************************************************************************)
(* The bit streams of the readout library (TMrfData, mrfdata.cpp), as      *)
(* functions from a stream to the stream after the call.                   *)
(*                                                                         *)
(* A stream is a record:                                                   *)
(*   reglengthbits, reglengthwords   its length in bits and in words;      *)
(*   regdata   the words; a word is the set of the bits that are set, the  *)
(*             first word has the index 0, as in the code;                 *)
(*   errcode   0, or 1 for mrfdata_error::out_of_bounds, the only flag     *)
(*             these functions set.                                        *)
(* A value that is cut into bits is a set of bit numbers as well, so that  *)
(* {} is 0 and {0, 2} is 5.                                                *)
(***************************************************************************)
EXTENDS Integers, FiniteSets

CONSTANTS
    bitsinablock,  \* bits in a word: 32
    U32            \* unsigned arithmetic is modulo this: 2^32

ASSUME WordAssumption == bitsinablock \in Nat \ {0} /\ U32 \in Nat \ {0}

success == 0
out_of_bounds == 1

Word == SUBSET (0..bitsinablock - 1)
WordsFor(bits) == (bits + bitsinablock - 1) \div bitsinablock
bitInBlock(position) == position \div bitsinablock
InBlock(position) == position % bitsinablock

Stream(bits, words, data, code) ==
    [reglengthbits |-> bits, reglengthwords |-> words, regdata |-> data, errcode |-> code]
EmptyStream == Stream(0, 0, [k \in {} |-> {}], success)

\* The words and the error code change, the length stays.
Changed(s, data, code) == Stream(s.reglengthbits, s.reglengthwords, data, code)

\* std::vector::resize: words that are new are 0.
Resized(s, words) ==
    [k \in 0..words - 1 |-> IF k < s.reglengthwords THEN s.regdata[k] ELSE {}]

\* The bits of the last word that are behind the end are cleared.
setNumBits(s, length) ==
    Stream(length, WordsFor(length),
           [k \in 0..WordsFor(length) - 1 |->
               {b \in Resized(s, WordsFor(length))[k] : k * bitsinablock + b < length}],
           s.errcode)

setNumWords(s, length) == Stream(length * bitsinablock, length, Resized(s, length), s.errcode)

clearDataStream(s) == setNumWords(s, 0)

IsSet(s, position) == InBlock(position) \in s.regdata[bitInBlock(position)]

\* getBit: false behind the end.
getBit(s, position) == position < s.reglengthbits /\ IsSet(s, position)

\* A series of setBit() calls for different positions, those in "ones" with
\* TRUE, "last" being the last one: a bit behind the end is left out, the error
\* code is the one of the last call.
setBits(s, positions, ones, last) ==
    Changed(s, [k \in DOMAIN s.regdata |->
                   {b \in 0..bitsinablock - 1 :
                       LET p == k * bitsinablock + b
                       IN  IF p \in positions /\ p < s.reglengthbits
                           THEN p \in ones ELSE b \in s.regdata[k]}],
            IF positions = {} THEN s.errcode
            ELSE IF last < s.reglengthbits THEN success ELSE out_of_bounds)

setBit(s, position, state) ==
    setBits(s, {position}, IF state THEN {position} ELSE {}, position)

appendBit(s, state) ==
    LET longer == setNumBits(s, s.reglengthbits + 1)
    IN  setBit(longer, s.reglengthbits, state)

\* The bits of a word that are in front of the end.
Inside(s, k) == {b \in 0..bitsinablock - 1 : k * bitsinablock + b < s.reglengthbits}

\* The word is complete (the first branch of setWord and setWordMasked).
IsFullWord(s, k) == k < s.reglengthwords /\ Inside(s, k) = 0..bitsinablock - 1

setWord(s, k, dataword, truncate_ok) ==
    IF k < s.reglengthwords
    THEN Changed(s, [s.regdata EXCEPT ![k] = dataword \cap Inside(s, k)],
                 IF dataword \subseteq Inside(s, k) \/ truncate_ok
                 THEN success ELSE out_of_bounds)
    ELSE [s EXCEPT !.errcode = out_of_bounds]

\* A complete word is replaced whatever the mask is.
setWordMasked(s, k, dataword, mask, truncate_ok) ==
    IF IsFullWord(s, k)
    THEN Changed(s, [s.regdata EXCEPT ![k] = dataword], success)
    ELSE IF k < s.reglengthwords
    THEN Changed(s, [s.regdata EXCEPT ![k] =
                        ((@ \ mask) \cup (dataword \cap mask)) \cap Inside(s, k)],
                 IF dataword \cap mask \subseteq Inside(s, k) \/ truncate_ok
                 THEN success ELSE out_of_bounds)
    ELSE [s EXCEPT !.errcode = out_of_bounds]

getWord(s, k) == IF k < s.reglengthwords THEN s.regdata[k] ELSE {}
getWord_errcode(s, k) == IF k < s.reglengthwords THEN success ELSE out_of_bounds

getBit_errcode(s, position) == IF position < s.reglengthbits THEN success ELSE out_of_bounds

appendWord(s, dataword) ==
    setWord(setNumWords(s, s.reglengthwords + 1), s.reglengthwords, dataword, FALSE)

\* Mutated: the highest bit is beyond the width.
getIntBit_Short(position, value) == position < bitsinablock - 1 /\ position \in value

\* getIntBit: no bit beyond the width of an integer.
getIntBit(position, value) == position < bitsinablock /\ position \in value

\* Position number i of a block, in unsigned arithmetic.
BlockPosition(position, i) == (position + i) % U32

\* The bit of the value that belongs to place i of the block.
ValueBit(length, offset, reverse, i) ==
    offset + (IF reverse THEN length - 1 - i ELSE i)

\* setBitBlock: the places in order, the other way round if reversed.
setBitBlock(s, position, length, value, offset, reverse) ==
    LET places == {BlockPosition(position, i) : i \in 0..length - 1}
        place(p) == (p - position) % U32
    IN  setBits(s, places,
                {p \in places : getIntBit(ValueBit(length, offset, reverse, place(p)), value)},
                BlockPosition(position, IF reverse THEN 0 ELSE length - 1))

getBitBlock(s, position, length, offset, reverse) ==
    {v \in 0..bitsinablock - 1 :
        \E i \in 0..length - 1 : /\ v = ValueBit(length, offset, reverse, i)
                                 /\ getBit(s, BlockPosition(position, i))}

getBitBlock_errcode(s, position, length, reverse) ==
    IF length = 0 THEN s.errcode
    ELSE getBit_errcode(s, BlockPosition(position, IF reverse THEN 0 ELSE length - 1))

\* Mutated: a longer stream is cut.
importBinString_Cuts(s, length, ones, offset) ==
    setBits(setNumBits(s, offset + length), offset..offset + length - 1,
            {offset + i : i \in ones}, offset + length - 1)

\* importBinString of a string with the ones at the places "ones".
importBinString(s, length, ones, offset) ==
    LET longer == IF s.reglengthbits < offset + length THEN setNumBits(s, offset + length) ELSE s
    IN  setBits(longer, offset..offset + length - 1, {offset + i : i \in ones},
                offset + length - 1)

exportBinString(s) == {p \in 0..s.reglengthbits - 1 : getBit(s, p)}

\* resample: every factor-th bit from offset on, moved to the front; the rest
\* stays behind them until the new length cuts it off.
Sample(s, i, reverse) ==
    (IF reverse THEN bitsinablock - 1 - InBlock(i) ELSE InBlock(i)) \in s.regdata[bitInBlock(i)]

SampleCount(s, offset, factor) ==
    IF offset < s.reglengthbits THEN (s.reglengthbits - 1 - offset) \div factor + 1 ELSE 0

resample(s, offset, factor, reverse, cutoff) ==
    LET newlength == SampleCount(s, offset, factor)
        moved == setBits(s, 0..newlength - 1,
                         {p \in 0..newlength - 1 : Sample(s, offset + p * factor, reverse)},
                         newlength - 1)
    IN  setNumBits(moved, IF cutoff = 0 THEN newlength ELSE cutoff)

sameDataStream(s, other) == s.regdata = other.regdata
lastActionSuccessful(s) == s.errcode = success
=============================================================================
