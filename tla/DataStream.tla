----------------------------- MODULE DataStream -----------------------------
(***************************************************************************)
(* One TMrfData object and the calls a program makes of it: the stream     *)
(* kept in words implements the stream of bits of BitStream.               *)
(*                                                                         *)
(* A call is a record: op, pos (a position, an offset or the index of a    *)
(* word), n (a length), val and mask (sets of bit numbers), offset,        *)
(* factor, reverse.                                                        *)
(***************************************************************************)
EXTENDS MrfData

CONSTANTS
    Calls,    \* the calls the program makes
    MaxBits   \* bound: bits of the stream

Op == {"setNumBits", "setNumWords", "clear", "setBit", "appendBit", "setWord",
       "setWordMasked", "appendWord", "setBitBlock", "importBinString", "resample", "get"}

\* A step of resample() is not 0: the code would not come to an end.
ASSUME CallsAssumption ==
    /\ MaxBits \in Nat /\ MaxBits <= U32
    /\ \A c \in Calls :
          /\ c.op \in Op /\ c.pos \in Nat /\ c.n \in Nat /\ c.offset \in Nat
          /\ c.factor \in Nat \ {0} /\ c.reverse \in BOOLEAN
          /\ c.val \in Word /\ c.mask \in Word

VARIABLES
    s,        \* the stream
    last      \* history: the last call

vars == <<s, last>>

After(c) ==
    CASE c.op = "setNumBits"      -> setNumBits(s, c.n)
      [] c.op = "setNumWords"     -> setNumWords(s, c.n)
      [] c.op = "clear"           -> clearDataStream(s)
      [] c.op = "setBit"          -> setBit(s, c.pos, c.val # {})
      [] c.op = "appendBit"       -> appendBit(s, c.val # {})
      [] c.op = "setWord"         -> setWord(s, c.pos, c.val, c.reverse)
      [] c.op = "setWordMasked"   -> setWordMasked(s, c.pos, c.val, c.mask, c.reverse)
      [] c.op = "appendWord"      -> appendWord(s, c.val)
      [] c.op = "setBitBlock"     -> setBitBlock(s, c.pos, c.n, c.val, c.offset, c.reverse)
      [] c.op = "importBinString" -> importBinString(s, c.n, c.val, c.pos)
      [] c.op = "resample"        -> resample(s, c.pos, c.factor, c.reverse, c.n)
      [] c.op = "get"             ->
            [s EXCEPT !.errcode = getBitBlock_errcode(s, c.pos, c.n, c.reverse)]

Call(c) ==
    /\ s' = After(c) /\ last' = c
    /\ s'.reglengthbits <= MaxBits

Init == s = EmptyStream /\ last = [op |-> "none"]
Next == \E c \in Calls : Call(c)
Spec == Init /\ [][Next]_vars

-----------------------------------------------------------------------------
\* The words are as many as the bits need, and the bits of the last word
\* behind the end are clear: what writeData() sends of a stream and what
\* sameDataStream() compares are whole words (setNumBits, setWord, setBit).
WellFormed ==
    /\ s.reglengthbits \in Nat /\ s.errcode \in {success, out_of_bounds}
    /\ s.reglengthwords = WordsFor(s.reglengthbits)
    /\ DOMAIN s.regdata = 0..s.reglengthwords - 1
    /\ \A k \in DOMAIN s.regdata : s.regdata[k] \subseteq Inside(s, k)

\* A value put into a block of bits comes back from there, and no other bit
\* changes, whatever the offset and the order of the bits and across the
\* words (setBitBlock, getBitBlock).
BlockRoundTrip ==
    \A position \in 0..s.reglengthbits, length \in 0..bitsinablock,
       offset \in 0..bitsinablock, reverse \in BOOLEAN :
        position + length <= s.reglengthbits /\ offset + length <= bitsinablock =>
            \A value \in SUBSET (offset..offset + length - 1) :
                LET t == setBitBlock(s, position, length, value, offset, reverse)
                    block == position..position + length - 1
                IN  /\ getBitBlock(t, position, length, offset, reverse) = value
                    /\ exportBinString(t) \ block = exportBinString(s) \ block

\* A stream kept in words is a stream of bits: every call has the effect on the bits that
\* is promised for it, and no other bit changes (mrfdata.cpp).
Bits == INSTANCE BitStream WITH len <- s.reglengthbits, ones <- exportBinString(s)
ImplementsBitStream == Bits!Spec

\* The bits of a word outside the mask remain unchanged (setWordMasked).
MaskRespected ==
    [][last'.op = "setWordMasked" /\ last'.pos < s.reglengthwords =>
         s'.regdata[last'.pos] \ last'.mask = s.regdata[last'.pos] \ last'.mask]_vars

\* cutoff is a maximum of the length: no bit of the result is a bit that was
\* not sampled (resample).
CutoffIsMaximum ==
    [][last'.op = "resample" =>
         s'.reglengthbits <= SampleCount(s, last'.pos, last'.factor)]_vars

\* A block that does not fit into the stream is an error
\* (setBitBlock, lastActionSuccessful).
BlockErrorReported ==
    [][last'.op = "setBitBlock" /\ last'.pos + last'.n > s.reglengthbits =>
         ~lastActionSuccessful(s')]_vars
=============================================================================
