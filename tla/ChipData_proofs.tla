-------------------------- MODULE ChipData_proofs --------------------------
(***************************************************************************)
(* Proofs about the bits of the library, for words of any width, streams   *)
(* of any length and any series of calls: that a stream is well-formed,    *)
(* that a block comes back from where it was put, that the words do to the *)
(* bits what BitStream promises (WellFormed is what the other two need: a  *)
(* bit left behind the end would turn up when the stream is made longer);  *)
(* about the items of any table whose places do not overlap; and about the *)
(* clock generator, for any frequencies.                                   *)
(***************************************************************************)
EXTENDS MCChipData, ConfItems, FiniteSetTheorems, TLAPS

-----------------------------------------------------------------------------
(***************************************************************************)
(* Positions: the word a bit is in and its place there.                    *)
(***************************************************************************)
LEMMA Position ==
    ASSUME NEW p \in Nat
    PROVE  /\ bitInBlock(p) \in Nat /\ InBlock(p) \in 0..bitsinablock - 1
           /\ bitInBlock(p) * bitsinablock + InBlock(p) = p
  BY WordAssumption DEF bitInBlock, InBlock

LEMMA WordsForType == ASSUME NEW len \in Nat PROVE WordsFor(len) \in Nat
  BY WordAssumption DEF WordsFor

\* A number of words needs as many words.
LEMMA WholeWords ==
    ASSUME NEW words \in Nat
    PROVE  words * bitsinablock \in Nat /\ WordsFor(words * bitsinablock) = words
  BY WordAssumption DEF WordsFor

\* The words are enough for the bits.
LEMMA Enough ==
    ASSUME NEW len \in Nat, NEW p \in Nat, p < len
    PROVE  bitInBlock(p) \in 0..WordsFor(len) - 1
<1> DEFINE q == bitInBlock(p)
           w == WordsFor(len)
<1>1. q \in Nat /\ q * bitsinablock <= p
  BY Position, WordAssumption
<1>2. w \in Nat /\ len <= w * bitsinablock
  BY WordAssumption DEF WordsFor
<1> HIDE DEF q, w
<1>3. q * bitsinablock < w * bitsinablock
  BY <1>1, <1>2, WordAssumption
<1>4. q < w
  BY <1>1, <1>2, <1>3, WordAssumption
<1> QED
  BY <1>1, <1>2, <1>4 DEF q, w

\* A bit of a word that is there is in front of the end of the words.
LEMMA BeforeEnd ==
    ASSUME NEW words \in Nat, NEW k \in 0..words - 1, NEW b \in 0..bitsinablock - 1
    PROVE  k * bitsinablock + b \in Nat /\ k * bitsinablock + b < words * bitsinablock
<1>1. k * bitsinablock + bitsinablock <= words * bitsinablock
  BY WordAssumption
<1>2. k * bitsinablock \in Nat /\ words * bitsinablock \in Nat
  BY WordAssumption
<1> QED
  BY <1>1, <1>2, WordAssumption

-----------------------------------------------------------------------------
(***************************************************************************)
(* A stream as the program keeps it.                                       *)
(***************************************************************************)
Bits_(d, len) == \A k \in 0..WordsFor(len) - 1 : \A b \in d[k] : k * bitsinablock + b < len

\* What a stream is: a length, the words it needs, an error code, and no bit
\* behind the end.
Kept(len, d, e) == Stream(len, WordsFor(len), d, e)

IsStream(t) ==
    \E len \in Nat, e \in {success, out_of_bounds} : \E d \in [0..WordsFor(len) - 1 -> Word] :
        t = Kept(len, d, e) /\ Bits_(d, len)

LEMMA StreamFields ==
    ASSUME NEW t, IsStream(t)
    PROVE  /\ t.reglengthbits \in Nat /\ t.errcode \in {success, out_of_bounds}
           /\ t.reglengthwords = WordsFor(t.reglengthbits) /\ t.reglengthwords \in Nat
           /\ t.regdata \in [0..t.reglengthwords - 1 -> Word]
           /\ Bits_(t.regdata, t.reglengthbits)
  BY WordsForType DEF IsStream, Stream, Kept

LEMMA IsWellFormed == IsStream(s) => WellFormed
<1> SUFFICES ASSUME IsStream(s) PROVE WellFormed
  OBVIOUS
<1>1. \A k \in DOMAIN s.regdata : s.regdata[k] \subseteq Inside(s, k)
  BY StreamFields DEF Bits_, Inside, Word
<1> QED
  BY <1>1, StreamFields DEF WellFormed

LEMMA EmptyIsStream == IsStream(EmptyStream)
<1>1. WordsFor(0) = 0
  BY WordAssumption DEF WordsFor
<1> DEFINE d == [k \in {} |-> {}]
<1>2. d \in [0..WordsFor(0) - 1 -> Word] /\ Bits_(d, 0)
  BY <1>1 DEF Bits_
<1> QED
  BY <1>1, <1>2 DEF IsStream, EmptyStream, Kept, success

\* The words of a stream may be exchanged, as long as the bits stay in front of the end.
LEMMA Exchanged ==
    ASSUME NEW t, IsStream(t), NEW d \in [0..t.reglengthwords - 1 -> Word],
           Bits_(d, t.reglengthbits), NEW e \in {success, out_of_bounds}
    PROVE  IsStream(Changed(t, d, e))
  BY StreamFields DEF IsStream, Changed, Kept

LEMMA Reported ==
    ASSUME NEW t, IsStream(t), NEW e \in {success, out_of_bounds}
    PROVE  IsStream([t EXCEPT !.errcode = e])
<1>1. PICK len \in Nat, c \in {success, out_of_bounds} :
         \E d \in [0..WordsFor(len) - 1 -> Word] : t = Kept(len, d, c) /\ Bits_(d, len)
  BY DEF IsStream
<1>2. PICK d \in [0..WordsFor(len) - 1 -> Word] : t = Kept(len, d, c) /\ Bits_(d, len)
  BY <1>1
<1>3. [t EXCEPT !.errcode = e] = Kept(len, d, e)
  BY <1>2 DEF Kept, Stream
<1> QED
  BY <1>2, <1>3 DEF IsStream

-----------------------------------------------------------------------------
(***************************************************************************)
(* The calls.                                                              *)
(***************************************************************************)
LEMMA ResizedType ==
    ASSUME NEW t, IsStream(t), NEW words \in Nat
    PROVE  Resized(t, words) \in [0..words - 1 -> Word]
  BY StreamFields DEF Resized, Word

LEMMA setNumBitsKeeps ==
    ASSUME NEW t, IsStream(t), NEW length \in Nat
    PROVE  IsStream(setNumBits(t, length)) /\ setNumBits(t, length).reglengthbits = length
<1> DEFINE w == WordsFor(length)
           old == Resized(t, w)
           d == [k \in 0..w - 1 |-> {b \in old[k] : k * bitsinablock + b < length}]
<1>1. w \in Nat /\ old \in [0..w - 1 -> Word]
  BY ResizedType, WordsForType
<1> HIDE DEF w, old
<1>2. d \in [0..w - 1 -> Word] /\ \A k \in 0..w - 1 : \A b \in d[k] : k * bitsinablock + b < length
  BY <1>1 DEF Word
<1>3. setNumBits(t, length) = Kept(length, d, t.errcode)
  BY DEF setNumBits, Kept, w, old
<1>4. t.errcode \in {success, out_of_bounds}
  BY StreamFields
<1>5. Kept(length, d, t.errcode).reglengthbits = length
  BY DEF Kept, Stream
<1> HIDE DEF d
<1> QED
  BY <1>2, <1>3, <1>4, <1>5 DEF IsStream, Bits_, w

LEMMA setNumWordsKeeps ==
    ASSUME NEW t, IsStream(t), NEW words \in Nat
    PROVE  /\ IsStream(setNumWords(t, words))
           /\ setNumWords(t, words).reglengthwords = words
<1> DEFINE d == Resized(t, words)
           len == words * bitsinablock
<1>1. d \in [0..words - 1 -> Word] /\ len \in Nat /\ WordsFor(len) = words
  BY ResizedType, WholeWords
<1>2. \A k \in 0..words - 1 : \A b \in d[k] : k * bitsinablock + b < len
  <2> SUFFICES ASSUME NEW k \in 0..words - 1, NEW b \in d[k] PROVE k * bitsinablock + b < len
    OBVIOUS
  <2>1. b \in 0..bitsinablock - 1
    BY <1>1 DEF Word
  <2> QED
    BY <2>1, BeforeEnd
<1> HIDE DEF d, len
<1>3. setNumWords(t, words) = Kept(len, d, t.errcode)
  BY <1>1 DEF setNumWords, Kept, d, len
<1>4. setNumWords(t, words).reglengthwords = words
  BY <1>1, <1>3 DEF Kept, Stream
<1>5. IsStream(Kept(len, d, t.errcode))
  <2>1. Bits_(d, len) /\ d \in [0..WordsFor(len) - 1 -> Word]
    BY <1>1, <1>2 DEF Bits_
  <2> QED
    BY <1>1, <2>1, StreamFields DEF IsStream
<1> QED
  BY <1>3, <1>4, <1>5

LEMMA setBitsKeeps ==
    ASSUME NEW t, IsStream(t), NEW P, NEW O, NEW last_
    PROVE  IsStream(setBits(t, P, O, last_)) /\ setBits(t, P, O, last_).reglengthbits = t.reglengthbits
<1> DEFINE d == [k \in DOMAIN t.regdata |->
                    {b \in 0..bitsinablock - 1 :
                        LET p == k * bitsinablock + b
                        IN  IF p \in P /\ p < t.reglengthbits THEN p \in O ELSE b \in t.regdata[k]}]
           e == IF P = {} THEN t.errcode
                ELSE IF last_ < t.reglengthbits THEN success ELSE out_of_bounds
<1>1. d \in [0..t.reglengthwords - 1 -> Word]
  BY StreamFields DEF Word
<1>2. Bits_(d, t.reglengthbits)
  BY StreamFields DEF Bits_
<1>3. e \in {success, out_of_bounds}
  BY StreamFields
<1>4. setBits(t, P, O, last_) = Changed(t, d, e)
  BY DEF setBits
<1> HIDE DEF d, e
<1>5. IsStream(Changed(t, d, e))
  BY <1>1, <1>2, <1>3, Exchanged
<1>6. Changed(t, d, e).reglengthbits = t.reglengthbits
  BY DEF Changed, Stream
<1> QED
  BY <1>4, <1>5, <1>6

LEMMA setWordKeeps ==
    ASSUME NEW t, IsStream(t), NEW k \in Nat, NEW v, NEW trunc \in BOOLEAN
    PROVE  IsStream(setWord(t, k, v, trunc))
<1>1. CASE k < t.reglengthwords
  <2> DEFINE d == [t.regdata EXCEPT ![k] = v \cap Inside(t, k)]
             e == IF v \subseteq Inside(t, k) \/ trunc THEN success ELSE out_of_bounds
  <2>1. v \cap Inside(t, k) \in Word
    BY DEF Inside, Word
  <2>2. d \in [0..t.reglengthwords - 1 -> Word]
    BY <2>1, StreamFields
  <2>3. Bits_(d, t.reglengthbits)
    BY <1>1, StreamFields DEF Bits_, Inside
  <2>4. setWord(t, k, v, trunc) = Changed(t, d, e)
    BY <1>1 DEF setWord
  <2>5. e \in {success, out_of_bounds}
    OBVIOUS
  <2> HIDE DEF d, e
  <2> QED
    BY <2>2, <2>3, <2>4, <2>5, Exchanged
<1>2. CASE ~(k < t.reglengthwords)
  BY <1>2, Reported DEF setWord
<1> QED
  BY <1>1, <1>2

LEMMA setWordMaskedKeeps ==
    ASSUME NEW t, IsStream(t), NEW k \in Nat, NEW v \in Word, NEW mask, NEW trunc \in BOOLEAN
    PROVE  IsStream(setWordMasked(t, k, v, mask, trunc))
<1>1. CASE IsFullWord(t, k)
  <2> DEFINE d == [t.regdata EXCEPT ![k] = v]
  <2>1. d \in [0..t.reglengthwords - 1 -> Word]
    BY StreamFields
  <2>2. Bits_(d, t.reglengthbits)
    <3>1. \A b \in v : b \in Inside(t, k)
      BY <1>1 DEF IsFullWord, Word
    <3> QED
      BY <1>1, <3>1, StreamFields DEF Bits_, Inside, IsFullWord
  <2>3. setWordMasked(t, k, v, mask, trunc) = Changed(t, d, success)
    BY <1>1 DEF setWordMasked
  <2> HIDE DEF d
  <2> QED
    BY <2>1, <2>2, <2>3, Exchanged
<1>2. CASE ~IsFullWord(t, k) /\ k < t.reglengthwords
  <2> DEFINE new == ((t.regdata[k] \ mask) \cup (v \cap mask)) \cap Inside(t, k)
             d == [t.regdata EXCEPT ![k] = new]
             e == IF v \cap mask \subseteq Inside(t, k) \/ trunc THEN success ELSE out_of_bounds
  <2>1. new \in Word
    BY DEF Inside, Word
  <2>2. d \in [0..t.reglengthwords - 1 -> Word]
    BY <2>1, StreamFields
  <2>3. Bits_(d, t.reglengthbits)
    <3>1. \A b \in new : k * bitsinablock + b < t.reglengthbits
      BY DEF Inside
    <3> HIDE DEF new
    <3> QED
      BY <1>2, <3>1, StreamFields DEF Bits_
  <2>4. setWordMasked(t, k, v, mask, trunc) = Changed(t, d, e)
    BY <1>2 DEF setWordMasked
  <2>5. e \in {success, out_of_bounds}
    OBVIOUS
  <2> HIDE DEF d, e
  <2> QED
    BY <2>2, <2>3, <2>4, <2>5, Exchanged
<1>3. CASE ~IsFullWord(t, k) /\ ~(k < t.reglengthwords)
  BY <1>3, Reported DEF setWordMasked
<1> QED
  BY <1>1, <1>2, <1>3

LEMMA SampleCountType ==
    ASSUME NEW t, IsStream(t), NEW offset \in Nat, NEW factor \in Nat \ {0}
    PROVE  SampleCount(t, offset, factor) \in Nat
<1>1. PICK len \in Nat : len = t.reglengthbits
  BY StreamFields
<1>2. len - 1 - offset \in Nat => (len - 1 - offset) \div factor \in Nat
  OBVIOUS
<1> QED
  BY <1>1, <1>2 DEF SampleCount

\* Whatever the call, what it leaves is a stream.
LEMMA CallKeeps ==
    ASSUME IsStream(s), NEW c \in Calls
    PROVE  IsStream(After(c))
<1>1. /\ c.op \in Op /\ c.pos \in Nat /\ c.n \in Nat /\ c.offset \in Nat
      /\ c.factor \in Nat \ {0} /\ c.reverse \in BOOLEAN /\ c.val \in Word
  BY CallsAssumption
<1>2. CASE c.op = "setNumBits"
  BY <1>1, <1>2, setNumBitsKeeps DEF After
<1>3. CASE c.op = "setNumWords"
  BY <1>1, <1>3, setNumWordsKeeps DEF After
<1>4. CASE c.op = "clear"
  BY <1>1, <1>4, setNumWordsKeeps DEF After, clearDataStream
<1>5. CASE c.op = "setBit"
  BY <1>1, <1>5, setBitsKeeps DEF After, setBit
<1>6. CASE c.op = "appendBit"
  <2>1. IsStream(setNumBits(s, s.reglengthbits + 1))
    BY setNumBitsKeeps, StreamFields
  <2> QED
    BY <1>6, <2>1, setBitsKeeps DEF After, appendBit, setBit
<1>7. CASE c.op = "setWord"
  BY <1>1, <1>7, setWordKeeps DEF After
<1>8. CASE c.op = "setWordMasked"
  BY <1>1, <1>8, setWordMaskedKeeps DEF After
<1>9. CASE c.op = "appendWord"
  <2>1. IsStream(setNumWords(s, s.reglengthwords + 1)) /\ s.reglengthwords \in Nat
    BY setNumWordsKeeps, StreamFields
  <2> QED
    BY <1>9, <2>1, setWordKeeps DEF After, appendWord
<1>10. CASE c.op = "setBitBlock"
  BY <1>1, <1>10, setBitsKeeps DEF After, setBitBlock
<1>11. CASE c.op = "importBinString"
  <2>1. c.pos + c.n \in Nat
    BY <1>1
  <2>2. IsStream(setNumBits(s, c.pos + c.n))
    BY <2>1, setNumBitsKeeps
  <2> QED
    BY <1>11, <2>2, setBitsKeeps DEF After, importBinString
<1>12. CASE c.op = "resample"
  <2> DEFINE count == SampleCount(s, c.pos, c.factor)
             moved == setBits(s, 0..count - 1,
                              {p \in 0..count - 1 : Sample(s, c.pos + p * c.factor, c.reverse)}, count - 1)
  <2>1. IsStream(moved) /\ count \in Nat
    BY <1>1, setBitsKeeps, SampleCountType
  <2>2. After(c) = setNumBits(moved, IF c.n = 0 THEN count ELSE c.n)
    BY <1>12 DEF After, resample
  <2> HIDE DEF count, moved
  <2> QED
    BY <1>1, <2>1, <2>2, setNumBitsKeeps
<1>13. CASE c.op = "get"
  BY <1>1, <1>13, Reported, StreamFields DEF After, getBitBlock_errcode, getBit_errcode
<1> QED
  BY <1>1, <1>2, <1>3, <1>4, <1>5, <1>6, <1>7, <1>8, <1>9, <1>10, <1>11, <1>12, <1>13 DEF Op

LEMMA AlwaysStream == Spec => []IsStream(s)
<1>1. Init => IsStream(s)
  BY EmptyIsStream DEF Init
<1>2. IsStream(s) /\ [Next]_vars => IsStream(s)'
  BY CallKeeps DEF Next, Call, vars
<1> QED
  BY <1>1, <1>2, PTL DEF Spec

\* The words are as many as the bits need, and the bits of the last word
\* behind the end are clear: what writeData() sends of a stream and what
\* sameDataStream() compares are whole words (setNumBits, setWord, setBit).
THEOREM StreamsAreWellFormed == Spec => []WellFormed
  BY IsWellFormed, AlwaysStream, PTL
-----------------------------------------------------------------------------
(***************************************************************************)
(* A value put into a block of bits comes back from there.                 *)
(***************************************************************************)
\* A bit after a series of setBit() calls.
LEMMA BitAfter ==
    ASSUME NEW t, IsStream(t), NEW P, NEW O, NEW last_,
           NEW p \in Nat, p < t.reglengthbits
    PROVE  getBit(setBits(t, P, O, last_), p) <=> IF p \in P THEN p \in O ELSE getBit(t, p)
<1> DEFINE d == [k \in DOMAIN t.regdata |->
                    {b \in 0..bitsinablock - 1 :
                        LET q == k * bitsinablock + b
                        IN  IF q \in P /\ q < t.reglengthbits THEN q \in O ELSE b \in t.regdata[k]}]
           e == IF P = {} THEN t.errcode
                ELSE IF last_ < t.reglengthbits THEN success ELSE out_of_bounds
           word == bitInBlock(p)
           bit == InBlock(p)
<1>1. word \in DOMAIN t.regdata
  BY Enough, StreamFields
<1>2. bit \in 0..bitsinablock - 1 /\ word * bitsinablock + bit = p
  BY Position
<1>3. setBits(t, P, O, last_).regdata = d
  BY DEF setBits, Changed, Stream
<1>4. setBits(t, P, O, last_).reglengthbits = t.reglengthbits
  BY setBitsKeeps
<1>5. bit \in d[word] <=> IF p \in P THEN p \in O ELSE bit \in t.regdata[word]
  <2> HIDE DEF word, bit
  <2> QED
    BY <1>1, <1>2
<1> HIDE DEF d
<1> QED
  BY <1>3, <1>4, <1>5 DEF getBit, IsSet

\* The positions of a block that is inside the stream do not wrap around.
LEMMA BlockPositions ==
    ASSUME NEW position \in Nat, NEW length \in Nat, position + length <= U32
    PROVE  /\ \A i \in 0..length - 1 : BlockPosition(position, i) = position + i
           /\ \A p \in position..position + length - 1 : (p - position) % U32 = p - position
           /\ {BlockPosition(position, i) : i \in 0..length - 1} = position..position + length - 1
<1>1. ASSUME NEW i \in 0..length - 1 PROVE (position + i) % U32 = position + i
  <2>1. position + i \in Nat /\ position + i < U32
    BY WordAssumption
  <2> QED
    BY <2>1, WordAssumption
<1>2. ASSUME NEW p \in position..position + length - 1 PROVE (p - position) % U32 = p - position
  <2>1. p - position \in Nat /\ p - position < U32
    BY WordAssumption
  <2> QED
    BY <2>1, WordAssumption
<1>3. \A i \in 0..length - 1 : BlockPosition(position, i) = position + i
  BY <1>1 DEF BlockPosition
<1>4. \A p \in position..position + length - 1 :
         p - position \in 0..length - 1 /\ position + (p - position) = p
  OBVIOUS
<1>5. \A i \in 0..length - 1 : position + i \in position..position + length - 1
  OBVIOUS
<1>6. {BlockPosition(position, i) : i \in 0..length - 1} = position..position + length - 1
  <2>1. \A i \in 0..length - 1 : BlockPosition(position, i) \in position..position + length - 1
    BY <1>3, <1>5
  <2>2. ASSUME NEW p \in position..position + length - 1
        PROVE  \E i \in 0..length - 1 : p = BlockPosition(position, i)
    <3> WITNESS p - position \in 0..length - 1
    <3> QED
      BY <1>3, <1>4
  <2> QED
    BY <2>1, <2>2
<1> QED
  BY <1>2, <1>3, <1>6

LEMMA BlockComesBack ==
    ASSUME NEW t, IsStream(t), t.reglengthbits <= U32,
           NEW position \in Nat, NEW length \in Nat, NEW offset \in Nat, NEW reverse \in BOOLEAN,
           position + length <= t.reglengthbits, offset + length <= bitsinablock,
           NEW value \in SUBSET (offset..offset + length - 1)
    PROVE  LET u == setBitBlock(t, position, length, value, offset, reverse)
               block == position..position + length - 1
           IN  /\ getBitBlock(u, position, length, offset, reverse) = value
               /\ exportBinString(u) \ block = exportBinString(t) \ block
<1> DEFINE block == position..position + length - 1
           at(p) == ValueBit(length, offset, reverse, (p - position) % U32)
           O == {p \in block : getIntBit(at(p), value)}
           u == setBits(t, block, O, BlockPosition(position, IF reverse THEN 0 ELSE length - 1))
<1>0. t.reglengthbits \in Nat /\ position + length <= U32
  BY StreamFields, WordAssumption
<1>1. setBitBlock(t, position, length, value, offset, reverse) = u
  BY <1>0, BlockPositions DEF setBitBlock
<1>2. u.reglengthbits = t.reglengthbits
  BY setBitsKeeps
<1>3. \A i \in 0..length - 1 : ValueBit(length, offset, reverse, i) \in offset..offset + length - 1
  BY DEF ValueBit
<1>4. \A p \in block : p \in Nat /\ p < t.reglengthbits
  BY <1>0
<1>5. \A p \in block : getBit(u, p) <=> p \in O
  <2> HIDE DEF block, O
  <2> QED
    BY <1>4, BitAfter
<1>6. \A p \in 0..t.reglengthbits - 1 : p \notin block => (getBit(u, p) <=> getBit(t, p))
  <2> HIDE DEF block, O
  <2>1. \A p \in 0..t.reglengthbits - 1 : p \in Nat /\ p < t.reglengthbits
    BY <1>0
  <2> QED
    BY <2>1, BitAfter
\* Place i of the block holds the bit of the value that belongs there.
<1>7. ASSUME NEW i \in 0..length - 1
      PROVE  getBit(u, BlockPosition(position, i)) <=> ValueBit(length, offset, reverse, i) \in value
  <2>0. position + i \in block
    OBVIOUS
  <2>1. BlockPosition(position, i) = position + i
    <3> HIDE DEF u
    <3> QED
      BY <1>0, BlockPositions
  <2>2. (position + i - position) % U32 = i
    <3>1. position + i - position = i /\ i < U32
      BY <1>0, WordAssumption
    <3> QED
      BY <3>1, WordAssumption
  <2>3. ValueBit(length, offset, reverse, i) \in offset..offset + length - 1
    BY <1>3
  <2>4. position + i \in O <=> getIntBit(ValueBit(length, offset, reverse, i), value)
    BY <2>0, <2>2
  <2>5. ValueBit(length, offset, reverse, i) < bitsinablock
    BY <2>3, WordAssumption
  <2> HIDE DEF u, O, block
  <2> QED
    BY <1>5, <2>0, <2>1, <2>4, <2>5 DEF getIntBit
\* Every bit of the value belongs to a place of the block.
<1>8. ASSUME NEW v \in offset..offset + length - 1
      PROVE  \E i \in 0..length - 1 : v = ValueBit(length, offset, reverse, i)
  <2>1. CASE reverse
    <3> WITNESS length - 1 - (v - offset) \in 0..length - 1
    <3> QED
      BY <2>1 DEF ValueBit
  <2>2. CASE ~reverse
    <3> WITNESS v - offset \in 0..length - 1
    <3> QED
      BY <2>2 DEF ValueBit
  <2> QED
    BY <2>1, <2>2
<1>9. getBitBlock(u, position, length, offset, reverse) = value
  <2>1. \A v \in value : v \in 0..bitsinablock - 1
    BY WordAssumption
  <2> HIDE DEF u
  <2> QED
    BY <1>7, <1>8, <2>1 DEF getBitBlock
<1>10. exportBinString(u) \ block = exportBinString(t) \ block
  <2> HIDE DEF u, block
  <2> QED
    BY <1>2, <1>6 DEF exportBinString
<1> HIDE DEF u
<1> QED
  BY <1>1, <1>9, <1>10

\* A value put into a block of bits comes back from there, and no other bit
\* changes, whatever the width of a word, the place and the length of the
\* block, the offset in the value and the order of the bits (setBitBlock,
\* getBitBlock): positions do not wrap around, as the stream is not longer
\* than an unsigned integer counts.
THEOREM BlocksComeBack == Spec => []BlockRoundTrip
<1> DEFINE I == IsStream(s) /\ s.reglengthbits <= MaxBits
<1>1. Init => I
  BY EmptyIsStream, CallsAssumption DEF Init, EmptyStream, Stream
<1>2. I /\ [Next]_vars => I'
  BY CallKeeps DEF Next, Call, vars
<1>3. I => BlockRoundTrip
  <2> SUFFICES ASSUME I,
                      NEW position \in 0..s.reglengthbits, NEW length \in 0..bitsinablock,
                      NEW offset \in 0..bitsinablock, NEW reverse \in BOOLEAN,
                      position + length <= s.reglengthbits, offset + length <= bitsinablock,
                      NEW value \in SUBSET (offset..offset + length - 1)
               PROVE  LET t == setBitBlock(s, position, length, value, offset, reverse)
                          block == position..position + length - 1
                      IN  /\ getBitBlock(t, position, length, offset, reverse) = value
                          /\ exportBinString(t) \ block = exportBinString(s) \ block
    BY DEF BlockRoundTrip
  <2>1. s.reglengthbits \in Nat
    BY StreamFields
  <2>2. s.reglengthbits <= U32
    BY <2>1, CallsAssumption, WordAssumption
  <2>3. position \in Nat /\ length \in Nat /\ offset \in Nat
    BY <2>1, WordAssumption
  <2> QED
    BY <2>2, <2>3, BlockComesBack
<1> QED
  BY <1>1, <1>2, <1>3, PTL DEF Spec

-----------------------------------------------------------------------------
(***************************************************************************)
(* The refinement: what each call does to the words is what BitStream says *)
(* of it for the bits.                                                     *)
(***************************************************************************)
Ones(t) == exportBinString(t)

LEMMA IsOne ==
    ASSUME NEW t, IsStream(t)
    PROVE  /\ Ones(t) = {p \in 0..t.reglengthbits - 1 : getBit(t, p)}
           /\ \A p : p \in Ones(t) => p \in Nat /\ p < t.reglengthbits
  BY StreamFields DEF exportBinString, Ones

\* A series of setBit() calls changes the bits it names.
LEMMA OnesSet ==
    ASSUME NEW t, IsStream(t), NEW P, NEW O, NEW last_
    PROVE  Ones(setBits(t, P, O, last_))
             = {p \in 0..t.reglengthbits - 1 : IF p \in P THEN p \in O ELSE p \in Ones(t)}
<1> DEFINE u == setBits(t, P, O, last_)
<1>1. IsStream(u) /\ u.reglengthbits = t.reglengthbits /\ t.reglengthbits \in Nat
  BY setBitsKeeps, StreamFields
<1>2. \A p \in 0..t.reglengthbits - 1 : p \in Nat /\ p < t.reglengthbits
  BY <1>1
<1>3. \A p \in 0..t.reglengthbits - 1 :
         getBit(u, p) <=> IF p \in P THEN p \in O ELSE p \in Ones(t)
  BY <1>1, <1>2, BitAfter, IsOne
<1> HIDE DEF u
<1>4. Ones(u) = {p \in 0..u.reglengthbits - 1 : getBit(u, p)}
  BY <1>1, IsOne
<1> QED
  BY <1>1, <1>3, <1>4 DEF u

\* A bit of the words that are kept, new words being 0.
LEMMA BitResized ==
    ASSUME NEW t, IsStream(t), NEW words \in Nat, NEW p \in Nat, bitInBlock(p) < words
    PROVE  InBlock(p) \in Resized(t, words)[bitInBlock(p)] <=> p \in Ones(t)
<1> DEFINE k == bitInBlock(p)
           b == InBlock(p)
<1>1. k \in Nat /\ b \in 0..bitsinablock - 1 /\ k * bitsinablock + b = p
  BY Position
<1>2. k \in 0..words - 1
  BY <1>1
<1>3. p \in Ones(t) <=> p < t.reglengthbits /\ b \in t.regdata[k]
  BY StreamFields DEF Ones, exportBinString, getBit, IsSet
<1>4. p < t.reglengthbits => k < t.reglengthwords
  <2>1. p < t.reglengthbits => k \in 0..t.reglengthwords - 1
    BY Enough, StreamFields
  <2> HIDE DEF k
  <2> QED
    BY <1>1, <2>1, StreamFields
<1>5. k < t.reglengthwords /\ b \in t.regdata[k] => p < t.reglengthbits
  <2> HIDE DEF k, b
  <2> QED
    BY <1>1, StreamFields DEF Bits_
<1>6. Resized(t, words)[k] = IF k < t.reglengthwords THEN t.regdata[k] ELSE {}
  <2> HIDE DEF k
  <2> QED
    BY <1>2 DEF Resized
<1> QED
  BY <1>3, <1>4, <1>5, <1>6

\* A stream that is made shorter or longer.
LEMMA OnesResized ==
    ASSUME NEW t, IsStream(t), NEW length \in Nat
    PROVE  Ones(setNumBits(t, length)) = {p \in Ones(t) : p < length}
<1> DEFINE w == WordsFor(length)
           u == setNumBits(t, length)
           d == [k \in 0..w - 1 |-> {b \in Resized(t, w)[k] : k * bitsinablock + b < length}]
<1>1. IsStream(u) /\ u.reglengthbits = length /\ w \in Nat
  BY setNumBitsKeeps, WordsForType
<1>2. u.regdata = d
  BY DEF setNumBits, Stream
<1>3. ASSUME NEW p \in Nat, p < length PROVE getBit(u, p) <=> p \in Ones(t)
  <2> DEFINE k == bitInBlock(p)
             b == InBlock(p)
  <2>1. k \in 0..w - 1 /\ k \in Nat /\ k * bitsinablock + b = p
    BY <1>3, Enough, Position
  <2>2. k < w
    BY <1>1, <2>1
  <2>3. b \in Resized(t, w)[k] <=> p \in Ones(t)
    BY <1>1, <2>2, BitResized
  <2>4. getBit(u, p) <=> b \in d[k]
    BY <1>1, <1>2, <1>3 DEF getBit, IsSet
  <2> HIDE DEF k, b, w
  <2> QED
    BY <1>3, <2>1, <2>3, <2>4
<1> HIDE DEF u
<1>4. Ones(u) = {p \in 0..length - 1 : getBit(u, p)}
  BY <1>1, IsOne
<1>5. \A p \in 0..length - 1 : p \in Nat /\ p < length
  OBVIOUS
<1>6. \A p \in Ones(t) : p < length => p \in 0..length - 1
  BY IsOne
<1>7. \A p \in Ones(u) : p \in Ones(t) /\ p < length
  BY <1>3, <1>4, <1>5
<1>8. \A p \in Ones(t) : p < length => p \in Ones(u)
  BY <1>3, <1>4, <1>5, <1>6
<1>9. Ones(u) = {p \in Ones(t) : p < length}
  BY <1>7, <1>8
<1> QED
  BY <1>9 DEF u

\* Whole words are as many bits.
LEMMA WordsAreBits ==
    ASSUME NEW t, IsStream(t), NEW words \in Nat
    PROVE  /\ words * bitsinablock \in Nat
           /\ setNumWords(t, words) = setNumBits(t, words * bitsinablock)
<1> DEFINE len == words * bitsinablock
           old == Resized(t, words)
<1>1. len \in Nat /\ WordsFor(len) = words
  BY WholeWords
<1>2. old \in [0..words - 1 -> Word]
  BY ResizedType
<1>3. \A k \in 0..words - 1 : \A b \in old[k] : k * bitsinablock + b < len
  <2> SUFFICES ASSUME NEW k \in 0..words - 1, NEW b \in old[k] PROVE k * bitsinablock + b < len
    OBVIOUS
  <2>1. b \in 0..bitsinablock - 1
    BY <1>2 DEF Word
  <2> QED
    BY <2>1, BeforeEnd
<1> DEFINE d == [k \in 0..words - 1 |-> {b \in old[k] : k * bitsinablock + b < len}]
<1> HIDE DEF old, len
<1>4. \A k \in 0..words - 1 : {b \in old[k] : k * bitsinablock + b < len} = old[k]
  BY <1>3
<1>5. d = [k \in 0..words - 1 |-> old[k]]
  BY <1>4
<1>6. old = [k \in 0..words - 1 |-> old[k]]
  BY <1>2
<1>7. old = d
  BY <1>5, <1>6
<1>8. setNumBits(t, len) = Stream(len, words, d, t.errcode)
  BY <1>1 DEF setNumBits, old
<1>9. setNumWords(t, words) = Stream(len, words, old, t.errcode)
  BY DEF setNumWords, old, len
<1> HIDE DEF d
<1>10. setNumWords(t, words) = setNumBits(t, len)
  BY <1>7, <1>8, <1>9
<1> QED
  BY <1>1, <1>10 DEF len

\* The bits of a word.
LEMMA BitsOfWord ==
    ASSUME NEW k \in Nat, NEW v \in Word, NEW p \in Nat
    PROVE  /\ p \in Bits!WordPositions(k) <=> bitInBlock(p) = k
           /\ p \in Bits!PlacedWord(k, v) <=> bitInBlock(p) = k /\ InBlock(p) \in v
<1> DEFINE q == bitInBlock(p)
           b == InBlock(p)
<1>1. q \in Nat /\ b \in 0..bitsinablock - 1 /\ q * bitsinablock + b = p
  BY Position
<1>2. ASSUME NEW c \in 0..bitsinablock - 1, k * bitsinablock + c = p
      PROVE  q = k /\ b = c
  BY <1>2, WordAssumption DEF bitInBlock, InBlock
<1> HIDE DEF q, b
<1>3. p \in Bits!WordPositions(k) <=> q = k
  <2>1. k * bitsinablock \in Nat
    BY WordAssumption
  <2>2. ASSUME p \in Bits!WordPositions(k) PROVE q = k
    <3>1. p - k * bitsinablock \in 0..bitsinablock - 1
      BY <2>1, <2>2, WordAssumption DEF Bits!WordPositions
    <3>2. k * bitsinablock + (p - k * bitsinablock) = p
      BY <2>1
    <3> QED
      BY <1>2, <3>1, <3>2
  <2>3. ASSUME q = k PROVE p \in Bits!WordPositions(k)
    BY <1>1, <2>1, <2>3, WordAssumption DEF Bits!WordPositions
  <2> QED
    BY <2>2, <2>3
<1>4. p \in Bits!PlacedWord(k, v) <=> q = k /\ b \in v
  BY <1>1, <1>2 DEF Bits!PlacedWord, Word
<1> QED
  BY <1>3, <1>4 DEF q, b

\* A word that is there is exchanged for another.
LEMMA OnesExchanged ==
    ASSUME NEW t, IsStream(t), NEW k \in Nat, k < t.reglengthwords, NEW v \in Word,
           v \subseteq Inside(t, k), NEW e \in {success, out_of_bounds}
    PROVE  LET u == Changed(t, [t.regdata EXCEPT ![k] = v], e)
           IN  /\ u.reglengthbits = t.reglengthbits
               /\ Ones(u) = {p \in 0..t.reglengthbits - 1 :
                               IF bitInBlock(p) = k THEN InBlock(p) \in v ELSE p \in Ones(t)}
<1> DEFINE d == [t.regdata EXCEPT ![k] = v]
           u == Changed(t, d, e)
<1>1. t.reglengthbits \in Nat /\ u.reglengthbits = t.reglengthbits /\ u.regdata = d
  BY StreamFields DEF Changed, Stream
<1>2. ASSUME NEW p \in 0..t.reglengthbits - 1
      PROVE  getBit(u, p) <=> IF bitInBlock(p) = k THEN InBlock(p) \in v ELSE p \in Ones(t)
  <2>1. bitInBlock(p) \in DOMAIN t.regdata /\ p < t.reglengthbits
    <3> HIDE DEF u, d
    <3>1. DOMAIN t.regdata = 0..WordsFor(t.reglengthbits) - 1
      BY StreamFields
    <3>2. p < t.reglengthbits /\ p \in Nat /\ t.reglengthbits \in Nat
      BY <1>1
    <3> QED
      BY <3>1, <3>2, Enough
  <2> HIDE DEF u
  <2> QED
    BY <1>1, <2>1 DEF getBit, IsSet, Ones, exportBinString
<1> HIDE DEF u
<1>3. Ones(u) = {p \in 0..t.reglengthbits - 1 : getBit(u, p)}
  BY <1>1 DEF Ones, exportBinString
<1> QED
  BY <1>1, <1>2, <1>3 DEF u

\* A bit of the stream that is in word k.
LEMMA InsideWord ==
    ASSUME NEW t, IsStream(t), NEW p \in 0..t.reglengthbits - 1
    PROVE  /\ p \in Nat /\ bitInBlock(p) < t.reglengthwords
           /\ InBlock(p) \in Inside(t, bitInBlock(p))
<1>1. p \in Nat /\ p < t.reglengthbits
  BY StreamFields
<1>2. bitInBlock(p) \in 0..t.reglengthwords - 1
  BY <1>1, Enough, StreamFields
<1>3. bitInBlock(p) < t.reglengthwords
  BY <1>2, StreamFields
<1> QED
  BY <1>1, <1>3, Position DEF Inside

\* setWord() puts the bits of the word that are in front of the end.
LEMMA OnesWord ==
    ASSUME NEW t, IsStream(t), NEW k \in Nat, NEW v \in Word, NEW trunc \in BOOLEAN
    PROVE  LET u == setWord(t, k, v, trunc)
           IN  /\ u.reglengthbits = t.reglengthbits
               /\ Ones(u) = {p \in 0..t.reglengthbits - 1 :
                               IF p \in Bits!WordPositions(k) THEN p \in Bits!PlacedWord(k, v)
                               ELSE p \in Ones(t)}
<1> DEFINE u == setWord(t, k, v, trunc)
           new == v \cap Inside(t, k)
           e == IF v \subseteq Inside(t, k) \/ trunc THEN success ELSE out_of_bounds
           at == {p \in 0..t.reglengthbits - 1 :
                    IF p \in Bits!WordPositions(k) THEN p \in Bits!PlacedWord(k, v)
                    ELSE p \in Ones(t)}
<1>1. at = {p \in 0..t.reglengthbits - 1 :
              IF bitInBlock(p) = k THEN InBlock(p) \in v ELSE p \in Ones(t)}
  <2>1. \A p \in 0..t.reglengthbits - 1 :
           /\ p \in Bits!WordPositions(k) <=> bitInBlock(p) = k
           /\ p \in Bits!PlacedWord(k, v) <=> bitInBlock(p) = k /\ InBlock(p) \in v
    BY InsideWord, BitsOfWord
  <2> QED
    BY <2>1
<1> HIDE DEF at
<1>2. CASE k < t.reglengthwords
  <2>1. u = Changed(t, [t.regdata EXCEPT ![k] = new], e)
    BY <1>2 DEF setWord
  <2>2. new \in Word /\ new \subseteq Inside(t, k) /\ e \in {success, out_of_bounds}
    BY DEF Word
  <2> HIDE DEF u, new, e
  <2>3. /\ u.reglengthbits = t.reglengthbits
        /\ Ones(u) = {p \in 0..t.reglengthbits - 1 :
                        IF bitInBlock(p) = k THEN InBlock(p) \in new ELSE p \in Ones(t)}
    BY <1>2, <2>1, <2>2, OnesExchanged
  <2>4. \A p \in 0..t.reglengthbits - 1 :
           bitInBlock(p) = k => (InBlock(p) \in new <=> InBlock(p) \in v)
    BY InsideWord DEF new
  <2>5. Ones(u) = at
    BY <1>1, <2>3, <2>4
  <2> QED
    BY <2>3, <2>5 DEF u, at
<1>3. CASE ~(k < t.reglengthwords)
  <2>1. u = [t EXCEPT !.errcode = out_of_bounds]
    BY <1>3 DEF setWord
  <2>2. u.reglengthbits = t.reglengthbits /\ Ones(u) = Ones(t)
    <3>1. u.reglengthbits = t.reglengthbits /\ u.regdata = t.regdata
      BY <2>1 DEF IsStream, Kept, Stream
    <3> HIDE DEF u
    <3> QED
      BY <3>1 DEF Ones, exportBinString, getBit, IsSet
  <2>3. \A p \in 0..t.reglengthbits - 1 : bitInBlock(p) # k
    BY <1>3, InsideWord
  <2>4. Ones(t) = at
    BY <1>1, <2>3, IsOne
  <2> HIDE DEF u
  <2> QED
    BY <2>2, <2>4 DEF u, at
<1> QED
  BY <1>2, <1>3

\* setWordMasked() puts the bits of the mask, unless it spares bits of a complete word.
LEMMA OnesMasked ==
    ASSUME NEW t, IsStream(t), NEW k \in Nat, NEW v \in Word, NEW mask \in Word,
           NEW trunc \in BOOLEAN,
           (k + 1) * bitsinablock <= t.reglengthbits => mask = 0..bitsinablock - 1
    PROVE  LET u == setWordMasked(t, k, v, mask, trunc)
           IN  /\ u.reglengthbits = t.reglengthbits
               /\ Ones(u) = {p \in 0..t.reglengthbits - 1 :
                               IF p \in Bits!PlacedWord(k, mask) THEN p \in Bits!PlacedWord(k, v)
                               ELSE p \in Ones(t)}
<1> DEFINE u == setWordMasked(t, k, v, mask, trunc)
           at == {p \in 0..t.reglengthbits - 1 :
                    IF p \in Bits!PlacedWord(k, mask) THEN p \in Bits!PlacedWord(k, v)
                    ELSE p \in Ones(t)}
<1>1. at = {p \in 0..t.reglengthbits - 1 :
              IF bitInBlock(p) = k /\ InBlock(p) \in mask THEN InBlock(p) \in v ELSE p \in Ones(t)}
  <2>1. \A p \in 0..t.reglengthbits - 1 :
           /\ p \in Bits!PlacedWord(k, mask) <=> bitInBlock(p) = k /\ InBlock(p) \in mask
           /\ p \in Bits!PlacedWord(k, v) <=> bitInBlock(p) = k /\ InBlock(p) \in v
    BY InsideWord, BitsOfWord
  <2> QED
    BY <2>1
<1> HIDE DEF at
<1>2. CASE IsFullWord(t, k)
  <2>1. u = Changed(t, [t.regdata EXCEPT ![k] = v], success)
    BY <1>2 DEF setWordMasked
  <2>2. k < t.reglengthwords /\ v \subseteq Inside(t, k)
    BY <1>2 DEF IsFullWord, Word
  <2>3. mask = 0..bitsinablock - 1
    <3>1. bitsinablock - 1 \in Inside(t, k)
      BY <1>2, WordAssumption DEF IsFullWord
    <3>2. k * bitsinablock + (bitsinablock - 1) < t.reglengthbits
      BY <3>1 DEF Inside
    <3>3. (k + 1) * bitsinablock = k * bitsinablock + bitsinablock /\ k * bitsinablock \in Nat
      BY WordAssumption
    <3>4. (k + 1) * bitsinablock <= t.reglengthbits
      BY <3>2, <3>3, StreamFields, WordAssumption
    <3> QED
      BY <3>4
  <2> HIDE DEF u
  <2>4. /\ u.reglengthbits = t.reglengthbits
        /\ Ones(u) = {p \in 0..t.reglengthbits - 1 :
                        IF bitInBlock(p) = k THEN InBlock(p) \in v ELSE p \in Ones(t)}
    BY <2>1, <2>2, OnesExchanged
  <2>5. \A p \in 0..t.reglengthbits - 1 : InBlock(p) \in mask
    BY <2>3, InsideWord, Position
  <2>6. Ones(u) = at
    BY <1>1, <2>4, <2>5
  <2> QED
    BY <2>4, <2>6 DEF u, at
<1>3. CASE ~IsFullWord(t, k) /\ k < t.reglengthwords
  <2> DEFINE new == ((t.regdata[k] \ mask) \cup (v \cap mask)) \cap Inside(t, k)
             e == IF v \cap mask \subseteq Inside(t, k) \/ trunc THEN success ELSE out_of_bounds
  <2>1. u = Changed(t, [t.regdata EXCEPT ![k] = new], e)
    BY <1>3 DEF setWordMasked
  <2>2. new \in Word /\ new \subseteq Inside(t, k) /\ e \in {success, out_of_bounds}
    BY DEF Word, Inside
  <2>3. ASSUME NEW p \in 0..t.reglengthbits - 1, bitInBlock(p) = k
        PROVE  InBlock(p) \in new <=> IF InBlock(p) \in mask THEN InBlock(p) \in v ELSE p \in Ones(t)
    <3>1. InBlock(p) \in Inside(t, k)
      BY <2>3, InsideWord
    <3>2. p \in Ones(t) <=> InBlock(p) \in t.regdata[k]
      <4>1. p < t.reglengthbits
        BY StreamFields
      <4> QED
        BY <2>3, <4>1 DEF Ones, exportBinString, getBit, IsSet
    <3> QED
      BY <3>1, <3>2
  <2> HIDE DEF u, new, e
  <2>4. /\ u.reglengthbits = t.reglengthbits
        /\ Ones(u) = {p \in 0..t.reglengthbits - 1 :
                        IF bitInBlock(p) = k THEN InBlock(p) \in new ELSE p \in Ones(t)}
    BY <1>3, <2>1, <2>2, OnesExchanged
  <2>5. Ones(u) = at
    BY <1>1, <2>3, <2>4
  <2> QED
    BY <2>4, <2>5 DEF u, at
<1>4. CASE ~IsFullWord(t, k) /\ ~(k < t.reglengthwords)
  <2>1. u = [t EXCEPT !.errcode = out_of_bounds]
    BY <1>4 DEF setWordMasked
  <2>2. u.reglengthbits = t.reglengthbits /\ u.regdata = t.regdata
    BY <2>1 DEF IsStream, Kept, Stream
  <2>3. \A p \in 0..t.reglengthbits - 1 : bitInBlock(p) # k
    BY <1>4, InsideWord
  <2>4. Ones(t) = at
    BY <1>1, <2>3, IsOne
  <2> HIDE DEF u
  <2>5. Ones(u) = Ones(t)
    BY <2>2 DEF Ones, exportBinString, getBit, IsSet
  <2> QED
    BY <2>2, <2>4, <2>5 DEF u, at
<1> QED
  BY <1>2, <1>3, <1>4

\* The samples of a stream are its own bits, and no more than it has.
LEMMA SamplesAreBits ==
    ASSUME NEW t, IsStream(t), NEW offset \in Nat, NEW factor \in Nat \ {0}, NEW reverse \in BOOLEAN,
           NEW p \in 0..SampleCount(t, offset, factor) - 1
    PROVE  LET i == offset + p * factor
               k == i \div bitsinablock
           IN  /\ p < t.reglengthbits
               /\ Sample(t, i, reverse) <=>
                    (IF reverse THEN k * bitsinablock + (bitsinablock - 1 - (i % bitsinablock)) ELSE i)
                        \in Ones(t)
<1> DEFINE len == t.reglengthbits
           i == offset + p * factor
           k == bitInBlock(i)
           b == IF reverse THEN bitsinablock - 1 - InBlock(i) ELSE InBlock(i)
           n == (len - 1 - offset) \div factor
<1> HIDE DEF i, n, k, b
<1>1. len \in Nat /\ p \in Nat /\ SampleCount(t, offset, factor) \in Nat
  <2>1. SampleCount(t, offset, factor) \in Nat
    BY SampleCountType
  <2>2. len \in Nat
    BY StreamFields
  <2> QED
    BY <2>1, <2>2
<1> USE DEF i, n, k, b
<1>2. offset < len /\ p <= n
  BY <1>1 DEF SampleCount
<1>3. p * factor <= len - 1 - offset
  <2>1. n \in Nat /\ n * factor <= len - 1 - offset
    BY <1>1, <1>2
  <2> HIDE DEF n
  <2>2. p * factor <= n * factor
    BY <1>1, <1>2, <2>1
  <2>3. p * factor \in Nat /\ n * factor \in Nat
    BY <1>1, <2>1
  <2> QED
    BY <1>1, <2>1, <2>2, <2>3
<1>4. p * factor \in Nat /\ p <= p * factor
  BY <1>1
<1>5. i \in Nat /\ i < len /\ p < len
  BY <1>1, <1>2, <1>3, <1>4
<1> HIDE DEF i, n
<1>6. k \in Nat /\ k < t.reglengthwords /\ InBlock(i) \in 0..bitsinablock - 1
      /\ k * bitsinablock + InBlock(i) = i
  <2>1. i \in 0..t.reglengthbits - 1
    BY <1>1, <1>5
  <2> QED
    BY <1>5, <2>1, InsideWord, Position
<1>7. b \in 0..bitsinablock - 1
  BY <1>6, WordAssumption
<1>8. Sample(t, i, reverse) <=> b \in t.regdata[k]
  BY DEF Sample
<1>9. b \in t.regdata[k] <=> k * bitsinablock + b \in Ones(t)
  <2> HIDE DEF k, b
  <2>1. k * bitsinablock + b \in Nat
    BY <1>6, <1>7, WordAssumption
  <2>2. /\ bitInBlock(k * bitsinablock + b) = k /\ InBlock(k * bitsinablock + b) = b
    BY <1>6, <1>7, WordAssumption DEF bitInBlock, InBlock
  <2>3. b \in t.regdata[k] => k * bitsinablock + b < t.reglengthbits
    BY <1>6, StreamFields DEF Bits_
  <2> HIDE DEF len
  <2> QED
    BY <1>1, <2>1, <2>2, <2>3 DEF Ones, exportBinString, getBit, IsSet, len
<1>10. k * bitsinablock + b = IF reverse THEN k * bitsinablock + (bitsinablock - 1 - InBlock(i)) ELSE i
  BY <1>6
<1> QED
  BY <1>5, <1>8, <1>9, <1>10 DEF i, bitInBlock, InBlock

\* A stream that is made longer first keeps its bits.
LEMMA OnesSetLonger ==
    ASSUME NEW t, IsStream(t), NEW n \in Nat, t.reglengthbits <= n, NEW P, NEW O, NEW last_
    PROVE  LET u == setBits(setNumBits(t, n), P, O, last_)
           IN  /\ u.reglengthbits = n
               /\ Ones(u) = {p \in 0..n - 1 : IF p \in P THEN p \in O ELSE p \in Ones(t)}
<1> DEFINE longer == setNumBits(t, n)
<1>1. IsStream(longer) /\ longer.reglengthbits = n
  BY setNumBitsKeeps
<1>2. \A p \in 0..n - 1 : p \in Ones(longer) <=> p \in Ones(t)
  BY OnesResized
<1> HIDE DEF longer
<1>3. /\ setBits(longer, P, O, last_).reglengthbits = n
      /\ Ones(setBits(longer, P, O, last_))
           = {p \in 0..n - 1 : IF p \in P THEN p \in O ELSE p \in Ones(longer)}
  BY <1>1, setBitsKeeps, OnesSet
<1> QED
  BY <1>2, <1>3 DEF longer

LEMMA BlockIsPut ==
    ASSUME NEW t, IsStream(t), NEW c \in Calls, c.pos + c.n <= U32
    PROVE  LET u == setBitBlock(t, c.pos, c.n, c.val, c.offset, c.reverse)
               P == c.pos..c.pos + c.n - 1
               O == {c.pos + i : i \in {j \in 0..c.n - 1 :
                       c.offset + (IF c.reverse THEN c.n - 1 - j ELSE j) \in c.val}}
           IN  /\ u.reglengthbits = t.reglengthbits
               /\ Ones(u) = {p \in 0..t.reglengthbits - 1 :
                               IF p \in P THEN p \in O ELSE p \in Ones(t)}
<1> DEFINE P == c.pos..c.pos + c.n - 1
           at(p) == ValueBit(c.n, c.offset, c.reverse, (p - c.pos) % U32)
           Q == {p \in P : getIntBit(at(p), c.val)}
           O == {c.pos + i : i \in {j \in 0..c.n - 1 :
                       c.offset + (IF c.reverse THEN c.n - 1 - j ELSE j) \in c.val}}
           l == BlockPosition(c.pos, IF c.reverse THEN 0 ELSE c.n - 1)
           u == setBits(t, P, Q, l)
<1>0. /\ c.pos \in Nat /\ c.n \in Nat /\ c.offset \in Nat
      /\ c.reverse \in BOOLEAN /\ c.val \in Word
  BY CallsAssumption
<1>1. setBitBlock(t, c.pos, c.n, c.val, c.offset, c.reverse) = u
  BY <1>0, BlockPositions DEF setBitBlock
<1>2. ASSUME NEW p \in P PROVE p \in Q <=> p \in O
  <2>1. (p - c.pos) % U32 = p - c.pos /\ p - c.pos \in 0..c.n - 1
        /\ c.pos + (p - c.pos) = p
    <3>1. (p - c.pos) % U32 = p - c.pos
      BY <1>0, BlockPositions
    <3> QED
      BY <1>0, <3>1
  <2>2. p \in Q <=> at(p) \in c.val
    <3>1. p \in Q <=> getIntBit(at(p), c.val)
      OBVIOUS
    <3>2. \A x \in c.val : x < bitsinablock
      BY <1>0, WordAssumption DEF Word
    <3> HIDE DEF at, Q
    <3> QED
      BY <3>1, <3>2 DEF getIntBit
  <2>3. at(p) = c.offset + (IF c.reverse THEN c.n - 1 - (p - c.pos) ELSE p - c.pos)
    BY <1>0, <2>1 DEF ValueBit
  <2>4. p \in O <=> c.offset + (IF c.reverse THEN c.n - 1 - (p - c.pos) ELSE p - c.pos) \in c.val
    BY <1>0, <2>1
  <2> QED
    BY <2>2, <2>3, <2>4
<1> HIDE DEF P, Q, O, l
<1>3. /\ u.reglengthbits = t.reglengthbits
      /\ Ones(u) = {p \in 0..t.reglengthbits - 1 : IF p \in P THEN p \in Q ELSE p \in Ones(t)}
  BY setBitsKeeps, OnesSet
<1> HIDE DEF u
<1>4. Ones(u) = {p \in 0..t.reglengthbits - 1 : IF p \in P THEN p \in O ELSE p \in Ones(t)}
  BY <1>2, <1>3
<1> QED
  BY <1>1, <1>3, <1>4 DEF P, O

LEMMA OnesSampled ==
    ASSUME NEW t, IsStream(t), NEW c \in Calls, c.op = "resample",
           c.n <= SampleCount(t, c.pos, c.factor)
    PROVE  LET u == resample(t, c.pos, c.factor, c.reverse, c.n)
               n == IF c.n # 0 /\ c.n < SampleCount(t, c.pos, c.factor)
                    THEN c.n ELSE SampleCount(t, c.pos, c.factor)
           IN  /\ u.reglengthbits = n
               /\ Ones(u) = {p \in 0..n - 1 : Bits!Source(c, p) \in Ones(t)}
<1> DEFINE count == SampleCount(t, c.pos, c.factor)
           n == IF c.n # 0 /\ c.n < count THEN c.n ELSE count
           P == 0..count - 1
           O == {p \in P : Sample(t, c.pos + p * c.factor, c.reverse)}
           moved == setBits(t, P, O, count - 1)
           u == setNumBits(moved, n)
<1>1. c.pos \in Nat /\ c.n \in Nat /\ c.factor \in Nat \ {0} /\ c.reverse \in BOOLEAN
  BY CallsAssumption
<1>2. count \in Nat
  BY <1>1, SampleCountType
<1>3. n \in Nat /\ n <= count /\ n = IF c.n = 0 THEN count ELSE c.n
  BY <1>1, <1>2
<1>4. resample(t, c.pos, c.factor, c.reverse, c.n) = u
  BY <1>3 DEF resample
<1>5. \A p \in P : p < t.reglengthbits /\ (p \in O <=> Bits!Source(c, p) \in Ones(t))
  BY <1>1, SamplesAreBits DEF Bits!Source
<1> HIDE DEF count, n, O
<1>6. Ones(moved) = {p \in 0..t.reglengthbits - 1 : IF p \in P THEN p \in O ELSE p \in Ones(t)}
  <2> HIDE DEF P
  <2> QED
    BY OnesSet
<1>7. IsStream(moved)
  BY setBitsKeeps
<1> HIDE DEF moved
<1>8. u.reglengthbits = n /\ Ones(u) = {p \in Ones(moved) : p < n}
  BY <1>3, <1>7, setNumBitsKeeps, OnesResized
<1>9. t.reglengthbits \in Nat
  BY StreamFields
<1>10. Ones(u) = {p \in 0..n - 1 : Bits!Source(c, p) \in Ones(t)}
  <2> HIDE DEF u
  <2>1. \A p \in 0..n - 1 : p \in P /\ p \in 0..t.reglengthbits - 1 /\ p < n
    BY <1>2, <1>3, <1>5, <1>9
  <2>2. \A p \in 0..t.reglengthbits - 1 : p < n => p \in 0..n - 1
    BY <1>3, <1>9
  <2> QED
    BY <1>5, <1>6, <1>8, <2>1, <2>2
<1> QED
  BY <1>4, <1>8, <1>10 DEF n, count

\* What the words show of the bits after a call: the bits the call names are as it says.
LEMMA CallRefines ==
    ASSUME IsStream(s), NEW c \in Calls, s' = After(c)
    PROVE  Bits!Do(c) \/ (Bits!Unpromised(c) /\ Bits!SomeStream)
<1> DEFINE u == After(c)
           len == s.reglengthbits
           Meets(n, S) == u.reglengthbits = n /\ Ones(u) = S
<1>1. /\ c.op \in Op /\ c.pos \in Nat /\ c.n \in Nat /\ c.offset \in Nat
      /\ c.factor \in Nat \ {0} /\ c.reverse \in BOOLEAN /\ c.val \in Word /\ c.mask \in Word
  BY CallsAssumption
<1>2. len \in Nat /\ s.reglengthwords = WordsFor(len) /\ s.reglengthwords \in Nat
  BY StreamFields
<1>3. /\ s'.reglengthbits = u.reglengthbits /\ exportBinString(s)' = Ones(u)
      /\ exportBinString(s) = Ones(s)
  BY DEF Ones, exportBinString, getBit, IsSet
<1>4. Bits!SomeStream
  <2>1. IsStream(u)
    BY CallKeeps
  <2> HIDE DEF u
  <2>2. u.reglengthbits \in Nat /\ Ones(u) \subseteq 0..u.reglengthbits - 1
    BY <2>1, StreamFields, IsOne
  <2> QED
    BY <1>3, <2>2 DEF Bits!SomeStream
<1>5. CASE c.op = "setNumBits"
  <2>1. Meets(c.n, {p \in Ones(s) : p < c.n})
    BY <1>1, <1>5, setNumBitsKeeps, OnesResized DEF After
  <2> QED
    BY <1>3, <1>5, <2>1 DEF Bits!Do, Bits!Resize
<1>6. CASE c.op = "setNumWords"
  <2>1. u = setNumBits(s, c.n * bitsinablock) /\ c.n * bitsinablock \in Nat
    BY <1>1, <1>6, WordsAreBits DEF After
  <2>2. Meets(c.n * bitsinablock, {p \in Ones(s) : p < c.n * bitsinablock})
    BY <2>1, setNumBitsKeeps, OnesResized
  <2> QED
    BY <1>3, <1>6, <2>2 DEF Bits!Do, Bits!Resize
<1>7. CASE c.op = "clear"
  <2>1. u = setNumBits(s, 0)
    BY <1>7, WordsAreBits, WordAssumption DEF After, clearDataStream
  <2>2. Meets(0, {p \in Ones(s) : p < 0})
    BY <2>1, setNumBitsKeeps, OnesResized
  <2> QED
    BY <1>3, <1>7, <2>2 DEF Bits!Do, Bits!Resize
<1>8. CASE c.op = "setBit"
  <2> DEFINE O == IF c.val # {} THEN {c.pos} ELSE {}
  <2>1. u = setBits(s, {c.pos}, O, c.pos)
    BY <1>8 DEF After, setBit
  <2> HIDE DEF O, u
  <2>2. Meets(len, {p \in 0..len - 1 : IF p \in {c.pos} THEN p \in O ELSE p \in Ones(s)})
    BY <2>1, setBitsKeeps, OnesSet
  <2> QED
    BY <1>3, <1>8, <2>2 DEF Bits!Do, Bits!Put, O
<1>9. CASE c.op = "appendBit"
  <2> DEFINE O == IF c.val # {} THEN {len} ELSE {}
  <2>1. u = setBits(setNumBits(s, len + 1), {len}, O, len)
    BY <1>9 DEF After, appendBit, setBit
  <2> HIDE DEF O, u
  <2>2. Meets(len + 1, {p \in 0..len + 1 - 1 : IF p \in {len} THEN p \in O ELSE p \in Ones(s)})
    BY <1>2, <2>1, OnesSetLonger
  <2> QED
    BY <1>2, <1>3, <1>9, <2>2 DEF Bits!Do, Bits!PutExtended, O
<1>10. CASE c.op = "setWord"
  <2>1. Meets(len, {p \in 0..len - 1 : IF p \in Bits!WordPositions(c.pos)
                                       THEN p \in Bits!PlacedWord(c.pos, c.val) ELSE p \in Ones(s)})
    BY <1>1, <1>10, OnesWord DEF After
  <2> HIDE DEF u
  <2> QED
    BY <1>3, <1>10, <2>1 DEF Bits!Do, Bits!Put
<1>11. CASE c.op = "setWordMasked"
  <2>1. CASE Bits!Unpromised(c)
    BY <1>4, <2>1
  <2>2. CASE ~Bits!Unpromised(c)
    <3>1. (c.pos + 1) * bitsinablock <= len => c.mask = 0..bitsinablock - 1
      BY <1>11, <2>2 DEF Bits!Unpromised
    <3>2. u = setWordMasked(s, c.pos, c.val, c.mask, c.reverse)
      BY <1>11 DEF After
    <3> HIDE DEF u
    <3>3. Meets(len, {p \in 0..len - 1 : IF p \in Bits!PlacedWord(c.pos, c.mask)
                                         THEN p \in Bits!PlacedWord(c.pos, c.val) ELSE p \in Ones(s)})
      BY <1>1, <3>1, <3>2, OnesMasked
    <3> QED
      BY <1>3, <1>11, <3>3 DEF Bits!Do, Bits!Put
  <2> QED
    BY <2>1, <2>2
<1>12. CASE c.op = "appendWord"
  <2> DEFINE w == s.reglengthwords
             n == (w + 1) * bitsinablock
             longer == setNumBits(s, n)
  <2>1. n \in Nat /\ setNumWords(s, w + 1) = longer
    BY <1>2, WordsAreBits
  <2>2. u = setWord(longer, w, c.val, FALSE)
    BY <1>12, <2>1 DEF After, appendWord
  <2>3. IsStream(longer) /\ longer.reglengthbits = n /\ Ones(longer) = {p \in Ones(s) : p < n}
    BY <2>1, setNumBitsKeeps, OnesResized
  <2>4. len < n
    BY <1>2, WordAssumption DEF WordsFor
  <2> HIDE DEF longer, n, u
  <2>5. Meets(n, {p \in 0..n - 1 : IF p \in Bits!WordPositions(w)
                                   THEN p \in Bits!PlacedWord(w, c.val) ELSE p \in Ones(longer)})
    <3>1. FALSE \in BOOLEAN /\ w \in Nat /\ c.val \in Word /\ IsStream(longer)
      BY <1>1, <1>2, <2>3
    <3> HIDE DEF w
    <3>2. LET t == setWord(longer, w, c.val, FALSE)
          IN  /\ t.reglengthbits = longer.reglengthbits
              /\ Ones(t) = {p \in 0..longer.reglengthbits - 1 :
                              IF p \in Bits!WordPositions(w) THEN p \in Bits!PlacedWord(w, c.val)
                              ELSE p \in Ones(longer)}
      BY <3>1, OnesWord
    <3> QED
      BY <2>2, <2>3, <3>2
  <2>6. \A p \in 0..n - 1 : p \in Ones(longer) <=> p \in Ones(s)
    BY <2>1, <2>3
  <2>7. Meets(n, {p \in 0..n - 1 : IF p \in Bits!WordPositions(w)
                                   THEN p \in Bits!PlacedWord(w, c.val) ELSE p \in Ones(s)})
    BY <2>5, <2>6
  <2>8. Bits!Words = w
    BY <1>2 DEF Bits!Words, WordsFor
  <2>9. Bits!PutExtended(n, Bits!WordPositions(w), Bits!PlacedWord(w, c.val))
    BY <1>3, <2>4, <2>7 DEF Bits!PutExtended
  <2> QED
    BY <1>12, <2>8, <2>9 DEF Bits!Do, n
<1>13. CASE c.op = "setBitBlock"
  <2>1. CASE Bits!Unpromised(c)
    BY <1>4, <2>1
  <2>2. CASE ~Bits!Unpromised(c)
    <3> DEFINE P == c.pos .. c.pos + c.n - 1
               O == {c.pos + i : i \in {j \in 0..c.n - 1 :
                       c.offset + (IF c.reverse THEN c.n - 1 - j ELSE j) \in c.val}}
    <3>1. c.pos + c.n <= U32
      BY <1>1, <1>13, <2>2, WordAssumption DEF Bits!Unpromised
    <3>2. u = setBitBlock(s, c.pos, c.n, c.val, c.offset, c.reverse)
      BY <1>13 DEF After
    <3> HIDE DEF u
    <3>3. Meets(len, {p \in 0..len - 1 : IF p \in P THEN p \in O ELSE p \in Ones(s)})
      BY <3>1, <3>2, BlockIsPut
    <3> QED
      BY <1>3, <1>13, <3>3 DEF Bits!Do, Bits!Put, Bits!setBitBlock
  <2> QED
    BY <2>1, <2>2
<1>14. CASE c.op = "importBinString"
  <2> DEFINE n == c.pos + c.n
             P == c.pos..c.pos + c.n - 1
             O == {c.pos + i : i \in c.val}
  <2>0. u = setBits(IF len < n THEN setNumBits(s, n) ELSE s, P, O, n - 1)
    <3>1. u = importBinString(s, c.n, c.val, c.pos)
      BY <1>14 DEF After
    <3>2. importBinString(s, c.n, c.val, c.pos)
            = setBits(IF len < c.pos + c.n THEN setNumBits(s, c.pos + c.n) ELSE s, P, O,
                      c.pos + c.n - 1)
      BY DEF importBinString
    <3>3. c.pos + c.n - 1 = n - 1
      BY <1>1
    <3> HIDE DEF u, O, P
    <3> QED
      BY <3>1, <3>2, <3>3
  <2>1. n \in Nat
    BY <1>1
  <2> HIDE DEF u
  <2>2. CASE len < n
    <3>1. u = setBits(setNumBits(s, n), P, O, n - 1)
      <4> HIDE DEF P, O
      <4> QED
        BY <2>0, <2>2
    <3> HIDE DEF P, O
    <3>2. Meets(n, {p \in 0..n - 1 : IF p \in P THEN p \in O ELSE p \in Ones(s)})
      BY <1>2, <2>1, <2>2, <3>1, OnesSetLonger
    <3> QED
      BY <1>3, <1>14, <2>2, <3>2 DEF Bits!Do, Bits!PutExtended, P, O
  <2>3. CASE ~(len < n)
    <3>1. u = setBits(s, P, O, n - 1)
      <4> HIDE DEF P, O
      <4> QED
        BY <2>0, <2>3
    <3> HIDE DEF P, O
    <3>2. Meets(len, {p \in 0..len - 1 : IF p \in P THEN p \in O ELSE p \in Ones(s)})
      BY <3>1, setBitsKeeps, OnesSet
    <3> QED
      BY <1>3, <1>14, <2>3, <3>2 DEF Bits!Do, Bits!PutExtended, P, O
  <2> QED
    BY <2>2, <2>3
<1>15. CASE c.op = "resample"
  <2> DEFINE count == SampleCount(s, c.pos, c.factor)
             n == IF c.n # 0 /\ c.n < count THEN c.n ELSE count
  <2>1. count = Bits!SampleCount(c)
    BY DEF SampleCount, Bits!SampleCount
  <2>2. CASE Bits!Unpromised(c)
    BY <1>4, <2>2
  <2>3. CASE ~Bits!Unpromised(c)
    <3>1. c.n <= count
      BY <1>1, <1>15, <2>1, <2>3, SampleCountType DEF Bits!Unpromised
    <3>2. u = resample(s, c.pos, c.factor, c.reverse, c.n)
      BY <1>15 DEF After
    <3> HIDE DEF u
    <3>3. Meets(n, {p \in 0..n - 1 : Bits!Source(c, p) \in Ones(s)})
      BY <1>15, <3>1, <3>2, OnesSampled
    <3> QED
      BY <1>3, <1>15, <2>1, <3>3 DEF Bits!Do, Bits!resample, Bits!Source
  <2> QED
    BY <2>2, <2>3
<1>16. CASE c.op = "get"
  <2>1. u.reglengthbits = len /\ u.regdata = s.regdata
    BY <1>16 DEF After, IsStream, Kept, Stream
  <2>2. Ones(u) = Ones(s)
    <3> HIDE DEF u
    <3> QED
      BY <2>1 DEF Ones, exportBinString, getBit, IsSet
  <2> QED
    BY <1>3, <1>16, <2>1, <2>2 DEF Bits!Do
<1> QED
  BY <1>1, <1>5, <1>6, <1>7, <1>8, <1>9, <1>10, <1>11, <1>12, <1>13, <1>14, <1>15, <1>16 DEF Op

\* The stream of words is a stream of bits: each call does to the bits what is promised of
\* it (mrfdata.h), for words of any width, any places, lengths and masks, except where the
\* code is known to differ (BitStream!Unpromised).
THEOREM WordsImplementBits == Spec => ImplementsBitStream
<1>1. Init => Bits!Init
  BY DEF Init, Bits!Init, EmptyStream, Stream, exportBinString
<1>2. IsStream(s) /\ [Next]_vars => [Bits!Next]_Bits!vars
  <2> SUFFICES ASSUME IsStream(s), [Next]_vars PROVE [Bits!Next]_Bits!vars
    OBVIOUS
  <2>1. CASE Next
    <3>1. PICK c \in Calls : s' = After(c) /\ last' = c
      BY <2>1 DEF Next, Call
    <3>2. Bits!Do(c) \/ (Bits!Unpromised(c) /\ Bits!SomeStream)
      BY <3>1, CallRefines
    <3> QED
      BY <3>1, <3>2 DEF Bits!Next
  <2>2. CASE UNCHANGED vars
    BY <2>2 DEF vars, Bits!vars, exportBinString, getBit, IsSet
  <2> QED
    BY <2>1, <2>2
<1> QED
  BY <1>1, <1>2, AlwaysStream, PTL DEF Spec, ImplementsBitStream, Bits!Spec
-----------------------------------------------------------------------------
(***************************************************************************)
(* Items: the classes of the library are tables of them.  MCChipData       *)
(* assumes, and TLC evaluates, that the real tables are proper.            *)
(***************************************************************************)
\* The bit of the value that place i of an item has.
ItemBit(layout, name, i) == ValueBit(layout.items[name].length, 0, layout.reverse, i)

\* A block of which every bit has been set to the bit of a value that belongs
\* there is read back as the value, as far as the block is long.
LEMMA BlockRead ==
    ASSUME NEW t, NEW position, NEW length \in 0..bitsinablock, NEW reverse \in BOOLEAN, NEW value,
           \A i \in 0..length - 1 :
              getBit(t, BlockPosition(position, i)) <=> ValueBit(length, 0, reverse, i) \in value
    PROVE  getBitBlock(t, position, length, 0, reverse) = value \cap (0..length - 1)
<1>1. length \in Nat /\ bitsinablock \in Nat /\ length <= bitsinablock
  BY WordAssumption
<1>2. \A i \in 0..length - 1 :
         ValueBit(length, 0, reverse, i) \in 0..length - 1
         /\ ValueBit(length, 0, reverse, i) \in 0..bitsinablock - 1
  BY <1>1 DEF ValueBit
<1>3. ASSUME NEW v \in 0..length - 1
      PROVE  \E i \in 0..length - 1 : v = ValueBit(length, 0, reverse, i)
  <2>1. CASE reverse
    <3> WITNESS length - 1 - v \in 0..length - 1
    <3> QED
      BY <1>1, <2>1 DEF ValueBit
  <2>2. CASE ~reverse
    <3> WITNESS v \in 0..length - 1
    <3> QED
      BY <1>1, <2>2 DEF ValueBit
  <2> QED
    BY <2>1, <2>2
<1> QED
  BY <1>2, <1>3 DEF getBitBlock

\* The bits of an item: they do not wrap around, and no other item has them.
LEMMA OwnBits ==
    ASSUME NEW layout, NEW index, NEW room, ItemsFit(layout, index, room),
           NEW name \in DOMAIN layout.items, NEW i \in 0..layout.items[name].length - 1
    PROVE  LET start(n) == Place(layout, layout.items[n], index)
           IN  /\ BlockPosition(start(name), i) = start(name) + i
               /\ BlockPosition(start(name), i) \in 0..room - 1
               /\ \A n \in DOMAIN layout.items : \A j \in 0..layout.items[n].length - 1 :
                     BlockPosition(start(n), j) = BlockPosition(start(name), i) => n = name /\ j = i
<1> DEFINE start(n) == Place(layout, layout.items[n], index)
           len(n) == layout.items[n].length
<1>1. \A n \in DOMAIN layout.items :
         start(n) \in Nat /\ len(n) \in Nat /\ start(n) + len(n) <= room /\ room <= U32
         /\ room \in Nat /\ U32 \in Nat
  BY WordAssumption DEF ItemsFit
<1>2. \A n \in DOMAIN layout.items : \A j \in 0..len(n) - 1 : BlockPosition(start(n), j) = start(n) + j
  <2> TAKE n \in DOMAIN layout.items
  <2>1. start(n) + len(n) <= U32
    BY <1>1
  <2> HIDE DEF start, len
  <2> QED
    BY <1>1, <2>1, BlockPositions
<1>3. \A n \in DOMAIN layout.items :
         n = name \/ start(n) + len(n) <= start(name) \/ start(name) + len(name) <= start(n)
  BY DEF ItemsFit
<1> HIDE DEF start, len
<1>4. i \in 0..len(name) - 1
  BY DEF len
<1>5. ASSUME NEW n \in DOMAIN layout.items, NEW j \in 0..len(n) - 1, start(n) + j = start(name) + i
      PROVE  n = name /\ j = i
  <2>1. start(n) \in Nat /\ len(n) \in Nat /\ start(name) \in Nat /\ len(name) \in Nat
    BY <1>1
  <2>2. n = name
    BY <1>3, <1>4, <1>5, <2>1
  <2> QED
    BY <1>4, <1>5, <2>1, <2>2
<1>6. start(name) + i \in 0..room - 1
  BY <1>1, <1>4
<1> QED
  BY <1>2, <1>4, <1>5, <1>6 DEF start, len

\* A bit after a series of setBit() calls that leave it out.
LEMMA BitKept ==
    ASSUME NEW t, IsStream(t), NEW P, NEW O, NEW last_, NEW p \in Nat, p \notin P
    PROVE  getBit(setBits(t, P, O, last_), p) <=> getBit(t, p)
<1>1. CASE p < t.reglengthbits
  BY <1>1, BitAfter
<1>2. CASE ~(p < t.reglengthbits)
  BY <1>2, setBitsKeeps DEF getBit
<1> QED
  BY <1>1, <1>2

\* setStreamItemValue on a stream of any length, long enough or not, and for
\* any value: no other item changes (setBitBlock, the tables of items).
THEOREM OtherItemsAreKept ==
    ASSUME NEW layout, NEW index, NEW room, layout.reverse \in BOOLEAN, ItemsFit(layout, index, room),
           NEW t, IsStream(t), NEW value,
           NEW name \in DOMAIN layout.items, NEW other \in DOMAIN layout.items \ {name}
    PROVE  getStreamConfItemValue(layout,
               setStreamConfItemValue(layout, t, layout.items[name], value, index),
               layout.items[other], index)
           = getStreamConfItemValue(layout, t, layout.items[other], index)
<1> DEFINE start(n) == Place(layout, layout.items[n], index)
           len(n) == layout.items[n].length
           places == {BlockPosition(start(name), i) : i \in 0..len(name) - 1}
           u == setStreamConfItemValue(layout, t, layout.items[name], value, index)
<1>1. \E O, l : u = setBits(t, places, O, l)
  BY DEF setStreamConfItemValue, setBitBlock
<1>2. ASSUME NEW j \in 0..len(other) - 1
      PROVE  getBit(u, BlockPosition(start(other), j)) <=> getBit(t, BlockPosition(start(other), j))
  <2>1. BlockPosition(start(other), j) \in 0..room - 1
    BY OwnBits
  <2>2. BlockPosition(start(other), j) \notin places
    BY OwnBits
  <2>3. BlockPosition(start(other), j) \in Nat
    <3>1. room \in Nat
      BY WordAssumption DEF ItemsFit
    <3> HIDE DEF start
    <3> QED
      BY <2>1, <3>1
  <2> HIDE DEF places, u, start
  <2> QED
    BY <1>1, <2>2, <2>3, BitKept
<1> HIDE DEF u
<1>3. getBitBlock(u, start(other), len(other), 0, layout.reverse)
        = getBitBlock(t, start(other), len(other), 0, layout.reverse)
  BY <1>2 DEF getBitBlock
<1> QED
  BY <1>3 DEF getStreamConfItemValue, u

\* The value put into an item that is inside the stream comes back, as far as the
\* item is long.
THEOREM ItemComesBack ==
    ASSUME NEW layout, NEW index, NEW room, layout.reverse \in BOOLEAN, ItemsFit(layout, index, room),
           NEW t, IsStream(t), room <= t.reglengthbits, NEW value \in Word,
           NEW name \in DOMAIN layout.items
    PROVE  getStreamConfItemValue(layout,
               setStreamConfItemValue(layout, t, layout.items[name], value, index),
               layout.items[name], index)
           = Truncated(layout.items[name], value)
<1> DEFINE start == Place(layout, layout.items[name], index)
           len == layout.items[name].length
           places == {BlockPosition(start, i) : i \in 0..len - 1}
           at(p) == ValueBit(len, 0, layout.reverse, (p - start) % U32)
           O == {p \in places : getIntBit(at(p), value)}
           u == setStreamConfItemValue(layout, t, layout.items[name], value, index)
<1>1. PICK l : u = setBits(t, places, O, l)
  BY DEF setStreamConfItemValue, setBitBlock
<1>2. start \in Nat /\ len \in 0..bitsinablock /\ room \in Nat /\ start + len <= room /\ room <= U32
  BY WordAssumption DEF ItemsFit
<1>3. ASSUME NEW i \in 0..len - 1
      PROVE  getBit(u, BlockPosition(start, i)) <=> ValueBit(len, 0, layout.reverse, i) \in value
  <2> DEFINE p == BlockPosition(start, i)
  <2>1. p = start + i /\ p \in 0..room - 1
    BY OwnBits
  <2>2. p \in places
    OBVIOUS
  <2>3. p \in Nat /\ p < t.reglengthbits
    <3> HIDE DEF p
    <3> QED
      BY <1>2, <2>1, StreamFields
  <2>4. (p - start) % U32 = i
    <3>1. p - start = i /\ i < U32 /\ i \in Nat
      <4> HIDE DEF p, start, len
      <4> QED
        BY <1>2, <2>1, WordAssumption
    <3> QED
      BY <3>1, WordAssumption
  <2>5. getIntBit(ValueBit(len, 0, layout.reverse, i), value)
          <=> ValueBit(len, 0, layout.reverse, i) \in value
    <3>1. \A v \in value : v < bitsinablock
      BY WordAssumption DEF Word
    <3> QED
      BY <3>1 DEF getIntBit
  <2>6. p \in O <=> ValueBit(len, 0, layout.reverse, i) \in value
    BY <2>2, <2>4, <2>5
  <2> HIDE DEF p, O, places, u
  <2>7. getBit(u, p) <=> p \in O
    BY <1>1, <2>2, <2>3, BitAfter
  <2> QED
    BY <2>6, <2>7 DEF p
<1>4. getBitBlock(u, start, len, 0, layout.reverse) = value \cap (0..len - 1)
  <2> HIDE DEF u, start, len
  <2> QED
    BY <1>2, <1>3, BlockRead
<1> QED
  BY <1>4 DEF getStreamConfItemValue, Truncated

\* What assemble() starts from is a stream with room for all items.
LEMMA PreparedHasRoom ==
    ASSUME NEW layout, ProperTable(layout), NEW t, IsStream(t)
    PROVE  LET u == Prepared(layout, t)
           IN  IsStream(u) /\ u.reglengthbits \in Nat /\ Room(layout) <= u.reglengthbits
<1>1. layout.clears \in Nat /\ registerlength(layout) \in Nat /\ t.reglengthbits \in Nat
  BY StreamFields DEF ProperTable
<1>2. CASE layout.clears > 0
  <2> DEFINE e == clearDataStream(t)
             u == setNumWords(e, layout.clears)
  <2>1. IsStream(e)
    BY setNumWordsKeeps DEF clearDataStream
  <2>2. IsStream(u)
    <3> HIDE DEF e
    <3> QED
      BY <1>1, <2>1, setNumWordsKeeps
  <2>3. u.reglengthbits = layout.clears * bitsinablock
    BY DEF setNumWords, Stream
  <2>4. Prepared(layout, t) = u
    BY <1>2 DEF Prepared
  <2>5. layout.clears * bitsinablock \in Nat
    BY <1>1, WholeWords
  <2> HIDE DEF u, e
  <2> QED
    BY <1>2, <2>2, <2>3, <2>4, <2>5 DEF Room
<1>3. CASE ~(layout.clears > 0)
  <2>1. Prepared(layout, t) = AtLeast(t, registerlength(layout)) /\ Room(layout) = registerlength(layout)
    BY <1>3 DEF Prepared, Room
  <2>2. PICK n \in Nat : n = registerlength(layout)
    BY <1>1
  <2>3. IsStream(AtLeast(t, n)) /\ AtLeast(t, n).reglengthbits \in Nat /\ n <= AtLeast(t, n).reglengthbits
    <3>1. CASE t.reglengthbits < n
      <4>1. AtLeast(t, n) = setNumBits(t, n)
        BY <3>1 DEF AtLeast
      <4>2. IsStream(setNumBits(t, n)) /\ setNumBits(t, n).reglengthbits = n
        BY setNumBitsKeeps
      <4> QED
        BY <4>1, <4>2
    <3>2. CASE ~(t.reglengthbits < n)
      BY <1>1, <3>2 DEF AtLeast
    <3> QED
      BY <3>1, <3>2
  <2> QED
    BY <2>1, <2>2, <2>3
<1> QED
  BY <1>2, <1>3

\* assemble(): every place of every item has the bit of that item's value.
LEMMA EveryBitOnTheWire ==
    ASSUME NEW layout, ProperTable(layout), NEW t, IsStream(t), NEW vals,
           NEW name \in DOMAIN layout.items, NEW i \in 0..layout.items[name].length - 1
    PROVE  getBit(assemble(layout, t, vals), BlockPosition(Place(layout, layout.items[name], 0), i))
             <=> ItemBit(layout, name, i) \in vals[name]
<1> DEFINE at(b) == BlockPosition(Place(layout, layout.items[b[1]], 0), b[2])
           One(b) == ValueBit(layout.items[b[1]].length, 0, layout.reverse, b[2]) \in vals[b[1]]
           bits == UNION {{<<n, j>> : j \in 0..layout.items[n].length - 1} : n \in DOMAIN layout.items}
           places == {at(b) : b \in bits}
           ones == {at(b) : b \in {c \in bits : One(c)}}
           u == Prepared(layout, t)
           bit == <<name, i>>
<1>1. \E l : assemble(layout, t, vals) = setBits(u, places, ones, l)
  BY DEF assemble, WithItems
<1>2. bit \in bits
  OBVIOUS
<1>3. ItemsFit(layout, 0, Room(layout)) /\ Room(layout) \in Nat
  BY WordAssumption DEF ProperTable, ItemsFit
<1>4. at(bit) \in 0..Room(layout) - 1
  BY <1>3, OwnBits
<1>5. ASSUME NEW c \in bits, at(c) = at(bit) PROVE c = bit
  <2>1. PICK n \in DOMAIN layout.items : \E j \in 0..layout.items[n].length - 1 : c = <<n, j>>
    OBVIOUS
  <2>2. PICK j \in 0..layout.items[n].length - 1 : c = <<n, j>>
    BY <2>1
  <2>3. BlockPosition(Place(layout, layout.items[n], 0), j)
          = BlockPosition(Place(layout, layout.items[name], 0), i)
    BY <1>5, <2>2
  <2>4. n = name /\ j = i
    BY <1>3, <2>3, OwnBits
  <2> QED
    BY <2>2, <2>4
<1>6. at(bit) \in places /\ (at(bit) \in ones <=> One(bit))
  <2> HIDE DEF at, One, bits, bit
  <2> QED
    BY <1>2, <1>5
<1>7. IsStream(u) /\ u.reglengthbits \in Nat /\ Room(layout) <= u.reglengthbits
  BY PreparedHasRoom
<1>8. at(bit) \in Nat /\ at(bit) < u.reglengthbits
  <2> HIDE DEF at, u
  <2> QED
    BY <1>3, <1>4, <1>7
<1>9. getBit(assemble(layout, t, vals), at(bit)) <=> One(bit)
  <2> HIDE DEF at, One, places, ones, u, bit
  <2> QED
    BY <1>1, <1>6, <1>7, <1>8, BitAfter
<1> QED
  BY <1>9 DEF ItemBit

\* assemble() puts bit number b of an item on its place on the wire, the lowest
\* bit first or last, for every table whose items have places of their own, any
\* stream the object had before, and values of any size (setStreamItemValue for
\* every item of the table).
THEOREM BitsAreOnTheWire ==
    ASSUME NEW layout, ProperTable(layout), NEW t, IsStream(t), NEW vals,
           NEW name \in DOMAIN layout.items, NEW b \in 0..layout.items[name].length - 1
    PROVE  LET p == Place(layout, layout.items[name], 0)
                      + (IF layout.reverse THEN layout.items[name].length - 1 - b ELSE b)
           IN  getBit(assemble(layout, t, vals), p) <=> b \in vals[name]
<1> DEFINE first == Place(layout, layout.items[name], 0)
           len == layout.items[name].length
           i == IF layout.reverse THEN len - 1 - b ELSE b
           u == assemble(layout, t, vals)
<1>1. ItemsFit(layout, 0, Room(layout)) /\ first \in Nat /\ len \in Nat
  BY WordAssumption DEF ProperTable, ItemsFit
<1>2. i \in 0..len - 1
  BY <1>1
<1>3. BlockPosition(first, i) = first + i
  <2> HIDE DEF i
  <2> QED
    BY <1>1, <1>2, OwnBits
<1>4. getBit(u, first + i) <=> ItemBit(layout, name, i) \in vals[name]
  <2> HIDE DEF i, u
  <2> QED
    BY <1>2, <1>3, EveryBitOnTheWire DEF u
<1>5. ItemBit(layout, name, i) = b
  BY <1>1 DEF ItemBit, ValueBit
<1> QED
  BY <1>4, <1>5

\* assemble(), then disassemble(), for every table whose items have places of
\* their own, whatever the stream was used for before and however large the
\* values are: each item comes back, cut to its length.
THEOREM AssembledComesBack ==
    ASSUME NEW layout, ProperTable(layout), NEW t, IsStream(t), NEW vals
    PROVE  disassemble(layout, assemble(layout, t, vals))
             = [name \in DOMAIN layout.items |-> Truncated(layout.items[name], vals[name])]
<1> DEFINE u == assemble(layout, t, vals)
<1>1. ASSUME NEW name \in DOMAIN layout.items
      PROVE  getStreamConfItemValue(layout, u, layout.items[name], 0)
               = Truncated(layout.items[name], vals[name])
  <2> DEFINE start == Place(layout, layout.items[name], 0)
             len == layout.items[name].length
  <2>1. \A i \in 0..len - 1 :
           getBit(u, BlockPosition(start, i)) <=> ValueBit(len, 0, layout.reverse, i) \in vals[name]
    BY EveryBitOnTheWire DEF ItemBit
  <2>2. len \in 0..bitsinablock /\ layout.reverse \in BOOLEAN
    BY DEF ProperTable, ItemsFit
  <2>3. getBitBlock(u, start, len, 0, layout.reverse) = vals[name] \cap (0..len - 1)
    <3> HIDE DEF u, start, len
    <3> QED
      BY <2>1, <2>2, BlockRead
  <2> QED
    BY <2>3 DEF getStreamConfItemValue, Truncated
<1> HIDE DEF u
<1>2. disassemble(layout, u) = [name \in DOMAIN layout.items |-> Truncated(layout.items[name], vals[name])]
  BY <1>1 DEF disassemble
<1> QED
  BY <1>2 DEF u

-----------------------------------------------------------------------------
(***************************************************************************)
(* The clock generator.                                                    *)
(***************************************************************************)
\* The order in which the loops prefer the dividers.
Better(x, y) == Generator!Closer(x, y) \/ (~Generator!Closer(y, x) /\ Generator!Earlier(x, y))
Dividers == [m : 5..Generator!MaxMult, d : 1..Generator!MaxDiv, o : 1..Generator!MaxOut]

\* The candidates of the search, with their types.
LEMMA NearTried ==
    ASSUME NEW f \in Nat \ {0}, NEW x \in Generator!Near(f)
    PROVE  \E p \in Dividers :
              x = [m |-> p.m, d |-> p.d, o |-> p.o, num |-> Generator!Abs(Generator!CLKIN * p.m - f * p.d * p.o)]
<1>1. PICK pair \in Generator!Inputs, o \in 1..Generator!MaxOut :
         x = [m |-> pair[1], d |-> pair[2], o |-> o, num |-> Generator!Abs(Generator!CLKIN * pair[1] - f * pair[2] * o)]
  BY DEF Generator!Near
<1>2. pair[1] \in 5..Generator!MaxMult /\ pair[2] \in 1..Generator!MaxDiv
  BY DEF Generator!Inputs
<1>3. [m |-> pair[1], d |-> pair[2], o |-> o] \in Dividers
  BY <1>1, <1>2 DEF Dividers
<1> QED
  BY <1>1, <1>3

LEMMA NearType ==
    ASSUME NEW f \in Nat \ {0}, NEW x \in Generator!Near(f)
    PROVE  /\ x.m \in 5..Generator!MaxMult /\ x.d \in 1..Generator!MaxDiv /\ x.o \in 1..Generator!MaxOut
           /\ x = [m |-> x.m, d |-> x.d, o |-> x.o, num |-> Generator!Abs(Generator!CLKIN * x.m - f * x.d * x.o)]
           /\ x.num \in Nat
<1>1. PICK p \in Dividers :
         x = [m |-> p.m, d |-> p.d, o |-> p.o, num |-> Generator!Abs(Generator!CLKIN * p.m - f * p.d * p.o)]
  BY NearTried
<1>2. p.m \in 5..64 /\ p.d \in 1..80 /\ p.o \in 1..128
  BY DEF Dividers, Generator!MaxMult, Generator!MaxDiv, Generator!MaxOut
<1>3. Generator!CLKIN * p.m - f * p.d * p.o \in Int
  <2>1. p.m \in Nat /\ p.d \in Nat /\ p.o \in Nat
    BY <1>2
  <2>2. \A i, j, k \in Nat : Generator!CLKIN * i - f * j * k \in Int
    BY DEF Generator!CLKIN
  <2> QED
    BY <2>1, <2>2
<1>4. Generator!Abs(Generator!CLKIN * p.m - f * p.d * p.o) \in Nat
  <2> DEFINE k == Generator!CLKIN * p.m - f * p.d * p.o
  <2> HIDE DEF k
  <2> QED
    BY <1>3 DEF Generator!Abs, k
<1> QED
  BY <1>1, <1>2, <1>4 DEF Generator!MaxMult, Generator!MaxDiv, Generator!MaxOut

\* A candidate is determined by its dividers: there are finitely many.
LEMMA NearFinite == ASSUME NEW f \in Nat \ {0} PROVE IsFiniteSet(Generator!Near(f))
<1> DEFINE T == (5..Generator!MaxMult) \X ((1..Generator!MaxDiv) \X (1..Generator!MaxOut))
           key == [x \in Generator!Near(f) |-> <<x.m, <<x.d, x.o>>>>]
<1>1. IsFiniteSet(5..Generator!MaxMult) /\ IsFiniteSet(1..Generator!MaxDiv) /\ IsFiniteSet(1..Generator!MaxOut)
  <2>1. Generator!MaxMult \in Int /\ Generator!MaxDiv \in Int /\ Generator!MaxOut \in Int /\ 5 \in Int /\ 1 \in Int
    BY DEF Generator!MaxMult, Generator!MaxDiv, Generator!MaxOut
  <2> QED
    BY <2>1, FS_Interval
<1>2. IsFiniteSet((1..Generator!MaxDiv) \X (1..Generator!MaxOut))
  BY <1>1, FS_Product
<1>3. IsFiniteSet(T)
  BY <1>1, <1>2, FS_Product
<1>4. \A x \in Generator!Near(f) : key[x] \in T
  BY NearType
<1>5. ASSUME NEW x \in Generator!Near(f), NEW y \in Generator!Near(f), key[x] = key[y] PROVE x = y
  <2>1. x.m = y.m /\ x.d = y.d /\ x.o = y.o
    BY <1>5
  <2> QED
    BY <2>1, NearType
<1>6. key \in Injection(Generator!Near(f), T)
  <2>1. key \in [Generator!Near(f) -> T]
    BY <1>4
  <2> HIDE DEF key, T
  <2> QED
    BY <1>5, <2>1 DEF Injection, IsInjective
<1> QED
  BY <1>3, <1>6, FS_Injection

\* Fractions with the numerators a, b, c and the denominators p, q, r.
LEMMA Cross ==
    ASSUME NEW a \in Nat, NEW b \in Nat, NEW c \in Nat,
           NEW p \in Nat \ {0}, NEW q \in Nat \ {0}, NEW r \in Nat \ {0},
           a * q <= b * p, b * r <= c * q
    PROVE  /\ a * r <= c * p
           /\ a * q < b * p \/ b * r < c * q => a * r < c * p
<1>1. (a * q) * r <= (b * p) * r /\ (a * q < b * p => (a * q) * r < (b * p) * r)
  OBVIOUS
<1>2. (b * r) * p <= (c * q) * p /\ (b * r < c * q => (b * r) * p < (c * q) * p)
  OBVIOUS
<1>3. (a * q) * r = (a * r) * q /\ (b * p) * r = (b * r) * p /\ (c * q) * p = (c * p) * q
  OBVIOUS
<1> DEFINE ar == a * r
           cp == c * p
<1>4. ar \in Nat /\ cp \in Nat
  OBVIOUS
<1>5. ar * q <= cp * q /\ (a * q < b * p \/ b * r < c * q => ar * q < cp * q)
  BY <1>1, <1>2, <1>3
<1> HIDE DEF ar, cp
<1>6. ar <= cp
  <2> SUFFICES ASSUME ar > cp PROVE FALSE
    BY <1>4
  <2>1. ar * q > cp * q
    BY <1>4
  <2> QED
    BY <1>4, <1>5, <2>1
<1>7. ar * q < cp * q => ar # cp
  BY <1>4
<1> QED
  BY <1>4, <1>5, <1>6, <1>7 DEF ar, cp

\* Of two different candidates one comes first, and what comes first is ordered.
LEMMA BetterIsOrder ==
    ASSUME NEW f \in Nat \ {0}, NEW x \in Generator!Near(f), NEW y \in Generator!Near(f), NEW z \in Generator!Near(f)
    PROVE  /\ ~Better(x, x)
           /\ x # y => Better(x, y) \/ Better(y, x)
           /\ Better(x, y) /\ Better(y, z) => Better(x, z)
<1> DEFINE den(u) == u.d * u.o
<1>1. \A u \in Generator!Near(f) : /\ u.m \in Nat /\ u.d \in Nat \ {0} /\ u.o \in Nat \ {0} /\ u.num \in Nat
                         /\ den(u) \in Nat \ {0}
  <2> TAKE u \in Generator!Near(f)
  <2>1. u.m \in Nat /\ u.d \in Nat \ {0} /\ u.o \in Nat \ {0} /\ u.num \in Nat
    BY NearType DEF Generator!MaxMult, Generator!MaxDiv, Generator!MaxOut
  <2>2. \A i, j \in Nat \ {0} : i * j \in Nat \ {0}
    OBVIOUS
  <2> QED
    BY <2>1, <2>2
<1>2. \A u, v \in Generator!Near(f) : Generator!Closer(u, v) <=> u.num * den(v) < v.num * den(u)
  <2> TAKE u, v \in Generator!Near(f)
  <2>1. \A i, j, k \in Nat : i * j * k = i * (j * k)
    OBVIOUS
  <2>2. u.num * v.d * v.o = u.num * den(v) /\ v.num * u.d * u.o = v.num * den(u)
    BY <1>1, <2>1
  <2> QED
    BY <2>2 DEF Generator!Closer
<1>3. \A u, v \in Generator!Near(f) : u.num * den(v) \in Nat
  <2>1. \A i, j \in Nat : i * j \in Nat
    OBVIOUS
  <2> QED
    BY <1>1, <2>1
<1> HIDE DEF den
<1>4. \A u, v \in Generator!Near(f) :
         Better(u, v) <=> \/ u.num * den(v) < v.num * den(u)
                          \/ u.num * den(v) = v.num * den(u) /\ Generator!Earlier(u, v)
  BY <1>2, <1>3 DEF Better
<1>5. ~Better(x, x)
  BY <1>1, <1>3, <1>4 DEF Generator!Earlier
<1>6. ASSUME x # y PROVE Better(x, y) \/ Better(y, x)
  <2>1. x.m # y.m \/ x.d # y.d \/ x.o # y.o
    BY <1>6, NearType
  <2>2. Generator!Earlier(x, y) \/ Generator!Earlier(y, x)
    BY <1>1, <2>1 DEF Generator!Earlier
  <2> QED
    BY <1>3, <1>4, <2>2
<1>7. ASSUME Better(x, y), Better(y, z) PROVE Better(x, z)
  <2>1. x.num * den(y) <= y.num * den(x) /\ y.num * den(z) <= z.num * den(y)
    BY <1>3, <1>4, <1>7
  <2>2. /\ x.num * den(z) <= z.num * den(x)
        /\ x.num * den(y) < y.num * den(x) \/ y.num * den(z) < z.num * den(y)
             => x.num * den(z) < z.num * den(x)
    BY <1>1, <2>1, Cross
  <2>3. Generator!Earlier(x, y) /\ Generator!Earlier(y, z) => Generator!Earlier(x, z)
    BY <1>1 DEF Generator!Earlier
  <2>4. \/ x.num * den(z) < z.num * den(x)
        \/ x.num * den(z) = z.num * den(x) /\ Generator!Earlier(x, z)
    BY <1>3, <1>4, <1>7, <2>2, <2>3
  <2> QED
    BY <1>4, <2>4
<1> QED
  BY <1>5, <1>6, <1>7

\* The loops find a best candidate, if there is any.
LEMMA FirstExists ==
    ASSUME NEW f \in Nat \ {0}, Generator!Near(f) # {}
    PROVE  \E x \in Generator!Near(f) : \A y \in Generator!Near(f) \ {x} : Better(x, y)
<1> DEFINE near == Generator!Near(f)
           before(x) == {y \in near : Better(y, x)}
           T == {before(x) : x \in near}
<1>1. IsWellFoundedOn(StrictSubsetOrdering(near), SUBSET near)
  BY NearFinite, FS_FiniteSubsetsOfFinite, FS_StrictSubsetOrderingWellFounded
<1>2. T \subseteq SUBSET near /\ T # {}
  OBVIOUS
<1>3. PICK B \in T : \A D \in T : <<D, B>> \notin StrictSubsetOrdering(near)
  <2> HIDE DEF T, near
  <2> QED
    BY <1>1, <1>2, WFMin
<1>4. PICK x \in near : B = before(x)
  OBVIOUS
<1>5. ASSUME NEW y \in before(x) PROVE FALSE
  <2>1. y \in near /\ Better(y, x)
    OBVIOUS
  <2>2. before(y) \subseteq before(x)
    BY <2>1, BetterIsOrder
  <2>3. y \notin before(y)
    BY <2>1, BetterIsOrder
  <2>4. before(y) # before(x)
    BY <1>5, <2>3
  <2>5. <<before(y), before(x)>> \in StrictSubsetOrdering(near)
    <3> HIDE DEF near
    <3>1. before(y) \in SUBSET near /\ before(x) \in SUBSET near
      OBVIOUS
    <3> HIDE DEF before
    <3> QED
      BY <2>2, <2>4, <3>1 DEF StrictSubsetOrdering
  <2> QED
    BY <1>3, <1>4, <2>1, <2>5
<1>6. \A y \in near \ {x} : Better(x, y)
  BY <1>5, BetterIsOrder
<1> QED
  BY <1>6

\* The search ends with one of the candidates, or finds nothing.
LEMMA FoundIsTried ==
    ASSUME NEW f \in Nat \ {0}
    PROVE  Generator!calc_fout(f) = [m |-> 0] \/ Generator!calc_fout(f) \in Generator!Near(f)
<1>1. CASE Generator!Near(f) = {}
  BY <1>1 DEF Generator!calc_fout
<1>2. CASE Generator!Near(f) # {}
  <2> DEFINE first(x) == \A y \in Generator!Near(f) \ {x} : Generator!Closer(x, y) \/ (~Generator!Closer(y, x) /\ Generator!Earlier(x, y))
  <2>1. \E x \in Generator!Near(f) : first(x)
    BY <1>2, FirstExists DEF Better
  <2>2. (CHOOSE x \in Generator!Near(f) : first(x)) \in Generator!Near(f)
    <3> HIDE DEF first
    <3> QED
      BY <2>1
  <2> QED
    BY <1>2, <2>2 DEF Generator!calc_fout
<1> QED
  BY <1>1, <1>2

\* The high and the low time of a counter, without the rounding and the fixed
\* point: half of the divider, and the rest.
LEMMA Half ==
    ASSUME NEW d \in 1..128
    PROVE  Generator!mmcm_count_calc(d) =
             IF d = 1 THEN [high |-> 1, low |-> 1, edge |-> 0, no_count |-> 1]
             ELSE [high |-> (d \div 2) % 64, low |-> (d - (d \div 2)) % 64, edge |-> d % 2, no_count |-> 0]
<1>1. 2^Generator!FRAC_PRECISION = 1024 /\ 2^(Generator!FRAC_PRECISION - 1) = 512 /\ 2^(Generator!FRAC_PRECISION - 1 - 1) = 256
  BY DEF Generator!FRAC_PRECISION
<1>2. ((50000 * 1024) \div 100000) * d = 512 * d
  OBVIOUS
<1>3. Generator!round_frac(512 * d, 1) = 512 * d
  <2>1. ((512 * d) \div 256) % 2 = 0
    OBVIOUS
  <2> QED
    BY <1>1, <2>1 DEF Generator!round_frac
<1>4. ((512 * d) \div 1024) % 128 = d \div 2
  OBVIOUS
<1>5. ((512 * d) \div 512) % 2 = d % 2
  OBVIOUS
<1>6. d # 1 => d \div 2 # 0 /\ d \div 2 # d
  OBVIOUS
<1> QED
  BY <1>1, <1>2, <1>3, <1>4, <1>5, <1>6 DEF Generator!mmcm_count_calc, Generator!mmcm_divider

\* A counter programmed for a divider divides by it, in six bits for each time
\* and with both layouts of the registers.
LEMMA CounterDivides ==
    ASSUME NEW d \in 1..128
    PROVE  /\ Generator!Divides(Generator!Counter(Generator!mmcm_count_calc(d))) = d
           /\ Generator!Divides(Generator!InputDivider(Generator!mmcm_count_calc(d))) = d
<1> DEFINE c == Generator!mmcm_count_calc(d)
<1>1. CASE d = 1
  <2>1. c = [high |-> 1, low |-> 1, edge |-> 0, no_count |-> 1]
    BY <1>1, Half
  <2>2. Generator!Counter(c) = <<65, 64>> /\ Generator!InputDivider(c) = <<4096 + 65>>
    BY <2>1 DEF Generator!Counter, Generator!InputDivider
  <2>3. Generator!Divides(<<65, 64>>) = 1 /\ Generator!Divides(<<4096 + 65>>) = 1
    BY DEF Generator!Divides
  <2> QED
    BY <1>1, <2>2, <2>3
<1>2. CASE d # 1
  <2> DEFINE h == (d \div 2) % 64
             l == (d - (d \div 2)) % 64
             e == d % 2
  <2>1. c = [high |-> h, low |-> l, edge |-> e, no_count |-> 0]
    BY <1>2, Half
  <2>2. h \in 0..63 /\ l \in 0..63 /\ e \in 0..1
    OBVIOUS
  <2>3. Generator!Time(h) + Generator!Time(l) = d
    BY <1>2 DEF Generator!Time
  <2> HIDE DEF h, l, e
  <2>4. Generator!Counter(c) = <<h * 64 + l, (e * 2) * 64>> /\ Generator!InputDivider(c) = <<(e * 2) * 4096 + h * 64 + l>>
    BY <2>1, <2>2 DEF Generator!Counter, Generator!InputDivider
  <2>5. Generator!Divides(<<h * 64 + l, (e * 2) * 64>>) = d
    <3>1. (((e * 2) * 64) \div 64) % 2 = 0 /\ ((h * 64 + l) \div 64) % 64 = h /\ (h * 64 + l) % 64 = l
      BY <2>2
    <3> QED
      BY <2>3, <3>1 DEF Generator!Divides
  <2>6. Generator!Divides(<<(e * 2) * 4096 + h * 64 + l>>) = d
    <3> DEFINE w == (e * 2) * 4096 + h * 64 + l
    <3>1. (w \div 4096) % 2 = 0 /\ (w \div 64) % 64 = h /\ w % 64 = l
      BY <2>2
    <3>2. Generator!Divides(<<w>>) = d
      <4> HIDE DEF w
      <4> QED
        BY <2>3, <3>1 DEF Generator!Divides
    <3> QED
      BY <3>2
  <2> QED
    BY <2>4, <2>5, <2>6
<1> QED
  BY <1>1, <1>2

\* The registers of found dividers divide by them.
LEMMA RegistersDivide ==
    ASSUME NEW f \in Nat \ {0}, NEW x \in Generator!Near(f)
    PROVE  LET r == Generator!calculate_mmcm_register([m |-> x.m, d |-> x.d, o |-> x.o])
           IN  \A name \in Generator!Outputs : Generator!Output(r, name) = <<Generator!CLKIN * x.m, x.d * x.o>>
<1> DEFINE r == Generator!calculate_mmcm_register([m |-> x.m, d |-> x.d, o |-> x.o])
<1>1. x.m \in 1..128 /\ x.d \in 1..128 /\ x.o \in 1..128
  BY NearType DEF Generator!MaxMult, Generator!MaxDiv, Generator!MaxOut
<1>2. /\ r["CLKFBOUT"] = Generator!Counter(Generator!mmcm_count_calc(x.m))
      /\ r["DIVCLK"] = Generator!InputDivider(Generator!mmcm_count_calc(x.d))
      /\ \A name \in Generator!Outputs : r[name] = Generator!Counter(Generator!mmcm_count_calc(x.o))
  BY DEF Generator!calculate_mmcm_register, Generator!Registers, Generator!Outputs
<1> HIDE DEF r
<1>3. \A name \in Generator!Outputs : Generator!Output(r, name) = <<Generator!CLKIN * x.m, x.d * x.o>>
  BY <1>1, <1>2, CounterDivides DEF Generator!Output
<1> QED
  BY <1>3 DEF r

\* A call leaves the library with the registers of the frequency it returns.
\* Nothing is used of what the search prefers, only that it ends with dividers it
\* has tried.
LEMMA CallSetsTheRegisters ==
    ASSUME Asked \subseteq Nat, Generator!RegistersAsReturned, [Generator!Next]_Generator!vars
    PROVE  Generator!RegistersAsReturned'
<1>1. ASSUME NEW f \in Nat, Generator!setFrequency(f) PROVE Generator!RegistersAsReturned'
  <2> SUFFICES ASSUME _frequency' # Generator!NoFrequency
               PROVE  \A name \in Generator!Outputs : Generator!Output(items', name) = _frequency'
    BY DEF Generator!RegistersAsReturned, Generator!Output
  <2>1. f # 0 /\ Generator!calc_fout(f).m # 0
    BY <1>1 DEF Generator!setFrequency
  <2>2. f \in Nat \ {0}
    BY <2>1
  <2>3. PICK x \in Generator!Near(f) : Generator!calc_fout(f) = x
    <3>1. Generator!calc_fout(f) # [m |-> 0]
      BY <2>1
    <3> QED
      BY <2>2, <3>1, FoundIsTried
  <2>4. /\ _frequency' = <<Generator!CLKIN * x.m, x.d * x.o>>
        /\ items' = Generator!calculate_mmcm_register([m |-> x.m, d |-> x.d, o |-> x.o])
    BY <1>1, <2>1, <2>3 DEF Generator!setFrequency
  <2> QED
    BY <2>2, <2>4, RegistersDivide
<1>2. ASSUME NEW f \in Asked, NEW losses \in SUBSET Losable, Generator!configMMCM(f, losses)
      PROVE  Generator!RegistersAsReturned'
  <2>1. f \in Nat /\ Generator!setFrequency(f)
    BY <1>2 DEF Generator!configMMCM
  <2> QED
    BY <1>1, <2>1
<1>3. ASSUME NEW f \in Asked, Generator!configMMCMClosed(f) PROVE Generator!RegistersAsReturned'
  <2>1. Generator!setFrequency(0)
    BY <1>3 DEF Generator!configMMCMClosed
  <2> QED
    BY <1>1, <2>1
<1>4. CASE UNCHANGED Generator!vars
  BY <1>4 DEF Generator!vars, Generator!RegistersAsReturned, Generator!Output
<1> QED
  BY <1>2, <1>3, <1>4 DEF Generator!Next

\* The registers the library has worked out make every output of a generator that
\* takes them run with the frequency setFrequency() returned, for any frequencies
\* asked for in any series of calls (calc_fout, mmcm_divider, mmcm_count_calc,
\* calculate_mmcm_register).
THEOREM RegistersAreTrue ==
    ASSUME Asked \subseteq Nat
    PROVE  DataSpec => []RegistersAsReturned
<1>1. DataInit => RegistersAsReturned
  BY DEF DataInit, Generator!Init, Generator!RegistersAsReturned, RegistersAsReturned
<1>2. RegistersAsReturned /\ [DataNext]_all => RegistersAsReturned'
  <2> SUFFICES ASSUME RegistersAsReturned, [DataNext]_all, subject' = "generator"
               PROVE  Generator!RegistersAsReturned'
    BY DEF RegistersAsReturned
  <2>1. subject = "generator"
    BY DEF DataNext, all
  <2>2. [Generator!Next]_Generator!vars
    BY <2>1 DEF DataNext, all, generator, Generator!vars
  <2> QED
    BY <2>1, <2>2, CallSetsTheRegisters DEF RegistersAsReturned
<1> QED
  BY <1>1, <1>2, PTL DEF DataSpec
=============================================================================
