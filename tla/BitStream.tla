----------------------------- MODULE BitStream -----------------------------
(***************************************************************************)
(* What the bit streams of the readout library promise (the comments of    *)
(* mrfdata.h): a stream is a number of bits, each of them set or not; that *)
(* it is kept in words shows only in the calls that name a word.  Each     *)
(* step does what its own call asks for (last); of the calls in Unpromised *)
(* it says only that they leave a stream.                                  *)
(***************************************************************************)
EXTENDS Integers

CONSTANTS
    bitsinablock,  \* bits in a word
    U32,           \* positions are counted modulo this
    Calls          \* the calls: records with the name op and arguments

VARIABLES
    len,    \* the number of bits
    ones,   \* the positions of those that are set
    last    \* the last call

vars == <<len, ones, last>>

Resize(n) == len' = n /\ ones' = {p \in ones : p < n}

\* The positions P become set or not as O says; the length stays.
Put(P, O) == len' = len /\ ones' = {p \in 0..len - 1 : IF p \in P THEN p \in O ELSE p \in ones}

\* The same on a stream that is made at least as long as n first.
PutExtended(n, P, O) ==
    /\ len' = IF len < n THEN n ELSE len
    /\ ones' = {p \in 0..len' - 1 : IF p \in P THEN p \in O ELSE p \in ones}

WordPositions(k) == k * bitsinablock .. k * bitsinablock + bitsinablock - 1
PlacedWord(k, v) == {k * bitsinablock + b : b \in v}
Words == (len + bitsinablock - 1) \div bitsinablock

setBitBlock(c) ==
    Put(c.pos .. c.pos + c.n - 1,
        {c.pos + i : i \in {j \in 0..c.n - 1 :
            c.offset + (IF c.reverse THEN c.n - 1 - j ELSE j) \in c.val}})

\* Every factor-th bit from the offset on; at most cutoff of them, if it is
\* not 0.  In the reversed order the bits of a word are counted from its end.
Source(c, p) ==
    LET i == c.pos + p * c.factor
        k == i \div bitsinablock
    IN  IF c.reverse THEN k * bitsinablock + (bitsinablock - 1 - (i % bitsinablock)) ELSE i

SampleCount(c) == IF c.pos < len THEN (len - 1 - c.pos) \div c.factor + 1 ELSE 0

resample(c) ==
    /\ len' = IF c.n # 0 /\ c.n < SampleCount(c) THEN c.n ELSE SampleCount(c)
    /\ ones' = {p \in 0..len' - 1 : Source(c, p) \in ones}

Do(c) ==
    \/ c.op = "setNumBits" /\ Resize(c.n)
    \/ c.op = "setNumWords" /\ Resize(c.n * bitsinablock)
    \/ c.op = "clear" /\ Resize(0)
    \/ c.op = "setBit" /\ Put({c.pos}, IF c.val # {} THEN {c.pos} ELSE {})
    \/ c.op = "appendBit" /\ PutExtended(len + 1, {len}, IF c.val # {} THEN {len} ELSE {})
    \/ c.op = "setWord" /\ Put(WordPositions(c.pos), PlacedWord(c.pos, c.val))
    \/ c.op = "setWordMasked" /\ Put(PlacedWord(c.pos, c.mask), PlacedWord(c.pos, c.val))
    \/ /\ c.op = "appendWord"
       /\ PutExtended((Words + 1) * bitsinablock, WordPositions(Words), PlacedWord(Words, c.val))
    \/ c.op = "setBitBlock" /\ setBitBlock(c)
    \/ /\ c.op = "importBinString"
       /\ PutExtended(c.pos + c.n, c.pos .. c.pos + c.n - 1, {c.pos + i : i \in c.val})
    \/ c.op = "resample" /\ resample(c)
    \/ c.op = "get" /\ UNCHANGED <<len, ones>>

\* The code is known to do something else than its comments say: a mask that spares bits
\* of a complete word, a cutoff above the number of samples, a block whose positions do
\* not fit into an unsigned integer.
Unpromised(c) ==
    \/ /\ c.op = "setWordMasked"
       /\ (c.pos + 1) * bitsinablock <= len /\ c.mask # 0..bitsinablock - 1
    \/ c.op = "resample" /\ c.n > SampleCount(c)
    \/ c.op = "setBitBlock" /\ c.pos + c.n > U32

SomeStream == len' \in Nat /\ ones' \subseteq 0..len' - 1

Init == len = 0 /\ ones = {} /\ last = [op |-> "none"]
Next == \E c \in Calls : last' = c /\ (Do(c) \/ (Unpromised(c) /\ SomeStream))
Spec == Init /\ [][Next]_vars
=============================================================================
