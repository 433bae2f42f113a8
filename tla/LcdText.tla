------------------------------ MODULE LcdText ------------------------------
(***************************************************************************)
(* The text for the LCD (MrfData_LCD): a word per character, with a place  *)
(* on the display and a code. A character is its ASCII code.               *)
(***************************************************************************)
EXTENDS ConfItems

CONSTANTS
    Chars,        \* characters of the texts
    LineLength,   \* characters of a line of the display: 16
    MaxText       \* bound: characters of a text

VARIABLES
    upper_lower,  \* _upper_lower, which the constructor leaves as it is
    text,         \* _text
    stream,
    display       \* external: place -> code, after the stream was sent

vars == <<upper_lower, text, stream, display>>

LCD == [Layout(<<Item("LCDpos", 0, 8), Item("LCDchar", 8, 8)>>, TRUE) EXCEPT !.clears = 0]

Number(bits) == FoldSet(LAMBDA b, sum : sum + 2^b, 0, bits)
BitsOf(number) == {b \in 0..7 : (number \div 2^b) % 2 = 1}

isUpper == upper_lower = "u"
FirstPlace(upper) == IF upper THEN 128 ELSE 192

char2LCD(c) == IF c \in 33..125 /\ c # 92 THEN c ELSE 32

\* A character behind the end of the line goes to its first place.
pos2LCD(p) == FirstPlace(isUpper) + (IF p > 0 /\ p < LineLength THEN p ELSE 0)

assembleLCD(s) ==
    FoldSet(LAMBDA i, t :
                LET placed == setStreamConfItemValue(LCD, t, LCD.items["LCDpos"], BitsOf(pos2LCD(i)), i)
                IN  setStreamConfItemValue(LCD, placed, LCD.items["LCDchar"], BitsOf(char2LCD(text[i + 1])), i),
            setNumWords(clearDataStream(s), Len(text)), 0..Len(text) - 1)

\* External: the display takes the words in order; each has the place and the
\* code with the highest bit first.
Field(word, first) == Number({b \in 0..7 : first + 7 - b \in word})
Shown(s, before) ==
    LET words == [i \in 1..s.reglengthwords |-> s.regdata[i - 1]]
    IN  FoldLeft(LAMBDA shown, word : [shown EXCEPT ![Field(word, 0)] = Field(word, 8)], before, words)

Places == (128..127 + LineLength) \cup (192..191 + LineLength)

Init ==
    /\ upper_lower \in {"u", "l", "other"}
    /\ text = <<>> /\ stream = EmptyStream /\ display = [place \in Places |-> 32]

setText(t) == text' = t /\ UNCHANGED <<upper_lower, stream, display>>
setUpper == upper_lower' = "u" /\ UNCHANGED <<text, stream, display>>
setLower == upper_lower' = "l" /\ UNCHANGED <<text, stream, display>>
Send ==
    /\ stream' = assembleLCD(stream) /\ display' = Shown(stream', display)
    /\ UNCHANGED <<upper_lower, text>>

Texts == UNION {[1..n -> Chars] : n \in 0..MaxText}
Next == setUpper \/ setLower \/ Send \/ \E t \in Texts : setText(t)
Spec == Init /\ [][Next]_vars

-----------------------------------------------------------------------------
\* Sending a text that fits into a line writes its characters into the places
\* of this line in order, a blank for one the display does not have, and leaves
\* the other places alone (assemble, pos2LCD, char2LCD).
LineShown ==
    stream' # stream /\ Len(text) <= LineLength =>
        display' = [place \in Places |->
            LET k == place - FirstPlace(isUpper) + 1
            IN  IF k \in DOMAIN text THEN char2LCD(text[k]) ELSE display[place]]
=============================================================================
