SPECIFICATION Spec
CONSTANTS
  a1 = a1
  a2 = a2
  b1 = b1
  b2 = b2
  Addr = {a1, a2}
  Bits = {b1, b2}
  Calls <- AllCalls
  Connections <- Params
  Loss = FALSE
  Late = TRUE
  MaxUnderWay = 2
  MaxLuck = 2
  MaxFifo = 1
  MAX_BLK_WORDS_PER_PKG = 2
PROPERTY ReadIsContentsOrZero
