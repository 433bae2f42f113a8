SPECIFICATION DataSpec
CONSTANTS
  Asked = {0, 5, 47, 127, 299, 600}
  Losable = {"CLKFBOUT", "command"}
  RA_START = 32
  RA_STEP = 1
  bitsinablock = 3
  U32 = 64
  MaxBits = 7
  Calls <- AllCalls
CHECK_DEADLOCK FALSE
INVARIANT BlockRoundTrip
INVARIANT ValuesOnTheWire
INVARIANT ValuesReadBack
INVARIANT RegistersAsReturned
PROPERTY ImplementsBitStream
PROPERTY OnlyItsPlaceChanges
