SPECIFICATION Spec
CONSTANTS
  Bits = {2, 3, 4, 5, 8, 9, 12, 13, 14, 15, 16}
  Commands = {4, 5, 9, 12, 13, 15}
  MAX_BLK_WORDS_PER_PKG = 1
PROPERTY CleanConfigSetsDacs
PROPERTY NewValuesBeforeFirstOutput
PROPERTY OtherFlagsKept
PROPERTY ReadoutIsFifoFront
