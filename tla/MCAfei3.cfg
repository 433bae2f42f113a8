SPECIFICATION Spec
CONSTANTS
    DoubleCols = 2
    Rows = 2
    PixItems = {"TDAC0", "TDAC1"}
    Groups <- TwoTdac
    Addresses = {0, 1}
    InitialCaches <- Invalid
    EditedPixels <- Corners
    MaxSteps = 5
CHECK_DEADLOCK FALSE
INVARIANT PositionsInvert
PROPERTY ChipsAsAsked
PROPERTY OnlyTheAskedChanges
