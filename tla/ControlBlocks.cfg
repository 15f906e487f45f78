SPECIFICATION BSpec
CONSTANTS
    Char <- MCChar
    MaxInt = 1000
    MaxSlot = 3
    FirstBlock = 7
    BlockLen = 2
    Entry = 11
    Name <- MCName
    Priority <- MCPriority
    Counter = {9, 12}
    MaxPid = 5
INVARIANTS ControlBlocksTypeOK TextsHoldRecords TextHoldsStack
CHECK_DEADLOCK FALSE
