SPECIFICATION FairSpec
CONSTANTS
    Size = 2
    Breakable = {2}
    Edit <- MCEdit
    MaxSent = 4
    Window = 2
INVARIANTS DebuggerTypeOK ViewIsCurrent StopsAsExpected
PROPERTIES Answered NobodyLeftPaused
CHECK_DEADLOCK FALSE
