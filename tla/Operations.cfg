SPECIFICATION OSpec
CONSTANTS
    Char <- MCChar
    MaxInt = 8
    TextsOf <- MCTextsOf
    MaxSteps = 3
INVARIANTS OperationsTypeOK GuardedNumbers Division TextsAgree ColumnsAgree
CHECK_DEADLOCK FALSE
