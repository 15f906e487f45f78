SPECIFICATION FairSpec
CONSTANTS
    Char = {a, k, nl}
    NewLine = nl
    Null = null
    Word = {k}
    CharWord <- MCCharWord
    MaxTyped = 5
INVARIANTS KeyboardTypeOK ScriptIsRead StopsAtTheEnd EachOnce
PROPERTY StopsAtEof
CHECK_DEADLOCK FALSE
