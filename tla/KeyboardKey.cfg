SPECIFICATION Spec
CONSTANTS
    Char = {a, k, nl}
    NewLine = nl
    Null = null
    Word = {k}
    CharWord <- MCCharWord
    MaxTyped = 1
INVARIANT LastKeyPressed
CHECK_DEADLOCK FALSE
