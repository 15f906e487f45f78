SPECIFICATION Spec
CONSTANTS
    First = 3
    Symbol <- MCSymbol
    Line <- MCLine
    MaxLines = 2
    MaxErrors = 1
    Quotes = TRUE
INVARIANT ImageMeansSource
CHECK_DEADLOCK FALSE
