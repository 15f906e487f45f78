SPECIFICATION Spec
CONSTANTS
    First = 3
    Symbol <- MCSymbol
    Line <- MCLine
    MaxLines = 4
    MaxErrors = 1
    Quotes = FALSE
INVARIANTS AssemblerTypeOK ImageMeansSource MapLeadsToSource Diagnosed
CHECK_DEADLOCK FALSE
