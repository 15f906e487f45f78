SPECIFICATION Spec
CONSTANTS
    notes = notes
    diary = diary
    File <- MCFile
    Data = {x, y}
    Blank = Blank
    Mark = Mark
    Torn = Torn
    Lost = Lost
    NoFile = NoFile
    BlockCount = 10
    Header <- MCHeader
    Chunks <- MCChunks
    MaxFd = 2
    Lines = {0, 1, 2, 3}
INVARIANT WrongLineRefused
SYMMETRY MCSymmetry
