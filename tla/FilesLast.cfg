SPECIFICATION Spec
CONSTANTS
    notes = notes
    diary = diary
    File <- MCFile
    Data = {x, y}
    Blank = Blank
    Mark = Mark
    Torn = Torn
    Lost = Lost
    NoFile = NoFile
    BlockCount = 9
    Header <- MCHeader
    Chunks <- MCChunks
    MaxFd = 2
    Lines = {1, 2, 3}
INVARIANT EveryLineWritable
SYMMETRY MCSymmetry
