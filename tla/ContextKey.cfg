SPECIFICATION CSpec
CONSTANTS
    MaxPid = 3
    Block = {b1, b2}
    Word = {"Key", "PC"}
    Seen = {"Key"}
    Val = {0, 1, 2}
    Written = {0, 1}
    Zero = 2
    Blank = 0
    Entry = 1
PROPERTY ImplementsPrivateState
