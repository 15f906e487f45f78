SPECIFICATION DSpec
CONSTANTS
    MaxPid = 3
    MaxFd = 3
    FirstColumn = 16
    MaxOpens = 2
INVARIANT ListsDisjoint
