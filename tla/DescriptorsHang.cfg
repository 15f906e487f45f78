SPECIFICATION DSpec
CONSTANTS
    MaxPid = 3
    MaxFd = 3
    FirstColumn = 2
    MaxOpens = 2
INVARIANT KernelReturns
