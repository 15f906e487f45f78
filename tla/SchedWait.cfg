SPECIFICATION Spec
CONSTANTS
    MaxProc = 3
    ProcMem = 1
    MemStart = 2
    MemEnd = 9
    Quantum = 2
    MaxPid = 5
PROPERTY WaitsForOthers
CHECK_DEADLOCK FALSE
