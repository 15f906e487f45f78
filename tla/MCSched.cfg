SPECIFICATION HFairSpec
CONSTANTS
    MaxProc = 3
    ProcMem = 1
    MemStart = 2
    MemEnd = 9
    Quantum = 2
    MaxPid = 5
INVARIANTS TypeOK BlocksDisjoint CellsAccounted PidsUnique PausedDoesNotExecute
PROPERTIES ImplementsProcesses NoOvertaking ReadyRuns
CHECK_DEADLOCK FALSE
