SPECIFICATION FairSpec
CONSTANTS
    MaxProc = 1
    UserSpaceEnd = 2
    ProcMemory = 4
    Val = {0, 1}
    Exit = 0
    Up = {4}
    Down = {2}
    Operand <- Signed
    Target = {3}
    Quantum = 1
PROPERTY ProgramsLoseTheCpu
CHECK_DEADLOCK FALSE
