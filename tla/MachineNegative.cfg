SPECIFICATION Spec
CONSTANTS
    MaxProc = 2
    UserSpaceEnd = 2
    ProcMemory = 4
    Val = {0, 1}
    Exit = 0
    Up = {1, 4}
    Down = {4}
    Operand <- Signed
    Target = {3}
    Quantum = 1
PROPERTY ProgramsAreIsolated
CHECK_DEADLOCK FALSE
