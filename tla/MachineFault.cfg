SPECIFICATION Spec
CONSTANTS
    MaxProc = 1
    UserSpaceEnd = 2
    ProcMemory = 4
    Val = {0, 1}
    Exit = 0
    Operand = {0, 4, 5}
    Target = {3}
    Quantum = 1
PROPERTY ProgramsNeverStopTheMachine
CHECK_DEADLOCK FALSE
