SPECIFICATION FairSpec
CONSTANTS
    MaxProc = 2
    UserSpaceEnd = 2
    ProcMemory = 4
    Val = {0, 1}
    Exit = 0
    Operand = {0, 1, 2, 4, 5}
    Target = {3, 5}
    Quantum = 1
INVARIANT TypeOK
PROPERTIES ImplementsPrograms ProgramsLoseTheCpu
CHECK_DEADLOCK FALSE
