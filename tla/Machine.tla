------------------------------ MODULE Machine ------------------------------
(***************************************************************************)
(* The emulated machine, one CPU::step at a time: fetch, decode and        *)
(* execute in user mode, with the translation of addresses of ram.cpp, the *)
(* faults, the timer that ticks at the end of a step, and the two ways     *)
(* into the kernel and the one out of it.                                  *)
(*                                                                         *)
(* The kernel itself is modelled by what its handlers do to the machine    *)
(* (04_sched.kga:13-174, 03_syscalls.kga): they work in the registers, and *)
(* return to the caller or to a process of their choice.  Programs are     *)
(* arbitrary: an instruction is any instruction.                           *)
(*                                                                         *)
(* Two of the eleven user registers are modelled: REG_RES and REG_E, the   *)
(* number of the system call.  Keys are the business of Keyboard.          *)
(*                                                                         *)
(* An operand is any number.  The check of a user address has an upper     *)
(* bound only, so a negative one leads below the block: see Store, and     *)
(* OwnAddresses for the programs that name none.                           *)
(***************************************************************************)
EXTENDS Integers

CONSTANTS
    MaxProc,      \* the number of processes
    UserSpaceEnd, \* the last user register
    ProcMemory,   \* the length of a block less one
    Val,          \* what a cell may hold
    Exit,         \* SYS_CALL_EXIT: the content of REG_E
    Operand,      \* the addresses that instructions name
    Target,       \* the addresses that jumps name
    Quantum       \* sys_sched_time_quantum

ASSUME MachineConstants ==
    /\ MaxProc \in Nat \ {0} /\ ProcMemory \in Nat /\ Quantum \in Nat
    /\ UserSpaceEnd \in Nat /\ 2 <= UserSpaceEnd /\ UserSpaceEnd < ProcMemory
    /\ Exit \in Val
    /\ Operand \subseteq Int /\ Target \subseteq Int

\* The programs that name no negative address of data
OwnAddresses == Operand \subseteq Nat

VARIABLES
    running,  \* running_ of the CPU
    mode,     \* kernelMode_ of RAM
    pc,       \* PROGRAM_COUNTER while a program executes
    ram,      \* data_ of RAM: the registers and the blocks of the processes
    cur,      \* the process whose block REG_PROC_START_ADDRESS names
    timer,    \* REG_SYS_HW_TIMER
    intData,  \* REG_SYS_INTERRUPT_DATA
    phase,    \* where the kernel is
    alive,    \* the processes that have not ended
    pcbPc     \* column 14 of each control block: the program counter

vars == <<running, mode, pc, ram, cur, timer, intData, phase, alive, pcbPc>>

Process    == 1 .. MaxProc
Register   == 1 .. UserSpaceEnd
Res        == 1
CallNumber == 2

\* Behind the user registers come those of the system, of which the timer has a
\* cell here and the others share one with the rest of the kernel
TimerCell == UserSpaceEnd + 1

\* Blocks lie one after the other behind the kernel; both ends belong to the
\* block
Start(p)    == UserSpaceEnd + 3 + (p - 1) * (ProcMemory + 1)
LastCell(p) == Start(p) + ProcMemory
Address     == Register \cup (Start(1) .. LastCell(MaxProc))
SaveArea(p) == {Start(p) + r : r \in Register}

NoTimer   == -1
NoData    == [pc |-> -1, ignore |-> FALSE]
Elsewhere == -1   \* the program counter is that of the kernel

-----------------------------------------------------------------------------
(* RAM in user mode *)

Translated(a) == IF a \in Register THEN a ELSE Start(cur) + a

Accessible(a) == a \in Register \/ Translated(a) <= LastCell(cur)

-----------------------------------------------------------------------------
(* The end of a step in user mode, and the way into the kernel *)

\* checkTimer and handleTimerInterrupt, with n in REG_SYS_HW_TIMER; k is the
\* program counter, to which the next step adds one
EndOfStep(k, n) ==
    IF n = 0
    THEN /\ mode' = "kernel" /\ phase' = "interrupt"
         /\ timer' = NoTimer
         /\ intData' = [pc |-> k, ignore |-> TRUE]
         /\ pc' = Elsewhere
    ELSE /\ mode' = "user" /\ phase' = "-"
         /\ timer' = IF n < 0 THEN n ELSE n - 1
         /\ intData' = NoData
         /\ pc' = k

\* execSysCall, over the RAM m
EnterKernel(m) ==
    /\ mode' = "kernel" /\ phase' = "call"
    /\ ram' = [a \in Address |-> IF a \in SaveArea(cur)
                                 THEN m[a - Start(cur)] ELSE m[a]]
    /\ intData' = [pc |-> pc + 1, ignore |-> FALSE]
    /\ pc' = Elsewhere
    /\ UNCHANGED <<running, cur, timer, alive, pcbPc>>

-----------------------------------------------------------------------------
(* The steps of a program *)

Fetches == running /\ mode = "user" /\ Accessible(pc + 1)

InProgram == UNCHANGED <<running, cur, alive, pcbPc>>

\* A store of v where ram.cpp allows it: in a register or a block, whosever it
\* is, in the timer (of its values, those up to the quantum), or elsewhere in
\* the kernel or before RAM.  Of the last, the start of the current block, the
\* program counter and the control block of one process may become anything, and
\* the emulator may stop.
StoreCell(t, v) ==
    /\ t \in Address
    /\ ram' = [ram EXCEPT ![t] = v]
    /\ EndOfStep(pc + 1, timer)
    /\ InProgram

StoreTimer(t) ==
    /\ t = TimerCell
    /\ \E n \in {NoTimer} \cup 0 .. Quantum : EndOfStep(pc + 1, n)
    /\ UNCHANGED ram
    /\ InProgram

StoreKernel(t) ==
    /\ t \notin Address \cup {TimerCell}
    /\ \E k \in {pc + 1} \cup Target : EndOfStep(k, timer)
    /\ running' \in BOOLEAN
    /\ \E p \in Process :
          /\ cur' \in {cur, p}
          /\ alive' \in {alive, alive \ {p}, alive \cup {p}}
          /\ pcbPc' \in {pcbPc} \cup {[pcbPc EXCEPT ![p] = a] : a \in Target}
    /\ UNCHANGED ram

Store(t, v) == StoreCell(t, v) \/ StoreTimer(t) \/ StoreKernel(t)

\* executeCopy of a literal or of what a cell holds, directly or through a
\* pointer: either way some value goes to some address
Copy ==
    /\ Fetches
    /\ \E a \in {b \in Operand : Accessible(b)}, v \in Val : Store(Translated(a), v)

\* cpu_exec of an operation on numbers or text: a result, or none
Compute ==
    /\ Fetches
    /\ \E v \in Val : ram' = [ram EXCEPT ![Res] = v]
    /\ EndOfStep(pc + 1, timer)
    /\ InProgram

Jump ==
    /\ Fetches
    /\ \E t \in Target : EndOfStep(t - 1, timer)
    /\ UNCHANGED ram
    /\ InProgram

\* A conditional jump not taken, cpu_exec without an operation, a debug switch
NoEffect ==
    /\ Fetches
    /\ EndOfStep(pc + 1, timer)
    /\ UNCHANGED ram
    /\ InProgram

\* DEBUG_ON and DEBUG_OFF return from the step before the timer is looked at
DebugMark ==
    /\ Fetches
    /\ pc' = pc + 1
    /\ UNCHANGED <<mode, ram, timer, intData, phase>>
    /\ InProgram

SysCall ==
    /\ Fetches
    /\ EnterKernel(ram)

\* handleMemoryError: an operand outside the block
MemoryError ==
    /\ Fetches
    /\ \E a \in Operand : ~Accessible(a)
    /\ EnterKernel([ram EXCEPT ![CallNumber] = Exit])

\* handleCpuError: a privileged operation, an unknown or malformed instruction
CpuError ==
    /\ Fetches
    /\ EnterKernel([ram EXCEPT ![CallNumber] = Exit])

\* Operands that are no numbers: stoi throws, step rethrows, main returns
NotANumber ==
    /\ Fetches
    /\ running' = FALSE
    /\ pc' = pc + 1
    /\ UNCHANGED <<mode, ram, cur, timer, intData, phase, alive, pcbPc>>

\* The next instruction is outside the block: the fetch is not inside the try
FetchFails ==
    /\ running /\ mode = "user" /\ ~Accessible(pc + 1)
    /\ running' = FALSE
    /\ pc' = pc + 1
    /\ UNCHANGED <<mode, ram, cur, timer, intData, phase, alive, pcbPc>>

Program ==
    \/ Copy \/ Compute \/ Jump \/ NoEffect \/ DebugMark
    \/ SysCall \/ MemoryError \/ CpuError \/ NotANumber \/ FetchFails

-----------------------------------------------------------------------------
(* The kernel *)

InKernel(where) ==
    /\ running /\ mode = "kernel" /\ phase \in where
    /\ UNCHANGED <<mode, pc>>

\* Mutant of SaveRegisters: the program counter stays where it was
SaveRegistersOnly ==
    /\ InKernel({"interrupt"})
    /\ ram' = [a \in Address |-> IF a \in SaveArea(cur)
                                 THEN ram[a - Start(cur)] ELSE ram[a]]
    /\ phase' = "choose"
    /\ UNCHANGED <<running, cur, timer, intData, alive, pcbPc>>

\* sys_interrupt_handler saves the registers and the program counter
SaveRegisters ==
    /\ InKernel({"interrupt"})
    /\ ram' = [a \in Address |-> IF a \in SaveArea(cur)
                                 THEN ram[a - Start(cur)] ELSE ram[a]]
    /\ pcbPc' = [pcbPc EXCEPT ![cur] = intData.pc]
    /\ phase' = "choose"
    /\ UNCHANGED <<running, cur, timer, intData, alive>>

\* The kernel works in the registers of the program, and finds its result
KernelWork ==
    /\ InKernel({"service", "choose", "prompt"})
    /\ \E r \in Register, v \in Val : ram' = [ram EXCEPT ![r] = v]
    /\ UNCHANGED <<running, cur, timer, intData, phase, alive, pcbPc>>

\* sys_call_handler reads the number of the call
Service ==
    /\ InKernel({"call"})
    /\ ram[CallNumber] # Exit
    /\ phase' = "service"
    /\ UNCHANGED <<running, ram, cur, timer, intData, alive, pcbPc>>

\* Mutant of ExitCall: the call returns
ExitCallReturns ==
    /\ InKernel({"call"})
    /\ ram[CallNumber] = Exit
    /\ alive' = alive \ {cur}
    /\ phase' = "service"
    /\ UNCHANGED <<running, ram, cur, timer, intData, pcbPc>>

ExitCall ==
    /\ InKernel({"call"})
    /\ ram[CallNumber] = Exit
    /\ alive' = alive \ {cur}
    /\ phase' = "choose"
    /\ UNCHANGED <<running, ram, cur, timer, intData, pcbPc>>

\* skip_sched and wait_sched let the timer fire at once
SkipSched ==
    /\ InKernel({"service"})
    /\ timer' = 0
    /\ UNCHANGED <<running, ram, cur, intData, phase, alive, pcbPc>>

\* Mutant of SchedRun: the timer is not set
SchedRunUntimed ==
    /\ InKernel({"choose"})
    /\ cur' \in alive
    /\ intData' = [pc |-> pcbPc[cur'], ignore |-> TRUE]
    /\ phase' = "return"
    /\ UNCHANGED <<running, ram, timer, alive, pcbPc>>

\* sys_sched_run
SchedRun ==
    /\ InKernel({"choose"})
    /\ cur' \in alive
    /\ intData' = [pc |-> pcbPc[cur'], ignore |-> TRUE]
    /\ timer' = Quantum
    /\ phase' = "return"
    /\ UNCHANGED <<running, ram, alive, pcbPc>>

NoProcess ==
    /\ InKernel({"choose"})
    /\ alive = {}
    /\ phase' = "prompt"
    /\ UNCHANGED <<running, ram, cur, timer, intData, alive, pcbPc>>

\* execSysReturn, to the caller or to the process that sys_sched_run chose
SysReturn ==
    /\ running /\ mode = "kernel" /\ phase \in {"service", "return"}
    /\ ram' = [a \in Address |->
                  IF a \notin Register THEN ram[a]
                  ELSE IF a = Res /\ ~intData.ignore THEN ram[a]
                  ELSE ram[Start(cur) + a]]
    /\ EndOfStep(intData.pc, timer)
    /\ InProgram

\* OP_HALT, the end of the input, an error in the kernel
StopsInKernel ==
    /\ running /\ mode = "kernel"
    /\ running' = FALSE
    /\ UNCHANGED <<mode, pc, ram, cur, timer, intData, phase, alive, pcbPc>>

Kernel ==
    \/ SaveRegisters \/ KernelWork \/ Service \/ ExitCall \/ SkipSched
    \/ SchedRun \/ NoProcess \/ SysReturn \/ StopsInKernel

-----------------------------------------------------------------------------
\* The processes are loaded, and the shell starts them
Init ==
    /\ running = TRUE /\ mode = "kernel" /\ phase = "choose"
    /\ pc = Elsewhere
    /\ \E v \in Val : ram = [a \in Address |-> v]
    /\ cur = 1
    /\ timer = NoTimer
    /\ intData = NoData
    /\ alive = Process
    /\ pcbPc = [p \in Process |-> UserSpaceEnd]

Next == Program \/ Kernel

Spec == Init /\ [][Next]_vars

\* The loop of resetVector goes on as long as the CPU runs
FairSpec == Spec /\ WF_vars(Next)

-----------------------------------------------------------------------------
InterruptData == [pc : Int, ignore : BOOLEAN]

\* The mode, the place in the kernel and the interrupt data go together: the
\* kernel has somewhere to return to from its entry to its return, and a
\* program that executes is alive.
TypeOK ==
    /\ running \in BOOLEAN
    /\ mode \in {"user", "kernel"}
    /\ pc \in Int
    /\ ram \in [Address -> Val]
    /\ cur \in Process
    /\ timer \in {NoTimer} \cup 0 .. Quantum
    /\ intData \in InterruptData
    /\ phase \in {"-", "interrupt", "call", "service", "choose", "return", "prompt"}
    /\ alive \subseteq Process
    /\ pcbPc \in [Process -> Int]
    /\ mode = "user" <=> phase = "-"
    /\ phase \in {"-", "interrupt", "call", "service", "return"} => cur \in alive
    /\ phase \in {"call", "service"} => ~intData.ignore
    /\ phase \in {"interrupt", "return"} => intData.ignore
    /\ phase = "return" => intData.pc = pcbPc[cur]

\* What each live program finds: in the CPU while it has it, in its save area
\* and its control block while it has not
VirtualAddress == 0 .. ProcMemory

Holds(p) == p = cur /\ phase \in {"-", "interrupt"}

ProgramCell ==
    [p \in alive |-> [a \in VirtualAddress |->
        IF a \in Register /\ Holds(p) THEN ram[a] ELSE ram[Start(p) + a]]]

ProgramLast ==
    [p \in alive |->
        IF p # cur THEN pcbPc[p]
        ELSE CASE phase = "-" -> pc
               [] phase \in {"interrupt", "call", "service"} -> intData.pc
               [] OTHER -> pcbPc[p]]

Virtual == INSTANCE Programs WITH
    Address <- VirtualAddress, Result <- Res, Number <- CallNumber,
    Entry   <- UserSpaceEnd,
    on <- IF mode = "user" THEN {cur} ELSE {},
    calling <- IF phase \in {"call", "service"} THEN {cur} ELSE {},
    last    <- ProgramLast,
    cell    <- ProgramCell

\* Interrupts, system calls, faults and the instructions of the others never
\* show: a program executes its instructions in its order, each once, on cells
\* that nobody else writes (cpu.cpp, ram.cpp, 04_sched.kga).  For programs that
\* name no negative address (OwnAddresses); with one, ProgramsAreIsolated is
\* the counterexample.
ImplementsPrograms == Virtual!PSpec

\* The promise of ram.hpp, "so user programs are isolated within their allocated
\* region": no step of a program changes a cell of the block of another.
ProgramsAreIsolated ==
    [][mode = "user" =>
          \A p \in Process \ {cur}, a \in VirtualAddress :
              ram'[Start(p) + a] = ram[Start(p) + a]]_vars

\* No program keeps the CPU: a jump costs a tick like any other instruction, and
\* without jumps a program leaves its block.  For programs that name no negative
\* address (OwnAddresses): one that reaches the timer can switch it off.
ProgramsLoseTheCpu ==
    (running /\ mode = "user") ~> (mode = "kernel" \/ ~running)

\* An error of a program ends the program and not the machine (cpu.cpp,
\* "User mode: graceful crash ... so the kernel shell regains control").
ProgramsNeverStopTheMachine == [][running /\ mode = "user" => running']_vars
=============================================================================
