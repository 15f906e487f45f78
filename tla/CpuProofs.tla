----------------------------- MODULE CpuProofs -----------------------------
(***************************************************************************)
(* Proofs about the CPU: first the machine that programs share, for every  *)
(* number of processes, every size of their blocks, every quantum, and     *)
(* programs of any instructions; then what its operations on texts and     *)
(* numbers give, for all texts over any characters and every width of an   *)
(* int; and between the two what the kernel builds from these operations,  *)
(* its control blocks and the list of free blocks, for every number of     *)
(* processes, all names, priorities and counters.                          *)
(***************************************************************************)
EXTENDS Machine, Operations, ControlBlocks, Lemmas

-----------------------------------------------------------------------------
(* Where blocks lie *)

\* The blocks of two processes do not overlap, and none overlaps the registers
LEMMA Layout ==
    ASSUME NEW p \in Process
    PROVE  /\ Start(p) \in Nat /\ LastCell(p) = Start(p) + ProcMemory
           /\ UserSpaceEnd < Start(p)
           /\ Start(1) \in Nat /\ TimerCell < Start(1) /\ Start(1) <= Start(p)
           /\ LastCell(MaxProc) \in Nat /\ LastCell(p) <= LastCell(MaxProc)
           /\ \A q \in Process : p < q => LastCell(p) < Start(q)
<1> DEFINE len == ProcMemory + 1
<1>1. len \in Nat /\ 0 < len /\ MaxProc \in Nat /\ p \in Nat
      /\ 1 <= p /\ p <= MaxProc
  BY MachineConstants DEF Process
<1>2. ASSUME NEW i \in Nat, NEW j \in Nat, i <= j
      PROVE  i * len \in Nat /\ j * len \in Nat /\ i * len <= j * len
  BY <1>1, <1>2
<1>3. ASSUME NEW i \in Nat
      PROVE  (i + 1) * len = i * len + len
  BY <1>1
<1> HIDE DEF len
<1>4. Start(p) = UserSpaceEnd + 3 + (p - 1) * len /\ LastCell(p) = Start(p) + ProcMemory
      /\ LastCell(MaxProc) = UserSpaceEnd + 3 + (MaxProc - 1) * len + ProcMemory
  BY DEF Start, LastCell, len
<1>5. (p - 1) * len \in Nat /\ (p - 1) * len <= (MaxProc - 1) * len
      /\ (MaxProc - 1) * len \in Nat
  BY <1>1, <1>2
<1>6. Start(1) = UserSpaceEnd + 3
  <2>1. (1 - 1) * len = 0
    BY <1>1
  <2> QED BY <2>1, MachineConstants DEF Start, len
<1>7. ASSUME NEW q \in Process, p < q PROVE LastCell(p) < Start(q)
  <2>1. q \in Nat /\ p <= q - 1
    BY <1>1, <1>7 DEF Process
  <2>2. p * len \in Nat /\ (q - 1) * len \in Nat /\ p * len <= (q - 1) * len
    BY <1>1, <1>2, <2>1
  <2>3. p * len = (p - 1) * len + len
    BY <1>1, <1>3
  <2>4. Start(q) = UserSpaceEnd + 3 + (q - 1) * len
    BY DEF Start, len
  <2> QED BY <1>4, <1>5, <2>2, <2>3, <2>4, MachineConstants DEF len
<1> QED BY <1>4, <1>5, <1>6, <1>7, MachineConstants DEF TimerCell

\* The cells of a block are cells of RAM, and no registers
LEMMA BlockCells ==
    ASSUME NEW p \in Process, NEW a \in 0 .. ProcMemory
    PROVE  Start(p) + a \in Address \ Register
<1>1. /\ Start(p) \in Nat /\ LastCell(p) = Start(p) + ProcMemory
      /\ UserSpaceEnd < Start(p)
      /\ Start(1) \in Nat /\ Start(1) <= Start(p)
      /\ LastCell(MaxProc) \in Nat /\ LastCell(p) <= LastCell(MaxProc)
  BY Layout
<1> QED BY <1>1, MachineConstants DEF Address, Register

\* Two processes have no cell in common
LEMMA BlocksApart ==
    ASSUME NEW p \in Process, NEW q \in Process, p # q,
           NEW a \in 0 .. ProcMemory, NEW b \in 0 .. ProcMemory
    PROVE  Start(p) + a # Start(q) + b
<1>1. p < q \/ q < p
  BY DEF Process
<1> QED BY <1>1, Layout, MachineConstants

\* The registers are addresses at the bottom of memory
LEMMA RegisterCells ==
    /\ Res \in Register /\ CallNumber \in Register /\ Register \subseteq Address
    /\ Register \subseteq 0 .. ProcMemory
BY MachineConstants DEF Res, CallNumber, Register, Address

\* A program that names no negative address reaches its registers and its own
\* block
LEMMA Reach ==
    ASSUME OwnAddresses, cur \in Process, NEW a \in Operand, Accessible(a)
    PROVE  a \in 0 .. ProcMemory /\ Translated(a) \in Address
<1>1. a \in Nat
  BY DEF OwnAddresses
<1>2. CASE a \in Register
  BY <1>2, RegisterCells DEF Translated
<1>3. CASE a \notin Register
  <2>1. Translated(a) = Start(cur) + a /\ Start(cur) + a <= LastCell(cur)
    BY <1>3 DEF Accessible, Translated
  <2>2. a \in 0 .. ProcMemory
    BY <1>1, <2>1, Layout, MachineConstants
  <2> QED BY <2>1, <2>2, BlockCells
<1> QED BY <1>2, <1>3

-----------------------------------------------------------------------------
(* Types *)

\* The copy of the registers into the save area of the current process
LEMMA SavedType ==
    ASSUME cur \in Process, NEW m \in [Address -> Val]
    PROVE  [a \in Address |-> IF a \in SaveArea(cur) THEN m[a - Start(cur)] ELSE m[a]]
               \in [Address -> Val]
<1>1. ASSUME NEW a \in SaveArea(cur) PROVE a - Start(cur) \in Address
  <2>1. PICK r \in Register : a = Start(cur) + r
    BY DEF SaveArea
  <2>2. Start(cur) \in Nat /\ r \in Nat
    BY Layout DEF Register
  <2>3. a - Start(cur) = r
    BY <2>1, <2>2
  <2> QED BY <2>3, RegisterCells
<1> QED BY <1>1

\* The entry to the kernel keeps the types
LEMMA EnterKernelType ==
    ASSUME TypeOK, mode = "user", NEW m \in [Address -> Val], EnterKernel(m)
    PROVE  TypeOK'
<1>1. ram' \in [Address -> Val]
  BY SavedType DEF EnterKernel, TypeOK
<1>2. intData' \in InterruptData /\ pc' \in Int /\ ~intData'.ignore
  BY DEF EnterKernel, TypeOK, InterruptData, Elsewhere
<1> QED BY <1>1, <1>2 DEF EnterKernel, TypeOK

\* The end of a step keeps the types
LEMMA EndOfStepType ==
    ASSUME TypeOK, cur \in alive, NEW k \in Int, EndOfStep(k, timer),
           ram' \in [Address -> Val], InProgram
    PROVE  TypeOK'
<1>1. /\ intData' \in InterruptData /\ pc' \in Int
      /\ phase' = "interrupt" => intData'.ignore
  <2>1. CASE timer = 0
    <3>1. intData' = [pc |-> k, ignore |-> TRUE] /\ pc' = -1
      BY <2>1 DEF EndOfStep, Elsewhere
    <3> QED BY <3>1 DEF InterruptData
  <2>2. CASE timer # 0
    <3>1. intData' = [pc |-> -1, ignore |-> FALSE] /\ pc' = k /\ phase' = "-"
      BY <2>2 DEF EndOfStep, NoData
    <3> QED BY <3>1 DEF InterruptData
  <2> QED BY <2>1, <2>2
<1>2. timer' \in {NoTimer} \cup 0 .. Quantum
  BY MachineConstants DEF EndOfStep, TypeOK, NoTimer
<1> QED BY <1>1, <1>2 DEF EndOfStep, InProgram, TypeOK

\* A copy of such a program is a store to a cell of RAM
LEMMA CopyStores ==
    ASSUME OwnAddresses, TypeOK, Copy
    PROVE  \E a \in 0 .. ProcMemory, v \in Val :
               Translated(a) \in Address /\ StoreCell(Translated(a), v)
<1>1. PICK a \in {b \in Operand : Accessible(b)}, v \in Val : Store(Translated(a), v)
  BY DEF Copy
<1>2. a \in 0 .. ProcMemory /\ Translated(a) \in Address
  BY Reach DEF TypeOK
<1>3. TimerCell \notin Address
  <2>1. 1 \in Process
    BY MachineConstants DEF Process
  <2>2. TimerCell < Start(1) /\ Start(1) \in Nat
    BY <2>1, Layout
  <2> QED BY <2>2, MachineConstants DEF TimerCell, Address, Register
<1> QED BY <1>1, <1>2, <1>3 DEF Store, StoreTimer, StoreKernel

\* Every step of a program leaves the machine in a typed state
LEMMA ProgramType == OwnAddresses /\ TypeOK /\ Program => TypeOK'
<1> SUFFICES ASSUME OwnAddresses, TypeOK, Program PROVE TypeOK'
  OBVIOUS
<1>1. mode = "user" /\ cur \in alive /\ pc + 1 \in Int /\ pc \in Int
  BY DEF Program, Copy, Compute, Jump, NoEffect, DebugMark, SysCall, MemoryError,
         CpuError, NotANumber, FetchFails, Fetches, TypeOK
<1>2. ram \in [Address -> Val] /\ [ram EXCEPT ![CallNumber] = Exit] \in [Address -> Val]
  BY RegisterCells, MachineConstants DEF TypeOK
<1>3. CASE Copy
  <2>1. PICK a \in 0 .. ProcMemory, v \in Val :
                Translated(a) \in Address /\ StoreCell(Translated(a), v)
    BY <1>3, CopyStores
  <2>2. ram' \in [Address -> Val]
    BY <1>2, <2>1 DEF StoreCell
  <2> QED BY <1>1, <2>1, <2>2, EndOfStepType DEF StoreCell
<1>4. CASE Compute
  <2>1. ram' \in [Address -> Val]
    BY <1>2, <1>4 DEF Compute
  <2> QED BY <1>1, <1>4, <2>1, EndOfStepType DEF Compute
<1>5. CASE Jump
  <2>1. PICK t \in Target : EndOfStep(t - 1, timer)
    BY <1>5 DEF Jump
  <2>2. t - 1 \in Int
    BY MachineConstants
  <2> QED BY <1>1, <1>2, <1>5, <2>1, <2>2, EndOfStepType DEF Jump
<1>6. CASE NoEffect
  BY <1>1, <1>2, <1>6, EndOfStepType DEF NoEffect
<1>7. CASE DebugMark
  BY <1>1, <1>7 DEF DebugMark, InProgram, TypeOK
<1>8. CASE SysCall \/ MemoryError \/ CpuError
  BY <1>1, <1>2, <1>8, EnterKernelType DEF SysCall, MemoryError, CpuError
<1>9. CASE NotANumber \/ FetchFails
  BY <1>1, <1>9 DEF NotANumber, FetchFails, TypeOK
<1> QED BY <1>3, <1>4, <1>5, <1>6, <1>7, <1>8, <1>9 DEF Program

\* So does every step of the kernel
LEMMA KernelType == TypeOK /\ Kernel => TypeOK'
<1> SUFFICES ASSUME TypeOK, Kernel PROVE TypeOK'
  OBVIOUS
<1>1. CASE SaveRegisters
  <2>1. ram' \in [Address -> Val] /\ pcbPc' \in [Process -> Int]
    BY <1>1, SavedType DEF SaveRegisters, TypeOK, InterruptData
  <2> QED BY <1>1, <2>1 DEF SaveRegisters, InKernel, TypeOK
<1>2. CASE KernelWork
  <2>1. ram' \in [Address -> Val]
    BY <1>2, RegisterCells DEF KernelWork, TypeOK
  <2> QED BY <1>2, <2>1 DEF KernelWork, InKernel, TypeOK
<1>3. CASE Service \/ ExitCall \/ NoProcess \/ StopsInKernel
  BY <1>3 DEF Service, ExitCall, NoProcess, StopsInKernel, InKernel, TypeOK
<1>4. CASE SkipSched
  <2>1. timer' \in {NoTimer} \cup 0 .. Quantum
    BY <1>4, MachineConstants DEF SkipSched
  <2> QED BY <1>4, <2>1 DEF SkipSched, InKernel, TypeOK
<1>5. CASE SchedRun
  <2>1. timer' \in {NoTimer} \cup 0 .. Quantum
    BY <1>5, MachineConstants DEF SchedRun
  <2>2. cur' \in alive /\ cur' \in Process
    BY <1>5 DEF SchedRun, TypeOK
  <2>3. intData' \in InterruptData /\ intData'.ignore /\ intData'.pc = pcbPc'[cur']
    BY <1>5, <2>2 DEF SchedRun, TypeOK, InterruptData
  <2> QED BY <1>5, <2>1, <2>2, <2>3 DEF SchedRun, InKernel, TypeOK
<1>6. CASE SysReturn
  <2>1. ram' \in [Address -> Val]
    <3>1. \A a \in Register : Start(cur) + a \in Address
      BY BlockCells, RegisterCells DEF TypeOK
    <3> QED BY <1>6, <3>1 DEF SysReturn, TypeOK
  <2>2. cur \in alive /\ intData.pc \in Int
    BY <1>6 DEF SysReturn, TypeOK, InterruptData
  <2> QED BY <1>6, <2>1, <2>2, EndOfStepType DEF SysReturn
<1> QED BY <1>1, <1>2, <1>3, <1>4, <1>5, <1>6 DEF Kernel

\* The types hold in the initial state
LEMMA InitType == Init => TypeOK
BY MachineConstants DEF Init, TypeOK, Process, InterruptData, NoData, NoTimer, Elsewhere

\* Every step keeps them
LEMMA NextType == OwnAddresses /\ TypeOK /\ [Next]_vars => TypeOK'
<1>1. TypeOK /\ UNCHANGED vars => TypeOK'
  BY DEF TypeOK, vars
<1> QED BY <1>1, ProgramType, KernelType DEF Next

\* The kernel has somewhere to return to from its entry to its return, the
\* program counter it returns to is that of the process it chose, and a
\* program that executes is alive (execSysReturn, sys_sched_run), as long as
\* programs name no negative address of data; jumps may lead anywhere.
THEOREM MachineTypes == OwnAddresses /\ Spec => []TypeOK
<1> SUFFICES ASSUME OwnAddresses PROVE Spec => []TypeOK
  OBVIOUS
<1>1. TypeOK /\ [Next]_vars => TypeOK'
  BY NextType
<1> QED BY <1>1, InitType, PTL DEF Spec

-----------------------------------------------------------------------------
(***************************************************************************)
(* Proof that the machine implements independent programs: the CPU, the    *)
(* timer and the kernel never show in what a program executes.             *)
(***************************************************************************)


\* The mapping of the state
On      == IF mode = "user" THEN {cur} ELSE {}
Calling == IF phase \in {"call", "service"} THEN {cur} ELSE {}

\* What a program finds at an address, and where it is
CellOf(p, a) == IF a \in Register /\ Holds(p) THEN ram[a] ELSE ram[Start(p) + a]
LastOf(p) ==
    IF p # cur THEN pcbPc[p]
    ELSE CASE phase = "-" -> pc
           [] phase \in {"interrupt", "call", "service"} -> intData.pc
           [] OTHER -> pcbPc[p]

\* What the programs see, cell by cell
LEMMA Mapped ==
    /\ ProgramCell = [p \in alive |-> [a \in VirtualAddress |-> CellOf(p, a)]]
    /\ ProgramLast = [p \in alive |-> LastOf(p)]
    /\ ProgramCell' = [p \in alive' |-> [a \in VirtualAddress |-> CellOf(p, a)']]
    /\ ProgramLast' = [p \in alive' |-> LastOf(p)']
BY DEF ProgramCell, ProgramLast, CellOf, LastOf, VirtualAddress

\* A cell that is read has its type
LEMMA CellType ==
    ASSUME TypeOK, NEW p \in alive, NEW a \in VirtualAddress
    PROVE  CellOf(p, a) \in Val
BY BlockCells, RegisterCells DEF CellOf, TypeOK, VirtualAddress

-----------------------------------------------------------------------------
(* Steps that change a cell of the program, or none *)

\* One cell of the program changes
LEMMA CellChanged ==
    ASSUME alive' = alive, NEW v, NEW b,
           \A p \in alive, a \in VirtualAddress :
               CellOf(p, a)' = IF p = cur /\ a = b THEN v ELSE CellOf(p, a)
    PROVE  ProgramCell' = [ProgramCell EXCEPT ![cur][b] = v]
BY Mapped

\* A store of the program into a cell within its reach is a store of its own
LEMMA StoreSeen ==
    ASSUME TypeOK, cur \in alive, Holds(cur), Holds(cur)', cur' = cur,
           alive' = alive,
           NEW a \in VirtualAddress, NEW v \in Val,
           Translated(a) \in Address,
           ram' = [ram EXCEPT ![Translated(a)] = v]
    PROVE  ProgramCell' = [ProgramCell EXCEPT ![cur][a] = v]
<1>1. ASSUME NEW p \in alive, NEW b \in VirtualAddress
      PROVE  CellOf(p, b)' = IF p = cur /\ b = a THEN v ELSE CellOf(p, b)
  <2>1. /\ p \in Process /\ cur \in Process /\ ram \in [Address -> Val]
        /\ Start(p) + b \in Address \ Register
        /\ Start(cur) + a \in Address \ Register
    BY BlockCells DEF TypeOK, VirtualAddress
  <2>2. Start(p) + b = Start(cur) + a => p = cur /\ b = a
    <3>1. p # cur => Start(p) + b # Start(cur) + a
      BY <2>1, BlocksApart DEF VirtualAddress
    <3>2. Start(cur) \in Nat /\ a \in Int /\ b \in Int
      BY <2>1, Layout DEF VirtualAddress
    <3> QED BY <3>1, <3>2
  <2>3. CASE p = cur /\ b \in Register
    <3>1. CellOf(p, b) = ram[b] /\ CellOf(p, b)' = ram'[b] /\ b \in Address
      BY <2>3, RegisterCells DEF CellOf, Holds
    <3> QED BY <2>1, <2>3, <3>1 DEF Translated
  <2>4. CASE ~(p = cur /\ b \in Register)
    <3>1. CellOf(p, b) = ram[Start(p) + b] /\ CellOf(p, b)' = ram'[Start(p) + b]
      BY <2>4 DEF CellOf, Holds
    <3> QED BY <2>1, <2>2, <2>4, <3>1 DEF Translated
  <2> QED BY <2>3, <2>4
<1> QED BY <1>1, CellChanged

\* A program that neither stores nor loses a cell
LEMMA CellsKept ==
    ASSUME alive' = alive,
           \A p \in alive, a \in VirtualAddress : CellOf(p, a)' = CellOf(p, a)
    PROVE  ProgramCell' = ProgramCell
BY Mapped

\* The program that executes goes on at k
LEMMA StepOf ==
    ASSUME TypeOK, mode = "user", NEW k, EndOfStep(k, timer), InProgram,
           k = pc + 1 \/ \E t \in Target : k = t - 1,
           NEW a \in VirtualAddress, NEW v \in Val,
           ProgramCell' = [ProgramCell EXCEPT ![cur][a] = v]
    PROVE  Virtual!PNext
<1>1. cur \in alive /\ cur \in Process /\ phase = "-"
  BY DEF TypeOK
<1>2. /\ cur' = cur /\ alive' = alive /\ pcbPc' = pcbPc
      /\ \/ mode' = "user" /\ phase' = "-" /\ pc' = k
         \/ mode' = "kernel" /\ phase' = "interrupt" /\ intData'.pc = k
  BY DEF EndOfStep, InProgram
<1>3. On = {cur} /\ On' \in {On, {}} /\ Calling = {} /\ Calling' = {}
  BY <1>1, <1>2 DEF On, Calling
<1>4. LastOf(cur) = pc /\ LastOf(cur)' = k
      /\ \A p \in alive \ {cur} : LastOf(p)' = LastOf(p)
  BY <1>1, <1>2 DEF LastOf
<1>5. ProgramLast[cur] = pc /\ ProgramLast' = [ProgramLast EXCEPT ![cur] = k]
  BY <1>1, <1>2, <1>4, Mapped
<1>6. Virtual!Execute(cur)
  BY <1>2, <1>3, <1>5 DEF Virtual!Execute, On, Calling
<1> QED BY <1>1, <1>6 DEF Virtual!PNext

\* What the copy of the registers of m into the save area does to the cells:
\* those of the current program are then behind its block's start, where they
\* were or among the registers of m
LEMMA SaveSeen ==
    ASSUME TypeOK, NEW m,
           ram' = [a \in Address |-> IF a \in SaveArea(cur)
                                     THEN m[a - Start(cur)] ELSE m[a]],
           NEW p \in Process, NEW a \in VirtualAddress
    PROVE  ram'[Start(p) + a] = IF p = cur /\ a \in Register THEN m[a]
                                ELSE m[Start(p) + a]
<1>1. /\ cur \in Process /\ Start(p) + a \in Address
      /\ Start(cur) \in Nat /\ Start(p) \in Nat /\ a \in Nat
  BY BlockCells, Layout DEF TypeOK, VirtualAddress
<1>2. Start(p) + a \in SaveArea(cur) <=> p = cur /\ a \in Register
  <2>1. ASSUME NEW r \in Register, Start(p) + a = Start(cur) + r
        PROVE  p = cur /\ a = r
    <3>1. p = cur
      BY <1>1, <2>1, BlocksApart, RegisterCells DEF VirtualAddress
    <3>2. r \in Nat
      BY DEF Register
    <3> QED BY <1>1, <2>1, <3>1, <3>2
  <2> QED BY <2>1 DEF SaveArea
<1>3. p = cur => Start(p) + a - Start(cur) = a
  BY <1>1
<1> QED BY <1>1, <1>2, <1>3

\* A system call, or a fault that makes one, is the call of the program
LEMMA CallSeen ==
    ASSUME TypeOK, mode = "user", NEW v \in Val,
           EnterKernel([ram EXCEPT ![CallNumber] = v])
    PROVE  Virtual!PNext
<1> DEFINE m == [ram EXCEPT ![CallNumber] = v]
<1>1. /\ cur \in alive /\ cur \in Process /\ phase = "-"
      /\ alive \subseteq Process /\ ram \in [Address -> Val]
  BY DEF TypeOK
<1>2. /\ cur' = cur /\ alive' = alive /\ pcbPc' = pcbPc
      /\ mode' = "kernel" /\ phase' = "call" /\ intData'.pc = pc + 1
      /\ ram' = [a \in Address |-> IF a \in SaveArea(cur)
                                   THEN m[a - Start(cur)] ELSE m[a]]
  BY DEF EnterKernel
<1>3. ASSUME NEW p \in alive, NEW a \in VirtualAddress
      PROVE  CellOf(p, a)' = IF p = cur /\ a = CallNumber THEN v ELSE CellOf(p, a)
  <2> HIDE DEF m
  <2>1. CellOf(p, a)' = IF p = cur /\ a \in Register THEN m[a] ELSE m[Start(p) + a]
    BY <1>1, <1>2, SaveSeen DEF CellOf, Holds
  <2>2. /\ Start(p) + a \in Address \ Register /\ CallNumber \in Register
        /\ Register \subseteq Address
    BY <1>1, BlockCells, RegisterCells DEF VirtualAddress
  <2>3. \A b \in Address : m[b] = IF b = CallNumber THEN v ELSE ram[b]
    BY <1>1 DEF m
  <2> QED BY <1>1, <2>1, <2>2, <2>3 DEF CellOf, Holds
<1>4. ProgramCell' = [ProgramCell EXCEPT ![cur][CallNumber] = v]
  BY <1>2, <1>3, CellChanged
<1>5. /\ On = {cur} /\ On' = {} /\ Calling = {} /\ Calling' = {cur}
  BY <1>1, <1>2 DEF On, Calling
<1>6. LastOf(cur) = pc /\ LastOf(cur)' = pc + 1
      /\ \A p \in alive \ {cur} : LastOf(p)' = LastOf(p)
  BY <1>1, <1>2 DEF LastOf
<1>7. ProgramLast' = [ProgramLast EXCEPT ![cur] = @ + 1]
  BY <1>1, <1>2, <1>6, Mapped
<1>8. Virtual!Call(cur)
  BY <1>2, <1>4, <1>5, <1>7 DEF Virtual!Call, On, Calling
<1> QED BY <1>1, <1>8 DEF Virtual!PNext

\* Every step of a program is a step of the program, and of no other
LEMMA ProgramRefines == OwnAddresses /\ TypeOK /\ Program => Virtual!PNext
<1> SUFFICES ASSUME OwnAddresses, TypeOK, Program PROVE Virtual!PNext
  OBVIOUS
<1>1. mode = "user" /\ phase = "-" /\ cur \in alive /\ cur \in Process /\ Holds(cur)
  BY DEF Program, Copy, Compute, Jump, NoEffect, DebugMark, SysCall, MemoryError,
         CpuError, NotANumber, FetchFails, Fetches, TypeOK, Holds
<1>2. ram \in [Address -> Val] /\ pc \in Int
  BY DEF TypeOK
<1>3. Res \in VirtualAddress /\ Res \in Register
  BY RegisterCells DEF VirtualAddress
<1>4. ASSUME UNCHANGED <<ram, cur, alive>>, Holds(cur)'
      PROVE  ProgramCell' = [ProgramCell EXCEPT ![cur][Res] = CellOf(cur, Res)]
  <2>1. \A p \in alive, a \in VirtualAddress : CellOf(p, a)' = CellOf(p, a)
    BY <1>1, <1>4 DEF CellOf, Holds
  <2>2. ProgramCell' = ProgramCell
    BY <1>4, <2>1, CellsKept
  <2>3. ProgramCell = [ProgramCell EXCEPT ![cur][Res] = CellOf(cur, Res)]
    BY <1>1, <1>3, Mapped
  <2> QED BY <2>2, <2>3
<1>5. ASSUME NEW k, EndOfStep(k, timer), UNCHANGED cur PROVE Holds(cur)'
  BY <1>5 DEF EndOfStep, Holds
<1>6. CellOf(cur, Res) \in Val
  BY <1>1, <1>3, CellType
<1>7. CASE Copy
  <2>1. PICK a \in 0 .. ProcMemory, v \in Val :
                Translated(a) \in Address /\ StoreCell(Translated(a), v)
    BY <1>7, CopyStores
  <2>2. a \in VirtualAddress /\ ram' = [ram EXCEPT ![Translated(a)] = v]
        /\ EndOfStep(pc + 1, timer) /\ InProgram
    BY <2>1 DEF StoreCell, VirtualAddress
  <2>3. Holds(cur)' /\ cur' = cur /\ alive' = alive
    BY <1>5, <2>2 DEF InProgram
  <2>4. ProgramCell' = [ProgramCell EXCEPT ![cur][a] = v]
    BY <1>1, <2>1, <2>2, <2>3, StoreSeen
  <2> QED BY <1>1, <2>2, <2>4, StepOf
<1>8. CASE Compute
  <2>1. PICK v \in Val : ram' = [ram EXCEPT ![Res] = v]
    BY <1>8 DEF Compute
  <2>2. Translated(Res) = Res /\ Res \in Address
    BY <1>3, RegisterCells DEF Translated
  <2>3. Holds(cur)' /\ cur' = cur /\ alive' = alive
    BY <1>5, <1>8 DEF Compute, InProgram
  <2>4. ProgramCell' = [ProgramCell EXCEPT ![cur][Res] = v]
    BY <1>1, <1>3, <2>1, <2>2, <2>3, StoreSeen
  <2> QED BY <1>1, <1>3, <1>8, <2>4, StepOf DEF Compute
<1>9. CASE Jump
  <2>1. PICK t \in Target : EndOfStep(t - 1, timer)
    BY <1>9 DEF Jump
  <2>2. ProgramCell' = [ProgramCell EXCEPT ![cur][Res] = CellOf(cur, Res)]
    BY <1>4, <1>5, <1>9, <2>1 DEF Jump, InProgram
  <2> QED BY <1>1, <1>3, <1>6, <1>9, <2>1, <2>2, StepOf DEF Jump
<1>10. CASE NoEffect
  <2>1. ProgramCell' = [ProgramCell EXCEPT ![cur][Res] = CellOf(cur, Res)]
    BY <1>4, <1>5, <1>10 DEF NoEffect, InProgram
  <2> QED BY <1>1, <1>3, <1>6, <1>10, <2>1, StepOf DEF NoEffect
<1>11. CASE DebugMark \/ NotANumber \/ FetchFails
  <2>1. pc' = pc + 1 /\ UNCHANGED <<mode, ram, cur, timer, intData, phase, alive, pcbPc>>
    BY <1>11 DEF DebugMark, NotANumber, FetchFails, InProgram
  <2>2. ProgramCell' = [ProgramCell EXCEPT ![cur][Res] = CellOf(cur, Res)]
    BY <1>1, <1>4, <2>1 DEF Holds
  <2>3. On' = On /\ On = {cur} /\ Calling' = Calling
    BY <1>1, <2>1 DEF On, Calling
  <2>4. LastOf(cur) = pc /\ LastOf(cur)' = pc + 1
        /\ \A p \in alive \ {cur} : LastOf(p)' = LastOf(p)
    BY <1>1, <2>1 DEF LastOf
  <2>5. ProgramLast[cur] = pc /\ ProgramLast' = [ProgramLast EXCEPT ![cur] = pc + 1]
    BY <1>1, <2>1, <2>4, Mapped
  <2>6. Virtual!Execute(cur)
    BY <1>3, <1>6, <2>1, <2>2, <2>3, <2>5 DEF Virtual!Execute, On, Calling
  <2> QED BY <1>1, <2>6 DEF Virtual!PNext
<1>12. CASE SysCall
  <2>1. ram = [ram EXCEPT ![CallNumber] = ram[CallNumber]] /\ ram[CallNumber] \in Val
    BY <1>2, RegisterCells
  <2> QED BY <1>1, <1>12, <2>1, CallSeen DEF SysCall
<1>13. CASE MemoryError \/ CpuError
  BY <1>1, <1>13, CallSeen, MachineConstants DEF MemoryError, CpuError
<1> QED BY <1>7, <1>8, <1>9, <1>10, <1>11, <1>12, <1>13 DEF Program

-----------------------------------------------------------------------------
(* Steps of the kernel *)

\* Nothing that programs see changes
LEMMA Stutters ==
    ASSUME alive' = alive, On' = On, Calling' = Calling,
           \A p \in alive : LastOf(p)' = LastOf(p),
           \A p \in alive, a \in VirtualAddress : CellOf(p, a)' = CellOf(p, a)
    PROVE  UNCHANGED Virtual!pvars
<1>1. ProgramCell' = ProgramCell /\ ProgramLast' = ProgramLast
  BY CellsKept, Mapped
<1> QED BY <1>1 DEF Virtual!pvars, On, Calling

\* The return from a system call is its answer, the result register excepted
LEMMA AnswerSeen == TypeOK /\ SysReturn /\ phase = "service" => Virtual!PNext
<1> SUFFICES ASSUME TypeOK, SysReturn, phase = "service" PROVE Virtual!PNext
  OBVIOUS
<1>1. /\ cur \in alive /\ cur \in Process /\ mode = "kernel" /\ ~intData.ignore
      /\ alive \subseteq Process /\ ram \in [Address -> Val]
  BY DEF TypeOK, SysReturn
<1>2. /\ cur' = cur /\ alive' = alive /\ pcbPc' = pcbPc
      /\ \/ mode' = "user" /\ phase' = "-" /\ pc' = intData.pc
         \/ mode' = "kernel" /\ phase' = "interrupt" /\ intData'.pc = intData.pc
  BY DEF SysReturn, EndOfStep, InProgram
<1>3. \A a \in Address : ram'[a] = IF a \notin Register \/ a = Res THEN ram[a]
                                   ELSE ram[Start(cur) + a]
  BY <1>1 DEF SysReturn
<1>4. ASSUME NEW p \in alive, NEW a \in VirtualAddress
      PROVE  CellOf(p, a)' = IF p = cur /\ a = Res THEN ram[Res] ELSE CellOf(p, a)
  <2>1. /\ Start(p) + a \in Address \ Register
        /\ Res \in Register /\ Register \subseteq Address
    BY <1>1, BlockCells, RegisterCells DEF VirtualAddress
  <2>2. CellOf(p, a) = ram[Start(p) + a]
    BY DEF CellOf, Holds
  <2>3. CellOf(p, a)' = IF a \in Register /\ p = cur THEN ram'[a] ELSE ram'[Start(p) + a]
    BY <1>2 DEF CellOf, Holds
  <2> QED BY <1>3, <2>1, <2>2, <2>3
<1>5. Res \in VirtualAddress /\ ram[Res] \in Val
  BY <1>1, RegisterCells DEF VirtualAddress
<1>6. ProgramCell' = [ProgramCell EXCEPT ![cur][Res] = ram[Res]]
  BY <1>2, <1>4, CellChanged
<1>7. /\ On = {} /\ On' \in {{}, {cur}} /\ Calling = {cur} /\ Calling' = {}
  BY <1>1, <1>2 DEF On, Calling
<1>8. \A p \in alive : LastOf(p)' = LastOf(p)
  BY <1>2 DEF LastOf
<1>9. ProgramLast' = ProgramLast
  BY <1>2, <1>8, Mapped
<1>10. Virtual!Answer(cur)
  BY <1>2, <1>5, <1>6, <1>7, <1>9 DEF Virtual!Answer, On, Calling
<1> QED BY <1>1, <1>10 DEF Virtual!PNext

\* The return to a process that was chosen gives it the CPU with the cells and
\* the program counter it had, or lets the timer fire before its next step
LEMMA ResumeSeen ==
    TypeOK /\ SysReturn /\ phase = "return" => Virtual!PNext \/ UNCHANGED Virtual!pvars
<1> SUFFICES ASSUME TypeOK, SysReturn, phase = "return"
             PROVE  Virtual!PNext \/ UNCHANGED Virtual!pvars
  OBVIOUS
<1>1. /\ cur \in alive /\ cur \in Process /\ mode = "kernel"
      /\ intData.ignore /\ intData.pc = pcbPc[cur]
      /\ alive \subseteq Process /\ ram \in [Address -> Val]
  BY DEF TypeOK, SysReturn
<1>2. /\ cur' = cur /\ alive' = alive /\ pcbPc' = pcbPc
      /\ \/ mode' = "user" /\ phase' = "-" /\ pc' = intData.pc
         \/ mode' = "kernel" /\ phase' = "interrupt" /\ intData'.pc = intData.pc
  BY DEF SysReturn, EndOfStep, InProgram
<1>3. \A a \in Address : ram'[a] = IF a \notin Register THEN ram[a]
                                   ELSE ram[Start(cur) + a]
  BY <1>1 DEF SysReturn
<1>4. ASSUME NEW p \in alive, NEW a \in VirtualAddress
      PROVE  CellOf(p, a)' = CellOf(p, a)
  <2>1. Start(p) + a \in Address \ Register /\ Register \subseteq Address
    BY <1>1, BlockCells, RegisterCells DEF VirtualAddress
  <2>2. CellOf(p, a) = ram[Start(p) + a]
    BY DEF CellOf, Holds
  <2>3. CellOf(p, a)' = IF a \in Register /\ p = cur THEN ram'[a] ELSE ram'[Start(p) + a]
    BY <1>2 DEF CellOf, Holds
  <2> QED BY <1>3, <2>1, <2>2, <2>3
<1>5. \A p \in alive : LastOf(p)' = LastOf(p)
  BY <1>1, <1>2 DEF LastOf
<1>6. On = {} /\ Calling = {} /\ Calling' = {}
  BY <1>1, <1>2 DEF On, Calling
<1>7. CASE mode' = "user"
  <2>1. On' = {cur} /\ ProgramCell' = ProgramCell /\ ProgramLast' = ProgramLast
    BY <1>2, <1>4, <1>5, <1>7, CellsKept, Mapped DEF On
  <2>2. Virtual!Resume(cur)
    BY <1>1, <1>2, <1>6, <2>1 DEF Virtual!Resume, On, Calling
  <2> QED BY <1>1, <2>2 DEF Virtual!PNext
<1>8. CASE mode' # "user"
  <2>1. On' = On
    BY <1>6, <1>8 DEF On
  <2> QED BY <1>2, <1>4, <1>5, <1>6, <2>1, Stutters
<1> QED BY <1>7, <1>8

\* A step of the kernel is an answer, a resumption, the end of a program, or
\* nothing that a program sees
LEMMA KernelRefines ==
    TypeOK /\ Kernel => Virtual!PNext \/ UNCHANGED Virtual!pvars
<1> SUFFICES ASSUME TypeOK, Kernel PROVE Virtual!PNext \/ UNCHANGED Virtual!pvars
  OBVIOUS
<1>1. mode = "kernel" /\ phase # "-" /\ alive \subseteq Process
      /\ cur \in Process /\ ram \in [Address -> Val]
  BY DEF Kernel, SaveRegisters, KernelWork, Service, ExitCall, SkipSched, SchedRun,
         NoProcess, SysReturn, StopsInKernel, InKernel, TypeOK
<1>2. CASE SaveRegisters
  <2>1. /\ phase = "interrupt" /\ phase' = "choose" /\ mode' = mode
        /\ cur' = cur /\ alive' = alive
        /\ pcbPc' = [pcbPc EXCEPT ![cur] = intData.pc]
    BY <1>2 DEF SaveRegisters, InKernel
  <2>2. ASSUME NEW p \in alive, NEW a \in VirtualAddress
        PROVE  CellOf(p, a)' = CellOf(p, a)
    <3>1. ram'[Start(p) + a] = IF p = cur /\ a \in Register THEN ram[a]
                               ELSE ram[Start(p) + a]
      BY <1>1, <1>2, SaveSeen DEF SaveRegisters
    <3> QED BY <2>1, <3>1 DEF CellOf, Holds
  <2>3. \A p \in alive : LastOf(p)' = LastOf(p)
    BY <1>1, <2>1 DEF LastOf, TypeOK
  <2>4. On' = On /\ Calling' = Calling
    BY <2>1 DEF On, Calling
  <2> QED BY <2>1, <2>2, <2>3, <2>4, Stutters
<1>3. CASE KernelWork
  <2>1. /\ phase \in {"service", "choose", "prompt"}
        /\ UNCHANGED <<mode, cur, intData, phase, alive, pcbPc>>
    BY <1>3 DEF KernelWork, InKernel
  <2>2. PICK r \in Register, v \in Val : ram' = [ram EXCEPT ![r] = v]
    BY <1>3 DEF KernelWork
  <2>3. ASSUME NEW p \in alive, NEW a \in VirtualAddress
        PROVE  CellOf(p, a)' = CellOf(p, a)
    <3>1. Start(p) + a \in Address \ Register
      BY <1>1, BlockCells DEF VirtualAddress
    <3> QED BY <1>1, <2>1, <2>2, <3>1 DEF CellOf, Holds
  <2>4. \A p \in alive : LastOf(p)' = LastOf(p)
    BY <1>1, <2>1 DEF LastOf
  <2>5. On' = On /\ Calling' = Calling
    BY <2>1 DEF On, Calling
  <2> QED BY <2>1, <2>3, <2>4, <2>5, Stutters
<1>4. CASE Service \/ SkipSched \/ NoProcess \/ StopsInKernel
  <2>1. /\ UNCHANGED <<mode, ram, cur, intData, alive, pcbPc>>
        /\ \/ phase' = phase
           \/ phase = "call" /\ phase' = "service"
           \/ phase = "choose" /\ phase' = "prompt"
    BY <1>4 DEF Service, SkipSched, NoProcess, StopsInKernel, InKernel
  <2>2. \A p \in alive, a \in VirtualAddress : CellOf(p, a)' = CellOf(p, a)
    BY <2>1 DEF CellOf, Holds
  <2>3. \A p \in alive : LastOf(p)' = LastOf(p)
    BY <1>1, <1>4, <2>1 DEF LastOf, StopsInKernel
  <2>4. On' = On /\ Calling' = Calling
    BY <2>1 DEF On, Calling
  <2> QED BY <2>1, <2>2, <2>3, <2>4, Stutters
<1>5. CASE SchedRun
  <2>1. /\ phase = "choose" /\ phase' = "return"
        /\ UNCHANGED <<mode, ram, alive, pcbPc>>
    BY <1>5 DEF SchedRun, InKernel
  <2>2. \A p \in alive, a \in VirtualAddress : CellOf(p, a)' = CellOf(p, a)
    BY <2>1 DEF CellOf, Holds
  <2>3. \A p \in alive : LastOf(p)' = LastOf(p)
    BY <2>1 DEF LastOf
  <2>4. On' = On /\ Calling' = Calling
    BY <1>1, <2>1 DEF On, Calling
  <2> QED BY <2>1, <2>2, <2>3, <2>4, Stutters
<1>6. CASE ExitCall
  <2>1. /\ phase = "call" /\ phase' = "choose" /\ cur \in alive
        /\ alive' = alive \ {cur} /\ UNCHANGED <<mode, ram, cur, intData, pcbPc>>
    BY <1>6 DEF ExitCall, InKernel, TypeOK
  <2>2. \A p \in alive', a \in VirtualAddress : CellOf(p, a)' = CellOf(p, a)
    BY <2>1 DEF CellOf, Holds
  <2>3. \A p \in alive' : LastOf(p)' = LastOf(p)
    BY <2>1 DEF LastOf
  <2>4. /\ ProgramCell' = [p \in alive' |-> ProgramCell[p]]
        /\ ProgramLast' = [p \in alive' |-> ProgramLast[p]]
    BY <2>1, <2>2, <2>3, Mapped
  <2>5. On' = On /\ Calling = {cur} /\ Calling' = {}
    BY <1>1, <2>1 DEF On, Calling
  <2>6. Virtual!End(cur)
    BY <2>1, <2>4, <2>5 DEF Virtual!End, On, Calling
  <2> QED BY <1>1, <2>6 DEF Virtual!PNext
<1>7. CASE SysReturn
  BY <1>7, AnswerSeen, ResumeSeen DEF SysReturn
<1> QED BY <1>2, <1>3, <1>4, <1>5, <1>6, <1>7 DEF Kernel

-----------------------------------------------------------------------------
\* The initial states are those of the virtual machine
LEMMA InitRefines == Init => Virtual!PInit
<1> SUFFICES ASSUME Init PROVE Virtual!PInit
  OBVIOUS
<1>1. PICK v \in Val : ram = [a \in Address |-> v]
  BY DEF Init
<1>2. alive = Process /\ mode = "kernel" /\ phase = "choose"
      /\ pcbPc = [p \in Process |-> UserSpaceEnd]
  BY DEF Init
<1>3. \A p \in alive, a \in VirtualAddress : CellOf(p, a) = v
  BY <1>1, <1>2, BlockCells DEF CellOf, Holds, VirtualAddress
<1>4. \A p \in alive : LastOf(p) = UserSpaceEnd
  BY <1>2 DEF LastOf
<1>5. ProgramCell = [p \in Process |-> [a \in VirtualAddress |-> v]]
      /\ ProgramLast = [p \in Process |-> UserSpaceEnd]
  BY <1>2, <1>3, <1>4, Mapped
<1> QED BY <1>2, <1>5 DEF Virtual!PInit

\* Every step is one of the virtual machine, or none
LEMMA NextRefines ==
    OwnAddresses /\ TypeOK /\ [Next]_vars => [Virtual!PNext]_(Virtual!pvars)
<1> SUFFICES ASSUME TypeOK, UNCHANGED vars PROVE UNCHANGED Virtual!pvars
  BY ProgramRefines, KernelRefines DEF Next
<1>1. \A p \in alive, a \in VirtualAddress : CellOf(p, a)' = CellOf(p, a)
  BY DEF vars, CellOf, Holds
<1>2. \A p \in alive : LastOf(p)' = LastOf(p)
  BY DEF vars, LastOf
<1>3. alive' = alive /\ On' = On /\ Calling' = Calling
  BY DEF vars, On, Calling
<1> QED BY <1>1, <1>2, <1>3, Stutters

\* Interrupts, system calls, faults and the instructions of the others never
\* show in what a program executes: it has its cells to itself, and none of its
\* instructions is lost or repeated (cpu.cpp, ram.cpp, sys_interrupt_handler).
\* That is so as long as programs name no negative address of data: ram.cpp does
\* not refuse one, and ProgramsAreIsolated is the counterexample.
THEOREM MachineRefinement == OwnAddresses /\ Spec => ImplementsPrograms
<1> SUFFICES ASSUME OwnAddresses PROVE Spec => ImplementsPrograms
  OBVIOUS
<1>1. TypeOK /\ [Next]_vars => [Virtual!PNext]_(Virtual!pvars)
  BY NextRefines
<1>2. Spec => []TypeOK
  BY MachineTypes
<1>3. Spec => Virtual!PInit /\ [][Virtual!PNext]_(Virtual!pvars)
  BY InitRefines, <1>1, <1>2, PTL DEF Spec
<1> QED BY <1>3 DEF ImplementsPrograms, Virtual!PSpec

-----------------------------------------------------------------------------
(* Digits and numbers *)

\* The ten digits are characters, different from each other and from the others
\* that a number is made of
LEMMA DigitsAre ==
    /\ Len(Digits) = 10 /\ DOMAIN Digits = 1 .. 10
    /\ \A i, j \in 1 .. 10 : Digits[i] = Digits[j] => i = j
    /\ Digit = {Digits[i] : i \in 1 .. 10}
    /\ Digit \subseteq Char
    /\ Minus \notin Digit /\ Space \notin Digit /\ "+" \notin Digit
    /\ Minus # Space /\ Minus \in Char /\ Space \in Char
<1>1. Len(Digits) = 10 /\ DOMAIN Digits = 1 .. 10
  BY DEF Digits
<1>2. \A i, j \in 1 .. 10 : Digits[i] = Digits[j] => i = j
  BY DEF Digits
<1>3. Digit = {Digits[i] : i \in 1 .. 10}
  BY <1>1, Zenon DEF Digit, ToSet
<1>4. Digit = {"0", "1", "2", "3", "4", "5", "6", "7", "8", "9"}
  BY DEF Digit, Digits, ToSet
<1>5. Digit \subseteq Char /\ Minus \in Char /\ Space \in Char
  BY TextsConstants
<1>6. Minus \notin Digit /\ Space \notin Digit /\ "+" \notin Digit
  BY <1>4, Zenon DEF Minus, Space
<1>7. Minus # Space
  BY Zenon DEF Minus, Space
<1> QED BY <1>1, <1>2, <1>3, <1>5, <1>6, <1>7

\* The value of a digit is its place
LEMMA DigitIs ==
    ASSUME NEW i \in 0 .. 9
    PROVE  Digits[i + 1] \in Digit /\ DigitValue(Digits[i + 1]) = i
<1>1. i + 1 \in DOMAIN Digits /\ Digits[i + 1] \in Digit
      /\ \A j \in DOMAIN Digits : Digits[j] = Digits[i + 1] => j = i + 1
  BY DigitsAre
<1> DEFINE c == CHOOSE j \in DOMAIN Digits : Digits[j] = Digits[i + 1]
<1>2. c \in DOMAIN Digits /\ Digits[c] = Digits[i + 1]
  BY <1>1
<1>3. c = i + 1
  BY <1>1, <1>2
<1> QED BY <1>1, <1>3 DEF DigitValue

LEMMA DigitWorth ==
    ASSUME NEW d \in Digit
    PROVE  DigitValue(d) \in 0 .. 9
<1>1. PICK i \in 1 .. 10 : d = Digits[i]
  BY DigitsAre
<1>2. i - 1 \in 0 .. 9 /\ (i - 1) + 1 = i
  OBVIOUS
<1> QED BY <1>1, <1>2, DigitIs

\* Any function that reads digits in this way ends with their value
LEMMA ValueBy ==
    ASSUME NEW digits, NEW h, Len(digits) \in Nat, DOMAIN h = 0 .. Len(digits),
           h = [i \in 0 .. Len(digits) |-> h[i]], h[0] = 0,
           \A i \in 1 .. Len(digits) : h[i] = 10 * h[i - 1] + DigitValue(digits[i])
    PROVE  Value(digits) = h[Len(digits)]
<1> DEFINE N == Len(digits)
           Body(g) == [i \in 0 .. N |->
                         IF i = 0 THEN 0 ELSE 10 * g[i - 1] + DigitValue(digits[i])]
<1>1. h = Body(h)
  <2>1. \A i \in 0 .. N : h[i] = Body(h)[i]
    OBVIOUS
  <2>2. Body(h) = [i \in 0 .. N |-> Body(h)[i]]
    OBVIOUS
  <2> HIDE DEF Body
  <2> QED BY <2>1, <2>2
<1>2. PICK f : f = Body(f) /\ Value(digits) = f[N]
  <2> DEFINE v == CHOOSE g : g = Body(g)
  <2>1. Value(digits) = v[N]
    BY DEF Value
  <2>2. v = Body(v)
    <3> HIDE DEF Body
    <3> QED BY <1>1
  <2> HIDE DEF v, Body
  <2> QED BY <2>1, <2>2
<1>4. \A i \in 0 .. N : f[i] = IF i = 0 THEN 0 ELSE 10 * f[i - 1] + DigitValue(digits[i])
  BY <1>2
<1>5. f[0] = h[0]
  BY <1>4
<1>6. ASSUME NEW i \in 1 .. N, f[i - 1] = h[i - 1] PROVE f[i] = h[i]
  <2>1. i \in 0 .. N /\ i # 0
    OBVIOUS
  <2> QED BY <1>4, <1>6, <2>1
<1>7. \A i \in 1 .. N : f[i - 1] = h[i - 1] => f[i] = h[i]
  BY <1>6
<1>8. \A i \in 0 .. N : f[i] = h[i]
  <2> HIDE DEF Body, N
  <2>1. N \in Nat
    BY DEF N
  <2> DEFINE G == {i \in 0 .. N : f[i] = h[i]}
  <2>2. 0 \in G
    BY <1>5, <2>1
  <2>3. \A k \in 1 .. N : k - 1 \in G => k \in G
    BY <1>7, <2>1
  <2> HIDE DEF G
  <2>4. \A k \in 0 .. N : k \in G
    BY <2>1, <2>2, <2>3, Induction
  <2> QED BY <2>4 DEF G
<1> QED BY <1>2, <1>8

\* There is such a function
LEMMA ValueExists ==
    ASSUME NEW digits \in Seq(Digit)
    PROVE  \E h \in [0 .. Len(digits) -> Nat] :
              /\ h[0] = 0
              /\ \A i \in 1 .. Len(digits) :
                    h[i] = 10 * h[i - 1] + DigitValue(digits[i])
<1> DEFINE N == Len(digits)
           step == [i \in 1 .. N |-> [v \in Nat |-> 10 * v + DigitValue(digits[i])]]
<1>1. \A i \in 1 .. N : DigitValue(digits[i]) \in Nat
  <2>1. \A i \in 1 .. N : digits[i] \in Digit
    OBVIOUS
  <2> QED BY <2>1, DigitWorth
<1>2. step \in [1 .. N -> [Nat -> Nat]]
  BY <1>1
<1>3. \A i \in 1 .. N, v \in Nat : step[i][v] = 10 * v + DigitValue(digits[i])
  OBVIOUS
<1>0. N \in Nat /\ 0 \in Nat
  OBVIOUS
<1> HIDE DEF step, N
<1>4. PICK h : Iterates(h, Nat, N, 0, step)
  BY <1>0, <1>2, IterateExists, Zenon
<1>5. \A i \in 1 .. N : i - 1 \in 0 .. N /\ h[i - 1] \in Nat
  BY <1>0, <1>4 DEF Iterates
<1>6. \A i \in 1 .. N : h[i] = 10 * h[i - 1] + DigitValue(digits[i])
  BY <1>3, <1>4, <1>5 DEF Iterates
<1>7. h \in [0 .. N -> Nat] /\ h[0] = 0
  BY <1>4 DEF Iterates
<1> QED BY <1>6, <1>7 DEF N

\* The value of digits, digit by digit
LEMMA ValueIs ==
    /\ Value(<<>>) = 0
    /\ \A digits \in Seq(Digit), d \in Digit :
          Value(digits) \in Nat /\ Value(Append(digits, d)) = 10 * Value(digits) + DigitValue(d)
<1>1. Value(<<>>) = 0
  <2> DEFINE h == [i \in 0 .. 0 |-> 0]
  <2>0. Len(<<>>) = 0 /\ h[0] = 0 /\ DOMAIN h = 0 .. 0 /\ h = [i \in 0 .. 0 |-> h[i]]
    OBVIOUS
  <2> HIDE DEF h
  <2>1. Value(<<>>) = h[Len(<<>>)]
    BY <2>0, ValueBy
  <2> QED BY <2>0, <2>1
<1>2. ASSUME NEW digits \in Seq(Digit), NEW d \in Digit
      PROVE  Value(digits) \in Nat
             /\ Value(Append(digits, d)) = 10 * Value(digits) + DigitValue(d)
  <2> DEFINE N == Len(digits)
             all == Append(digits, d)
  <2>1. all \in Seq(Digit) /\ Len(all) = N + 1 /\ N \in Nat /\ all[N + 1] = d
        /\ \A i \in 1 .. N : all[i] = digits[i]
    OBVIOUS
  <2> HIDE DEF all
  <2>2. PICK h \in [0 .. N + 1 -> Nat] :
            /\ h[0] = 0
            /\ \A i \in 1 .. N + 1 : h[i] = 10 * h[i - 1] + DigitValue(all[i])
    <3>1. all \in Seq(Digit)
      BY <2>1
    <3>2. \E h \in [0 .. Len(all) -> Nat] :
             /\ h[0] = 0
             /\ \A i \in 1 .. Len(all) : h[i] = 10 * h[i - 1] + DigitValue(all[i])
      BY <3>1, ValueExists, Zenon
    <3>3. Len(all) = N + 1
      BY <2>1
    <3> QED BY <3>2, <3>3
  <2>3. Value(all) = h[N + 1]
    <3>1. h = [i \in 0 .. Len(all) |-> h[i]] /\ Len(all) \in Nat
          /\ DOMAIN h = 0 .. Len(all)
      BY <2>1
    <3>2. \A i \in 1 .. Len(all) : h[i] = 10 * h[i - 1] + DigitValue(all[i])
      BY <2>1, <2>2
    <3>3. Value(all) = h[Len(all)]
      BY <2>2, <3>1, <3>2, ValueBy
    <3> QED BY <2>1, <3>3
  <2> DEFINE k == [i \in 0 .. N |-> h[i]]
  <2>4. /\ DOMAIN k = 0 .. N /\ k = [i \in 0 .. N |-> k[i]] /\ k[0] = 0
        /\ \A i \in 0 .. N : k[i] = h[i]
    BY <2>1, <2>2
  <2> HIDE DEF k
  <2>5. ASSUME NEW i \in 1 .. N PROVE k[i] = 10 * k[i - 1] + DigitValue(digits[i])
    <3>1. i \in 1 .. N + 1 /\ i \in 0 .. N /\ i - 1 \in 0 .. N
      BY <2>1
    <3> QED BY <2>1, <2>2, <2>4, <3>1
  <2>6. Value(digits) = k[N]
    BY <2>1, <2>4, <2>5, ValueBy
  <2>7. N \in 0 .. N /\ N \in 0 .. N + 1 /\ N + 1 \in 1 .. N + 1 /\ (N + 1) - 1 = N
    BY <2>1
  <2>8. k[N] = h[N] /\ h[N] \in Nat /\ h[N + 1] = 10 * h[N] + DigitValue(all[N + 1])
    BY <2>2, <2>4, <2>7
  <2>9. Value(digits) = h[N] /\ h[N] \in Nat
    BY <2>6, <2>8
  <2>10. Value(all) = 10 * h[N] + DigitValue(d)
    BY <2>1, <2>3, <2>8
  <2> QED BY <2>9, <2>10 DEF all
<1> QED BY <1>1, <1>2

\* The number without its last digit is smaller
LEMMA LastDigit ==
    ASSUME NEW m \in Nat
    PROVE  /\ m \div 10 \in Nat /\ m % 10 \in 0 .. 9
           /\ m = 10 * (m \div 10) + (m % 10)
           /\ m >= 10 => m \div 10 < m
OBVIOUS

\* The step of std::to_string
DigitsStep(h, m) ==
    IF m < 10 THEN <<Digits[m + 1]>> ELSE Append(h[m \div 10], Digits[(m % 10) + 1])

\* What DigitsOf recurs over exists
LEMMA DigitsExist ==
    ASSUME NEW n \in Nat
    PROVE  \E h \in [0 .. n -> Seq(Digit)] : \A m \in 0 .. n : h[m] = DigitsStep(h, m)
<1> DEFINE Goes(k, h) == \A m \in 0 .. k : h[m] = DigitsStep(h, m)
           G == {k \in 0 .. n : \E h \in [0 .. k -> Seq(Digit)] : Goes(k, h)}
<1>1. 0 \in G
  <2>0. PICK e : e = <<Digits[0 + 1]>>
    OBVIOUS
  <2>1. e \in Seq(Digit)
    <3>1. 0 \in 0 .. 9
      OBVIOUS
    <3>2. Digits[0 + 1] \in Digit
      BY <3>1, DigitIs
    <3> QED BY <2>0, <3>2
  <2> DEFINE z == [i \in 0 .. 0 |-> e]
  <2>2. z \in [0 .. 0 -> Seq(Digit)] /\ z[0] = e
    BY <2>1
  <2> HIDE DEF z
  <2>3. Goes(0, z)
    BY <2>0, <2>2 DEF DigitsStep
  <2> HIDE DEF Goes
  <2> QED BY <2>2, <2>3
<1>2. ASSUME NEW k \in 1 .. n, k - 1 \in G PROVE k \in G
  <2>1. PICK h \in [0 .. k - 1 -> Seq(Digit)] : Goes(k - 1, h)
    BY <1>2
  <2>2. PICK new : new = DigitsStep(h, k)
    OBVIOUS
  <2>3. new \in Seq(Digit)
    <3>1. CASE k < 10
      <4>1. k \in 0 .. 9
        BY <3>1
      <4>2. Digits[k + 1] \in Digit
        BY <4>1, DigitIs
      <4> QED BY <2>2, <3>1, <4>2 DEF DigitsStep
    <3>2. CASE ~(k < 10)
      <4>1. k \in Nat /\ k >= 10
        BY <3>2
      <4>2. k \div 10 \in 0 .. k - 1 /\ k % 10 \in 0 .. 9
        BY <4>1, LastDigit
      <4>3. h[k \div 10] \in Seq(Digit) /\ Digits[(k % 10) + 1] \in Digit
        BY <4>2, DigitIs
      <4> QED BY <2>2, <3>2, <4>3 DEF DigitsStep
    <3> QED BY <3>1, <3>2
  <2> DEFINE g == [i \in 0 .. k |-> IF i = k THEN new ELSE h[i]]
  <2>4. ASSUME NEW i \in 0 .. k PROVE g[i] \in Seq(Digit) /\ (i # k => g[i] = h[i])
    <3>1. CASE i = k
      BY <2>3, <3>1
    <3>2. CASE i # k
      <4>1. i \in 0 .. k - 1
        BY <3>2
      <4> QED BY <3>2, <4>1
    <3> QED BY <3>1, <3>2
  <2>5. g[k] = new
    OBVIOUS
  <2>6. g \in [0 .. k -> Seq(Digit)]
    <3>1. g = [i \in 0 .. k |-> g[i]]
      OBVIOUS
    <3> HIDE DEF g
    <3> QED BY <2>4, <3>1
  <2>7. ASSUME NEW m \in 0 .. k PROVE g[m] = DigitsStep(g, m)
    <3> HIDE DEF g
    <3>1. DigitsStep(g, m) = DigitsStep(h, m)
      <4>1. CASE m < 10
        BY <4>1 DEF DigitsStep
      <4>2. CASE ~(m < 10)
        <5>1. m \in Nat /\ m >= 10
          BY <4>2
        <5>2. m \div 10 \in 0 .. k /\ m \div 10 # k
          BY <5>1, LastDigit
        <5>3. g[m \div 10] = h[m \div 10]
          BY <2>4, <5>2
        <5> QED BY <5>3 DEF DigitsStep
      <4> QED BY <4>1, <4>2
    <3>2. CASE m = k
      BY <2>2, <2>5, <3>1, <3>2
    <3>3. CASE m # k
      <4>1. m \in 0 .. k - 1
        BY <3>3
      <4>2. h[m] = DigitsStep(h, m) /\ g[m] = h[m]
        BY <2>1, <2>4, <3>3, <4>1
      <4> QED BY <3>1, <4>2
    <3> QED BY <3>2, <3>3
  <2>8. Goes(k, g)
    <3> HIDE DEF g
    <3> QED BY <2>7
  <2> HIDE DEF g, Goes
  <2> QED BY <2>6, <2>8
<1>3. n \in G
  <2> HIDE DEF G
  <2>1. \A k \in 1 .. n : k - 1 \in G => k \in G
    BY <1>2
  <2>2. \A k \in 0 .. n : k \in G
    BY <1>1, <2>1, Induction
  <2> QED BY <2>2
<1> QED BY <1>3

\* std::to_string writes digits, at least one, and their value is the number
LEMMA DigitsOfIs ==
    ASSUME NEW n \in Nat
    PROVE  DigitsOf(n) \in Seq(Digit) /\ DigitsOf(n) # <<>> /\ Value(DigitsOf(n)) = n
<1> DEFINE Body(g) == [m \in 0 .. n |->
                          IF m < 10 THEN <<Digits[m + 1]>>
                          ELSE Append(g[m \div 10], Digits[(m % 10) + 1])]
<1>1. PICK h \in [0 .. n -> Seq(Digit)] : \A m \in 0 .. n : h[m] = DigitsStep(h, m)
  BY DigitsExist
<1>2. h = Body(h)
  <2>1. \A m \in 0 .. n : h[m] = Body(h)[m]
    BY <1>1 DEF DigitsStep
  <2>2. Body(h) = [i \in 0 .. n |-> Body(h)[i]] /\ h = [i \in 0 .. n |-> h[i]]
    OBVIOUS
  <2> HIDE DEF Body
  <2> QED BY <2>1, <2>2
<1>3. PICK f : f = Body(f) /\ DigitsOf(n) = f[n]
  <2> DEFINE v == CHOOSE g : g = Body(g)
  <2>1. DigitsOf(n) = v[n]
    BY DEF DigitsOf
  <2>2. v = Body(v)
    <3> HIDE DEF Body
    <3> QED BY <1>2
  <2> HIDE DEF v, Body
  <2> QED BY <2>1, <2>2
<1>4. \A m \in 0 .. n : f[m] = DigitsStep(f, m)
  BY <1>3 DEF DigitsStep
<1> DEFINE Right(m) == f[m] \in Seq(Digit) /\ f[m] # <<>> /\ Value(f[m]) = m
           G == {k \in 0 .. n : \A m \in 0 .. k : Right(m)}
<1>5. ASSUME NEW m \in 0 .. n, \A j \in 0 .. m - 1 : Right(j) PROVE Right(m)
  <2> HIDE DEF Body
  <2>1. CASE m < 10
    <3>1. f[m] = <<Digits[m + 1]>>
      BY <1>4, <2>1 DEF DigitsStep
    <3>2. m \in 0 .. 9
      BY <2>1
    <3>3. Digits[m + 1] \in Digit /\ DigitValue(Digits[m + 1]) = m
      BY <3>2, DigitIs
    <3>4. f[m] = Append(<<>>, Digits[m + 1]) /\ <<>> \in Seq(Digit)
      BY <3>1
    <3>5. Value(Append(<<>>, Digits[m + 1])) = 10 * 0 + m
      BY <3>3, <3>4, ValueIs
    <3>6. Value(f[m]) = m
      BY <3>4, <3>5
    <3>7. f[m] \in Seq(Digit) /\ f[m] # <<>>
      BY <3>1, <3>3
    <3> QED BY <3>6, <3>7
  <2>2. CASE ~(m < 10)
    <3>1. m \in Nat /\ m >= 10
      BY <2>2
    <3>2. m \div 10 \in 0 .. m - 1 /\ m % 10 \in 0 .. 9 /\ m = 10 * (m \div 10) + (m % 10)
      BY <3>1, LastDigit
    <3>3. PICK d : d = Digits[(m % 10) + 1]
      OBVIOUS
    <3>4. d \in Digit /\ DigitValue(d) = m % 10
      BY <3>2, <3>3, DigitIs
    <3>5. PICK t : t = f[m \div 10]
      OBVIOUS
    <3>6. t \in Seq(Digit) /\ Value(t) = m \div 10
      BY <1>5, <3>2, <3>5
    <3>7. f[m] = Append(t, d)
      BY <1>4, <2>2, <3>3, <3>5 DEF DigitsStep
    <3>8. Value(Append(t, d)) = 10 * Value(t) + DigitValue(d)
      BY <3>4, <3>6, ValueIs
    <3>9. Value(f[m]) = m
      BY <3>2, <3>4, <3>6, <3>7, <3>8
    <3>10. Append(t, d) \in Seq(Digit) /\ Append(t, d) # <<>>
      <4>1. t \in Seq(Digit) /\ d \in Digit
        BY <3>4, <3>6
      <4> HIDE <3>4, <3>6
      <4> QED BY <4>1, AppendOne
    <3>11. f[m] \in Seq(Digit) /\ f[m] # <<>>
      BY <3>7, <3>10
    <3> QED BY <3>9, <3>11
  <2> QED BY <2>1, <2>2
<1> HIDE DEF Right, Body
<1>6. 0 \in G
  <2>1. 0 \in 0 .. n /\ \A j \in 0 .. 0 - 1 : Right(j)
    OBVIOUS
  <2>2. Right(0)
    BY <1>5, <2>1
  <2> QED BY <2>2
<1>7. ASSUME NEW k \in 1 .. n, k - 1 \in G PROVE k \in G
  <2>1. \A j \in 0 .. k - 1 : Right(j)
    BY <1>7
  <2>2. k \in 0 .. n
    OBVIOUS
  <2>3. Right(k)
    BY <1>5, <2>1, <2>2
  <2>4. \A m \in 0 .. k : Right(m)
    BY <2>1, <2>3
  <2> QED BY <2>4
<1>8. n \in G
  <2> HIDE DEF G
  <2>1. \A k \in 1 .. n : k - 1 \in G => k \in G
    BY <1>7
  <2>2. \A k \in 0 .. n : k \in G
    BY <1>6, <2>1, Induction
  <2> QED BY <2>2
<1>9. Right(n)
  BY <1>8
<1> QED BY <1>3, <1>9 DEF Right

\* The prefix ends where the first other character is
LEMMA PrefixIs ==
    ASSUME NEW T, NEW s \in Seq(T), NEW set, NEW n \in 0 .. Len(s),
           \A i \in 1 .. n : s[i] \in set, n = Len(s) \/ s[n + 1] \notin set
    PROVE  Prefix(s, set) = SubSeq(s, 1, n)
<1> DEFINE P(k) == /\ \A i \in 1 .. k : s[i] \in set
                   /\ k = Len(s) \/ s[k + 1] \notin set
           c == CHOOSE k \in 0 .. Len(s) : P(k)
<1>1. P(n)
  OBVIOUS
<1>2. ASSUME NEW k \in 0 .. Len(s), P(k) PROVE k = n
  <2>1. CASE k < n
    <3>1. k + 1 \in 1 .. n /\ k # Len(s)
      BY <2>1
    <3> QED BY <1>2, <3>1
  <2>2. CASE n < k
    <3>1. n + 1 \in 1 .. k /\ n # Len(s)
      BY <2>2
    <3> QED BY <1>2, <3>1
  <2> QED BY <2>1, <2>2
<1>3. c = n
  <2> HIDE DEF P
  <2> QED BY <1>1, <1>2
<1>4. Prefix(s, set) = SubSeq(s, 1, c)
  BY DEF Prefix
<1> QED BY <1>3, <1>4

\* A text that begins with no blank is read from its first character
LEMMA NoBlanks ==
    ASSUME NEW T, NEW s \in Seq(T), s = <<>> \/ s[1] # Space
    PROVE  Without(s, Len(Prefix(s, {Space}))) = s
<1>1. 0 \in 0 .. Len(s) /\ (0 = Len(s) \/ s[0 + 1] \notin {Space})
      /\ \A i \in 1 .. 0 : s[i] \in {Space}
  BY EmptySeq
<1>2. Prefix(s, {Space}) = SubSeq(s, 1, 0)
  BY <1>1, PrefixIs
<1>3. SubSeq(s, 1, 0) = <<>> /\ Len(SubSeq(s, 1, 0)) = 0
  OBVIOUS
<1>4. Len(Prefix(s, {Space})) = 0
  BY <1>2, <1>3
<1>5. SubSeq(s, 1, Len(s)) = s
  BY SubSeqFull
<1>6. Without(s, 0) = SubSeq(s, 0 + 1, Len(s))
  BY DEF Without
<1> QED BY <1>4, <1>5, <1>6

\* A text of digits is a number
LEMMA NumberOfDigits ==
    ASSUME NEW ds \in Seq(Digit), ds # <<>>
    PROVE  /\ Prefix(Unsigned(ds), Digit) = ds
           /\ Number(ds) = Value(ds)
<1>1. Len(ds) \in Nat /\ 1 \in 1 .. Len(ds) /\ ds[1] \in Digit
  BY EmptySeq
<1>2. ds[1] # Space /\ ds[1] # Minus /\ ds[1] # "+"
  BY <1>1, DigitsAre
<1>3. Without(ds, Len(Prefix(ds, {Space}))) = ds
  BY <1>2, NoBlanks
<1>4. Unsigned(ds) = ds
  <2>1. ds[1] \notin {Minus, "+"}
    BY <1>2, Zenon
  <2> QED BY <1>3, <2>1, Zenon DEF Unsigned
<1>5. ~Negative(ds)
  <2>2. ~IsPrefix(<<Minus>>, ds)
    BY <1>1, <1>2 DEF IsPrefix
  <2> QED BY <1>3, <2>2 DEF Negative
<1>6. Prefix(ds, Digit) = ds
  <2>1. \A i \in 1 .. Len(ds) : ds[i] \in Digit
    OBVIOUS
  <2>2. Len(ds) \in 0 .. Len(ds)
    BY <1>1
  <2>3. Prefix(ds, Digit) = SubSeq(ds, 1, Len(ds))
    BY <2>1, <2>2, PrefixIs
  <2> QED BY <2>3, SubSeqFull
<1> QED BY <1>4, <1>5, <1>6, Zenon DEF Number

\* With a minus before it, it is the negative number
LEMMA NumberOfNegative ==
    ASSUME NEW ds \in Seq(Digit), ds # <<>>
    PROVE  /\ Prefix(Unsigned(<<Minus>> \o ds), Digit) = ds
           /\ Number(<<Minus>> \o ds) = -Value(ds)
<1> DEFINE T == Digit \cup {Minus}
<1>1. PICK s : s = <<Minus>> \o ds
  OBVIOUS
<1>2. Len(ds) \in Nat /\ 1 \in 1 .. Len(ds) /\ \A i \in 1 .. Len(ds) : ds[i] \in Digit
  BY EmptySeq
<1>3. <<Minus>> \in Seq(T) /\ ds \in Seq(T)
  <2>1. \A i \in 1 .. Len(ds) : ds[i] \in T
    BY <1>2
  <2> QED BY <2>1
<1> HIDE DEF T
<1>4. s \in Seq(T) /\ s # <<>> /\ s[1] = Minus /\ Tail(s) = ds /\ Len(s) >= 1
  <2>1. s \in Seq(T) /\ s[1] = Minus /\ Len(s) = Len(ds) + 1
    BY <1>1, <1>3
  <2>2. s # <<>>
    BY <1>2, <2>1, EmptySeq
  <2>3. Tail(s) = ds
    BY <1>1, <1>3, ConcatSimplifications
  <2> QED BY <1>2, <2>1, <2>2, <2>3
<1>5. Without(s, Len(Prefix(s, {Space}))) = s
  <2>1. s[1] # Space
    BY <1>4, DigitsAre
  <2> QED BY <1>4, <2>1, NoBlanks
<1>6. Unsigned(s) = ds
  BY <1>4, <1>5, Zenon DEF Unsigned
<1>7. Negative(s)
  <2>1. Minus \in T
    BY DEF T
  <2>3. IsPrefix(<<Minus>>, s)
    BY <1>4, <2>1, BeginsWith
  <2> QED BY <1>5, <2>3 DEF Negative
<1>8. Prefix(ds, Digit) = ds
  <2>2. Len(ds) \in 0 .. Len(ds)
    BY <1>2
  <2>3. Prefix(ds, Digit) = SubSeq(ds, 1, Len(ds))
    BY <1>2, <2>2, PrefixIs
  <2> QED BY <2>3, SubSeqFull
<1>9. Number(s) = -Value(ds)
  BY <1>6, <1>7, <1>8, Zenon DEF Number
<1> QED BY <1>1, <1>6, <1>8, <1>9

\* std::to_string and std::stoi: a number that is written is read again
LEMMA TextIs ==
    ASSUME NEW n \in Int
    PROVE  /\ Text(n) \in Seq(Digit \cup {Minus}) /\ Text(n) # <<>>
           /\ Number(Text(n)) = n
           /\ n \in Int32 => IsInt(Text(n))
<1> DEFINE T == Digit \cup {Minus}
<1>1. CASE n < 0
  <2>1. PICK ds : ds = DigitsOf(-n)
    OBVIOUS
  <2>2. -n \in Nat
    BY <1>1
  <2>3. ds \in Seq(Digit) /\ ds # <<>> /\ Value(ds) = -n
    BY <2>1, <2>2, DigitsOfIs
  <2>4. Text(n) = <<Minus>> \o ds
    BY <1>1, <2>1 DEF Text
  <2>5. Prefix(Unsigned(Text(n)), Digit) = ds /\ Number(Text(n)) = -Value(ds)
    BY <2>3, <2>4, NumberOfNegative
  <2>6. Number(Text(n)) = n
    BY <2>3, <2>5
  <2>7. Text(n) \in Seq(T) /\ Text(n) # <<>>
    <3>1. \A i \in 1 .. Len(ds) : ds[i] \in T
      BY <2>3
    <3>2. <<Minus>> \in Seq(T) /\ ds \in Seq(T) /\ <<Minus>> # <<>>
      BY <2>3, <3>1
    <3> HIDE DEF T
    <3> QED BY <2>4, <3>2, ConcatProperties, ConcatEqualIffEmpty
  <2>8. Prefix(Unsigned(Text(n)), Digit) # <<>>
    BY <2>3, <2>5
  <2> QED BY <2>6, <2>7, <2>8 DEF IsInt
<1>2. CASE ~(n < 0)
  <2>1. PICK ds : ds = DigitsOf(n)
    OBVIOUS
  <2>2. n \in Nat
    BY <1>2
  <2>3. ds \in Seq(Digit) /\ ds # <<>> /\ Value(ds) = n
    BY <2>1, <2>2, DigitsOfIs
  <2>4. Text(n) = ds
    BY <1>2, <2>1 DEF Text
  <2>5. Prefix(Unsigned(Text(n)), Digit) = ds /\ Number(Text(n)) = Value(ds)
    BY <2>3, <2>4, NumberOfDigits
  <2>6. Number(Text(n)) = n
    BY <2>3, <2>5
  <2>7. Text(n) \in Seq(T)
    <3>1. \A i \in 1 .. Len(ds) : ds[i] \in T
      BY <2>3
    <3> QED BY <2>3, <2>4, <3>1
  <2>8. Prefix(Unsigned(Text(n)), Digit) # <<>>
    BY <2>3, <2>5
  <2> QED BY <2>3, <2>4, <2>6, <2>7, <2>8 DEF IsInt
<1> QED BY <1>1, <1>2

\* A text of std::to_string is made of characters other than the blank
LEMMA TextHasNoBlank ==
    ASSUME NEW n \in Int
    PROVE  Text(n) \in Seq(Char \ {Space}) /\ Text(n) # <<>>
<1>1. Text(n) \in Seq(Digit \cup {Minus}) /\ Text(n) # <<>>
  BY TextIs
<1>2. Digit \cup {Minus} \subseteq Char \ {Space}
  BY DigitsAre, Zenon
<1> QED BY <1>1, <1>2, SeqMonotonic

\* What OP_IS_NUM accepts begins with digits for std::stoi, and the digits are
\* all of it
LEMMA IsNumReads ==
    ASSUME NEW s \in Seq(Char), IsNum(s)
    PROVE  Prefix(Unsigned(s), Digit) # <<>>
<1>1. CASE IsPrefix(<<Minus>>, s)
  <2>1. PICK ds : ds = Tail(s)
    OBVIOUS
  <2>2. ds # <<>> /\ ToSet(ds) \subseteq Digit
    BY <1>1, <2>1 DEF IsNum
  <2>3. Len(s) >= 1 /\ s[1] = Minus
    <3>1. s # <<>> /\ s[1] = Minus
      BY <1>1, DigitsAre, BeginsWith
    <3> QED BY <3>1, EmptySeq
  <2>4. ds \in Seq(Char) /\ s = <<Minus>> \o ds
    <3>1. s # <<>>
      BY <2>3
    <3> QED BY <2>1, <2>3, <3>1
  <2>5. ds \in Seq(Digit)
    <3>1. \A i \in 1 .. Len(ds) : ds[i] \in Digit
      BY <2>2, <2>4 DEF ToSet
    <3> QED BY <2>4, <3>1
  <2>6. Prefix(Unsigned(<<Minus>> \o ds), Digit) = ds
    BY <2>2, <2>5, NumberOfNegative
  <2> QED BY <2>2, <2>4, <2>6
<1>2. CASE ~IsPrefix(<<Minus>>, s)
  <2>1. s # <<>> /\ ToSet(s) \subseteq Digit
    BY <1>2 DEF IsNum
  <2>2. s \in Seq(Digit)
    <3>1. \A i \in 1 .. Len(s) : s[i] \in Digit
      BY <2>1 DEF ToSet
    <3> QED BY <3>1
  <2> QED BY <2>1, <2>2, NumberOfDigits
<1> QED BY <1>1, <1>2

-----------------------------------------------------------------------------
(* Joining texts *)

\* The texts that are not empty, one text after the other
LEMMA NonEmptyAppend ==
    ASSUME NEW S, NEW ts \in Seq(Seq(S)), NEW t \in Seq(S)
    PROVE  /\ NonEmpty(<<>>) = <<>> /\ NonEmpty(ts) \in Seq(Seq(S))
           /\ NonEmpty(Append(ts, t)) = NonEmpty(ts) \o (IF t = <<>> THEN <<>> ELSE <<t>>)
<1> DEFINE One(u) == IF u = <<>> THEN <<>> ELSE <<u>>
           Each(all) == [i \in DOMAIN all |-> One(all[i])]
<1>1. \A u \in Seq(S) : One(u) \in Seq(Seq(S))
  OBVIOUS
<1>2. NonEmpty(<<>>) = <<>>
  <2>1. DOMAIN <<>> = {}
    OBVIOUS
  <2>2. Each(<<>>) = <<>>
    BY <2>1
  <2> QED BY <2>2, FlattenEmpty DEF NonEmpty
<1>3. PICK all : all = Append(ts, t)
  OBVIOUS
<1>4. all \in Seq(Seq(S)) /\ Len(all) = Len(ts) + 1 /\ all[Len(ts) + 1] = t /\ Len(ts) \in Nat
      /\ \A i \in 1 .. Len(ts) : all[i] = ts[i]
  BY <1>3, AppendOne
<1>5. DOMAIN all = 1 .. Len(ts) + 1 /\ DOMAIN ts = 1 .. Len(ts)
  BY <1>4
<1> HIDE DEF One
<1>6. Each(ts) \in Seq(Seq(Seq(S))) /\ Len(Each(ts)) = Len(ts)
      /\ \A i \in 1 .. Len(ts) : Each(ts)[i] = One(ts[i])
  <2>1. \A i \in 1 .. Len(ts) : ts[i] \in Seq(S)
    OBVIOUS
  <2>2. \A i \in 1 .. Len(ts) : One(ts[i]) \in Seq(Seq(S))
    BY <1>1, <2>1
  <2> QED BY <1>4, <1>5, <2>2
<1>7. Each(all) \in Seq(Seq(Seq(S))) /\ Len(Each(all)) = Len(ts) + 1
      /\ \A i \in 1 .. Len(ts) + 1 : Each(all)[i] = One(all[i])
  <2>1. \A i \in 1 .. Len(ts) + 1 : all[i] \in Seq(S)
    BY <1>4
  <2>2. \A i \in 1 .. Len(ts) + 1 : One(all[i]) \in Seq(Seq(S))
    BY <1>1, <2>1
  <2> QED BY <1>4, <1>5, <2>2
<1> HIDE DEF Each
<1>8. Each(all) = Append(Each(ts), One(t))
  <2>1. PICK x : x = Append(Each(ts), One(t))
    OBVIOUS
  <2>2. x \in Seq(Seq(Seq(S))) /\ Len(x) = Len(ts) + 1 /\ x[Len(ts) + 1] = One(t)
        /\ \A i \in 1 .. Len(ts) : x[i] = Each(ts)[i]
    BY <1>1, <1>6, <2>1, AppendOne
  <2>3. ASSUME NEW i \in 1 .. Len(ts) + 1 PROVE x[i] = Each(all)[i]
    <3>1. Each(all)[i] = One(all[i])
      BY <1>7
    <3>2. CASE i = Len(ts) + 1
      BY <1>4, <2>2, <3>1, <3>2
    <3>3. CASE i # Len(ts) + 1
      <4>1. i \in 1 .. Len(ts)
        BY <1>4, <3>3
      <4>2. x[i] = One(ts[i]) /\ all[i] = ts[i]
        BY <1>4, <1>6, <2>2, <4>1
      <4> QED BY <3>1, <4>2
    <3> QED BY <3>2, <3>3
  <2>4. x = Each(all)
    BY <1>7, <2>2, <2>3, SeqEqual
  <2> QED BY <2>1, <2>4
<1>9. FlattenSeq(Each(ts)) \in Seq(Seq(S))
      /\ FlattenSeq(Append(Each(ts), One(t))) = FlattenSeq(Each(ts)) \o One(t)
  <2>1. One(t) \in Seq(Seq(S))
    BY <1>1
  <2> QED BY <1>6, <2>1, FlattenAppend
<1>10. NonEmpty(ts) = FlattenSeq(Each(ts)) /\ NonEmpty(all) = FlattenSeq(Each(all))
  BY DEF NonEmpty, Each, One
<1> QED BY <1>2, <1>3, <1>8, <1>9, <1>10 DEF One

\* Joining one text more, with a separator before it unless it is the first
LEMMA JoinedStep ==
    ASSUME NEW S, NEW ts \in Seq(Seq(S)), NEW t \in Seq(S), NEW c \in Seq(S)
    PROVE  /\ JoinedWith(<<>>, c) = <<>> /\ JoinedWith(ts, c) \in Seq(S)
           /\ JoinedWith(Append(ts, t), c) =
                 IF ts = <<>> THEN t ELSE JoinedWith(ts, c) \o (c \o t)
<1> DEFINE One(u, i) == IF i = 1 THEN u ELSE c \o u
           Each(all) == [i \in DOMAIN all |-> One(all[i], i)]
<1>1. \A u \in Seq(S), i \in Nat : One(u, i) \in Seq(S)
  OBVIOUS
<1>2. JoinedWith(<<>>, c) = <<>>
  <2>1. DOMAIN <<>> = {}
    OBVIOUS
  <2>2. Each(<<>>) = <<>>
    BY <2>1
  <2> QED BY <2>2, FlattenEmpty DEF JoinedWith
<1>3. PICK all : all = Append(ts, t)
  OBVIOUS
<1>4. all \in Seq(Seq(S)) /\ Len(all) = Len(ts) + 1 /\ all[Len(ts) + 1] = t /\ Len(ts) \in Nat
      /\ \A i \in 1 .. Len(ts) : all[i] = ts[i]
  BY <1>3, AppendOne
<1>5. DOMAIN all = 1 .. Len(ts) + 1 /\ DOMAIN ts = 1 .. Len(ts)
  BY <1>4
<1>0. One(t, Len(ts) + 1) = IF ts = <<>> THEN t ELSE c \o t
  <2>1. Len(ts) + 1 = 1 <=> ts = <<>>
    BY EmptySeq
  <2> QED BY <2>1
<1> HIDE DEF One
<1>6. Each(ts) \in Seq(Seq(S)) /\ Len(Each(ts)) = Len(ts)
      /\ \A i \in 1 .. Len(ts) : Each(ts)[i] = One(ts[i], i)
  <2>1. \A i \in 1 .. Len(ts) : ts[i] \in Seq(S) /\ i \in Nat
    OBVIOUS
  <2>2. \A i \in 1 .. Len(ts) : One(ts[i], i) \in Seq(S)
    BY <1>1, <2>1
  <2> QED BY <1>4, <1>5, <2>2
<1>7. Each(all) \in Seq(Seq(S)) /\ Len(Each(all)) = Len(ts) + 1
      /\ \A i \in 1 .. Len(ts) + 1 : Each(all)[i] = One(all[i], i)
  <2>1. \A i \in 1 .. Len(ts) + 1 : all[i] \in Seq(S) /\ i \in Nat
    BY <1>4
  <2>2. \A i \in 1 .. Len(ts) + 1 : One(all[i], i) \in Seq(S)
    BY <1>1, <2>1
  <2> QED BY <1>4, <1>5, <2>2
<1> HIDE DEF Each
<1>8. PICK o : o = One(t, Len(ts) + 1)
  OBVIOUS
<1>9. o \in Seq(S)
  <2>1. Len(ts) + 1 \in Nat
    BY <1>4
  <2> QED BY <1>1, <1>8, <2>1
<1>10. Each(all) = Append(Each(ts), o)
  <2>1. PICK x : x = Append(Each(ts), o)
    OBVIOUS
  <2>2. x \in Seq(Seq(S)) /\ Len(x) = Len(ts) + 1 /\ x[Len(ts) + 1] = o
        /\ \A i \in 1 .. Len(ts) : x[i] = Each(ts)[i]
    BY <1>6, <1>9, <2>1, AppendOne
  <2>3. ASSUME NEW i \in 1 .. Len(ts) + 1 PROVE x[i] = Each(all)[i]
    <3>1. Each(all)[i] = One(all[i], i)
      BY <1>7
    <3>2. CASE i = Len(ts) + 1
      BY <1>4, <1>8, <2>2, <3>1, <3>2
    <3>3. CASE i # Len(ts) + 1
      <4>1. i \in 1 .. Len(ts)
        BY <1>4, <3>3
      <4>2. x[i] = One(ts[i], i) /\ all[i] = ts[i]
        BY <1>4, <1>6, <2>2, <4>1
      <4> QED BY <3>1, <4>2
    <3> QED BY <3>2, <3>3
  <2>4. x = Each(all)
    BY <1>7, <2>2, <2>3, SeqEqual
  <2> QED BY <2>1, <2>4
<1>11. FlattenSeq(Each(ts)) \in Seq(S)
       /\ FlattenSeq(Append(Each(ts), o)) = FlattenSeq(Each(ts)) \o o
  BY <1>6, <1>9, FlattenAppend
<1>12. JoinedWith(ts, c) = FlattenSeq(Each(ts)) /\ JoinedWith(all, c) = FlattenSeq(Each(all))
  BY DEF JoinedWith, Each, One
<1>13. JoinedWith(all, c) = JoinedWith(ts, c) \o o
  BY <1>10, <1>11, <1>12
<1>14. CASE ts = <<>>
  <2>1. o = t /\ JoinedWith(ts, c) = <<>>
    BY <1>0, <1>2, <1>8, <1>14
  <2>2. JoinedWith(all, c) = t
    BY <1>13, <2>1, ConcatEmptySeq
  <2> QED BY <1>2, <1>3, <1>11, <1>12, <1>14, <2>2
<1>15. CASE ts # <<>>
  <2>1. o = c \o t
    BY <1>0, <1>8, <1>15
  <2> QED BY <1>2, <1>3, <1>11, <1>12, <1>13, <1>15, <2>1
<1> QED BY <1>14, <1>15

\* What is joined is a text
LEMMA JoinedType ==
    ASSUME NEW S, NEW ts \in Seq(Seq(S)), NEW c \in Seq(S)
    PROVE  JoinedWith(ts, c) \in Seq(S) /\ JoinedWith(<<>>, c) = <<>>
BY JoinedStep

\* Concatenation by its name alone, for steps in which it is enough that it is
\* associative
Cat(s, t) == s \o t

\* It is, and the empty text is its neutral element
LEMMA CatFacts ==
    ASSUME NEW S
    PROVE  /\ \A s, t \in Seq(S) : Cat(s, t) \in Seq(S)
           /\ \A s, t, u \in Seq(S) : Cat(Cat(s, t), u) = Cat(s, Cat(t, u))
           /\ \A s \in Seq(S) : Cat(s, <<>>) = s /\ Cat(<<>>, s) = s
<1>1. \A s, t \in Seq(S) : Cat(s, t) \in Seq(S)
  BY ConcatProperties DEF Cat
<1>2. \A s, t, u \in Seq(S) : Cat(Cat(s, t), u) = Cat(s, Cat(t, u))
  BY ConcatAssociative DEF Cat
<1>3. \A s \in Seq(S) : Cat(s, <<>>) = s /\ Cat(<<>>, s) = s
  BY ConcatEmptySeq DEF Cat
<1> QED BY <1>1, <1>2, <1>3

\* The step by itself
LEMMA JoinedAppend ==
    ASSUME NEW S, NEW ts \in Seq(Seq(S)), NEW t \in Seq(S), NEW c \in Seq(S)
    PROVE  JoinedWith(Append(ts, t), c) =
              IF ts = <<>> THEN t ELSE Cat(JoinedWith(ts, c), Cat(c, t))
<1>1. ts \in Seq(Seq(S)) /\ t \in Seq(S) /\ c \in Seq(S)
  OBVIOUS
<1>2. JoinedWith(Append(ts, t), c) =
         IF ts = <<>> THEN t ELSE JoinedWith(ts, c) \o (c \o t)
  BY <1>1, JoinedStep, SMTT(30)
<1> QED BY <1>2, Zenon DEF Cat

\* Joining seen from the first text
LEMMA JoinedHead ==
    ASSUME NEW S, NEW t \in Seq(S), NEW c \in Seq(S)
    PROVE  \A ts \in Seq(Seq(S)) :
              JoinedWith(<<t>> \o ts, c) =
                IF ts = <<>> THEN t ELSE Cat(t, Cat(c, JoinedWith(ts, c)))
<1> DEFINE G == {us \in Seq(Seq(S)) :
                   JoinedWith(<<t>> \o us, c) =
                     IF us = <<>> THEN t ELSE Cat(t, Cat(c, JoinedWith(us, c)))}
<1>1. <<>> \in G
  <2>1. JoinedWith(Append(<<>>, t), c) = t
    <3>1. <<>> \in Seq(Seq(S))
      OBVIOUS
    <3> QED BY <3>1, JoinedAppend
  <2>2. Append(<<>>, t) = <<t>> \o <<>>
    OBVIOUS
  <2>3. <<>> \in Seq(Seq(S))
    OBVIOUS
  <2> QED BY <2>1, <2>2, <2>3
<1>2. ASSUME NEW us \in Seq(Seq(S)), NEW u \in Seq(S), us \in G PROVE Append(us, u) \in G
  <2>1. <<t>> \o Append(us, u) = Append(<<t>> \o us, u)
    OBVIOUS
  <2>2. PICK all : all = <<t>> \o us
    OBVIOUS
  <2>3. all \in Seq(Seq(S)) /\ all # <<>>
    <3>1. <<t>> \in Seq(Seq(S)) /\ <<t>> # <<>>
      OBVIOUS
    <3> QED BY <2>2, <3>1, ConcatProperties, ConcatEqualIffEmpty
  <2>4. JoinedWith(Append(all, u), c) = Cat(JoinedWith(all, c), Cat(c, u))
    BY <2>3, JoinedAppend
  <2>5. Append(us, u) \in Seq(Seq(S)) /\ Append(us, u) # <<>>
    BY AppendOne
  <2>6. PICK j \in Seq(S) : j = JoinedWith(us, c)
    BY JoinedType
  <2>7. JoinedWith(Append(us, u), c) = IF us = <<>> THEN u ELSE Cat(j, Cat(c, u))
    <3>1. JoinedWith(Append(us, u), c) =
             IF us = <<>> THEN u ELSE Cat(JoinedWith(us, c), Cat(c, u))
      BY JoinedAppend
    <3> QED BY <2>6, <3>1, Zenon
  <2>8. JoinedWith(all, c) = IF us = <<>> THEN t ELSE Cat(t, Cat(c, j))
    BY <1>2, <2>2, <2>6
  <2>9. Cat(Cat(t, Cat(c, j)), Cat(c, u)) = Cat(t, Cat(c, Cat(j, Cat(c, u))))
    <3>1. j \in Seq(S) /\ Cat(c, j) \in Seq(S) /\ Cat(c, u) \in Seq(S)
      BY <2>6, CatFacts
    <3> QED BY <3>1, CatFacts
  <2>10. JoinedWith(Append(all, u), c) = Cat(t, Cat(c, JoinedWith(Append(us, u), c)))
    BY <2>4, <2>7, <2>8, <2>9
  <2> QED BY <2>1, <2>2, <2>5, <2>10
<1>3. \A us \in Seq(Seq(S)) : us \in G
  <2> HIDE DEF G
  <2> QED BY <1>1, <1>2, SeqInduction
<1> QED BY <1>3

-----------------------------------------------------------------------------
(* Columns *)

\* The characters of a column, and the sequences of columns
Plain(c) == Seq(Char \ ToSet(c))

Lists(c) == Seq(Plain(c)) \ {<<>>}

\* One character more goes into the last column or begins the next one
LEMMA WithCharacterType ==
    ASSUME NEW c, NEW cols \in Lists(c), NEW x \in Char
    PROVE  WithCharacter(cols, x, c) \in Lists(c)
<1>1. cols \in Seq(Plain(c)) /\ Len(cols) \in 1 .. Len(cols) /\ cols[Len(cols)] \in Plain(c)
  BY EmptySeq DEF Lists
<1>2. CASE x \in ToSet(c)
  <2>1. WithCharacter(cols, x, c) = Append(cols, <<>>)
    BY <1>2 DEF WithCharacter
  <2>2. <<>> \in Plain(c)
    BY DEF Plain
  <2> QED BY <1>1, <2>1, <2>2, AppendOne DEF Lists
<1>3. CASE x \notin ToSet(c)
  <2>1. PICK new : new = Append(cols[Len(cols)], x)
    OBVIOUS
  <2>2. new \in Plain(c)
    BY <1>1, <1>3, <2>1, AppendOne DEF Plain
  <2>3. WithCharacter(cols, x, c) = [cols EXCEPT ![Len(cols)] = new]
    BY <1>3, <2>1 DEF WithCharacter
  <2>4. [cols EXCEPT ![Len(cols)] = new] \in Seq(Plain(c))
        /\ Len([cols EXCEPT ![Len(cols)] = new]) = Len(cols)
    BY <1>1, <2>2, ExceptSeq
  <2>5. [cols EXCEPT ![Len(cols)] = new] # <<>>
    BY <1>1, <2>4
  <2> QED BY <2>3, <2>4, <2>5 DEF Lists
<1> QED BY <1>2, <1>3

\* Any function that reads a text in this way ends with its columns
LEMMA ColumnsBy ==
    ASSUME NEW a, NEW c, NEW h, Len(a) \in Nat,
           h = [i \in 0 .. Len(a) |-> h[i]], h[0] = << <<>> >>,
           \A i \in 1 .. Len(a) : h[i] = WithCharacter(h[i - 1], a[i], c)
    PROVE  Columns(a, c) = h[Len(a)]
<1> DEFINE N == Len(a)
           Body(g) == [i \in 0 .. N |->
                         IF i = 0 THEN << <<>> >> ELSE WithCharacter(g[i - 1], a[i], c)]
<1>1. h = Body(h)
  <2>1. ASSUME NEW i \in 0 .. N PROVE h[i] = Body(h)[i]
    <3>1. Body(h)[i] = IF i = 0 THEN << <<>> >> ELSE WithCharacter(h[i - 1], a[i], c)
      OBVIOUS
    <3>2. CASE i = 0
      BY <3>1, <3>2
    <3>3. CASE i # 0
      <4>1. i \in 1 .. N
        BY <3>3
      <4>2. h[i] = WithCharacter(h[i - 1], a[i], c)
        BY <4>1
      <4> HIDE DEF Body
      <4> QED BY <3>1, <3>3, <4>2
    <3> QED BY <3>2, <3>3
  <2>2. Body(h) = [i \in 0 .. N |-> Body(h)[i]]
    OBVIOUS
  <2> HIDE DEF Body
  <2> QED BY <2>1, <2>2
<1>2. PICK f : f = Body(f) /\ Columns(a, c) = f[N]
  <2> DEFINE v == CHOOSE g : g = Body(g)
  <2>1. Columns(a, c) = v[N]
    BY DEF Columns
  <2>2. v = Body(v)
    <3> HIDE DEF Body
    <3> QED BY <1>1
  <2> HIDE DEF v, Body
  <2> QED BY <2>1, <2>2
<1>4. \A i \in 0 .. N : f[i] = IF i = 0 THEN << <<>> >> ELSE WithCharacter(f[i - 1], a[i], c)
  BY <1>2
<1>5. f[0] = h[0]
  BY <1>4
<1>6. ASSUME NEW i \in 1 .. N, f[i - 1] = h[i - 1] PROVE f[i] = h[i]
  <2>1. i \in 0 .. N /\ i # 0
    OBVIOUS
  <2> QED BY <1>4, <1>6, <2>1
<1>7. \A i \in 1 .. N : f[i - 1] = h[i - 1] => f[i] = h[i]
  BY <1>6
<1>8. \A i \in 0 .. N : f[i] = h[i]
  <2> HIDE DEF Body, N
  <2>1. N \in Nat
    BY DEF N
  <2> DEFINE G == {i \in 0 .. N : f[i] = h[i]}
  <2>2. 0 \in G
    BY <1>5, <2>1
  <2>3. ASSUME NEW k \in 1 .. N, k - 1 \in G PROVE k \in G
    <3>1. f[k - 1] = h[k - 1]
      BY <2>3
    <3>2. f[k] = h[k]
      BY <1>7, <3>1
    <3>3. k \in 0 .. N
      BY <2>1
    <3> QED BY <3>2, <3>3
  <2> HIDE DEF G
  <2>4. \A k \in 0 .. N : k \in G
    BY <2>1, <2>2, <2>3, Induction
  <2> QED BY <2>4 DEF G
<1> QED BY <1>2, <1>8

\* There is such a function
LEMMA ColumnsExist ==
    ASSUME NEW a \in Seq(Char), NEW c
    PROVE  \E h \in [0 .. Len(a) -> Lists(c)] :
              /\ h[0] = << <<>> >>
              /\ \A i \in 1 .. Len(a) : h[i] = WithCharacter(h[i - 1], a[i], c)
<1> DEFINE N == Len(a)
           step == [i \in 1 .. N |-> [v \in Lists(c) |-> WithCharacter(v, a[i], c)]]
<1>1. step \in [1 .. N -> [Lists(c) -> Lists(c)]]
  <2>1. \A i \in 1 .. N : a[i] \in Char
    OBVIOUS
  <2>2. \A i \in 1 .. N, v \in Lists(c) : WithCharacter(v, a[i], c) \in Lists(c)
    BY <2>1, WithCharacterType
  <2> QED BY <2>2
<1>2. \A i \in 1 .. N, v \in Lists(c) : step[i][v] = WithCharacter(v, a[i], c)
  OBVIOUS
<1>3. PICK first : first = << <<>> >>
  OBVIOUS
<1>4. first \in Lists(c)
  <2>1. <<>> \in Plain(c)
    BY DEF Plain
  <2>2. << <<>> >> \in Seq(Plain(c)) /\ << <<>> >> # <<>>
    BY <2>1
  <2> QED BY <1>3, <2>2 DEF Lists
<1>0. N \in Nat
  OBVIOUS
<1> HIDE DEF step, N
<1>5. PICK h : Iterates(h, Lists(c), N, first, step)
  BY <1>0, <1>1, <1>4, IterateExists, Zenon
<1>6. \A i \in 1 .. N : i - 1 \in 0 .. N /\ h[i - 1] \in Lists(c)
  BY <1>0, <1>5 DEF Iterates
<1>7. \A i \in 1 .. N : h[i] = WithCharacter(h[i - 1], a[i], c)
  BY <1>2, <1>5, <1>6 DEF Iterates
<1>8. h \in [0 .. N -> Lists(c)] /\ h[0] = << <<>> >>
  BY <1>3, <1>5 DEF Iterates
<1> QED BY <1>7, <1>8 DEF N

\* The columns of a text, character by character
LEMMA ColumnsIs ==
    ASSUME NEW c, NEW a \in Seq(Char)
    PROVE  /\ Columns(<<>>, c) = << <<>> >>
           /\ Columns(a, c) \in Lists(c)
           /\ \A x \in Char : Columns(Append(a, x), c) = WithCharacter(Columns(a, c), x, c)
<1>1. Columns(<<>>, c) = << <<>> >>
  <2>1. PICK e : e = << <<>> >>
    OBVIOUS
  <2> DEFINE h == [i \in 0 .. 0 |-> e]
  <2>2. Len(<<>>) = 0 /\ h[0] = e /\ h = [i \in 0 .. 0 |-> h[i]]
    OBVIOUS
  <2> HIDE DEF h
  <2>4. PICK a0 : a0 = <<>>
    OBVIOUS
  <2>5. Len(a0) = 0 /\ h[0] = << <<>> >> /\ h = [i \in 0 .. Len(a0) |-> h[i]]
    BY <2>1, <2>2, <2>4
  <2>6. \A i \in 1 .. Len(a0) : h[i] = WithCharacter(h[i - 1], a0[i], c)
    BY <2>5
  <2>8. Len(a0) \in Nat
    BY <2>5
  <2>9. h[0] = << <<>> >> /\ h = [i \in 0 .. Len(a0) |-> h[i]]
    BY <2>5
  <2>7. Columns(a0, c) = h[Len(a0)]
    BY <2>6, <2>8, <2>9, ColumnsBy
  <2>3. Columns(<<>>, c) = h[Len(<<>>)]
    BY <2>4, <2>7
  <2> QED BY <2>1, <2>2, <2>3
<1>2. Columns(a, c) \in Lists(c)
  <2>1. PICK h \in [0 .. Len(a) -> Lists(c)] :
            /\ h[0] = << <<>> >>
            /\ \A i \in 1 .. Len(a) : h[i] = WithCharacter(h[i - 1], a[i], c)
    BY ColumnsExist
  <2>2. h = [i \in 0 .. Len(a) |-> h[i]] /\ Len(a) \in Nat /\ Len(a) \in 0 .. Len(a)
    OBVIOUS
  <2>3. Columns(a, c) = h[Len(a)]
    BY <2>1, <2>2, ColumnsBy
  <2> QED BY <2>2, <2>3
<1>3. ASSUME NEW x \in Char
      PROVE  Columns(Append(a, x), c) = WithCharacter(Columns(a, c), x, c)
  <2> DEFINE N == Len(a)
             all == Append(a, x)
  <2>1. all \in Seq(Char) /\ Len(all) = N + 1 /\ N \in Nat /\ all[N + 1] = x
        /\ \A i \in 1 .. N : all[i] = a[i]
    BY AppendOne
  <2> HIDE DEF all
  <2>2. PICK h \in [0 .. Len(all) -> Lists(c)] :
            /\ h[0] = << <<>> >>
            /\ \A i \in 1 .. Len(all) : h[i] = WithCharacter(h[i - 1], all[i], c)
    BY <2>1, ColumnsExist
  <2>3. Columns(all, c) = h[N + 1]
    <3>1. h = [i \in 0 .. Len(all) |-> h[i]] /\ Len(all) \in Nat
      BY <2>1
    <3>2. Columns(all, c) = h[Len(all)]
      BY <2>2, <3>1, ColumnsBy
    <3> QED BY <2>1, <3>2
  <2> DEFINE k == [i \in 0 .. N |-> h[i]]
  <2>4. /\ k = [i \in 0 .. N |-> k[i]] /\ k[0] = << <<>> >>
        /\ \A i \in 0 .. N : k[i] = h[i]
    BY <2>1, <2>2
  <2> HIDE DEF k
  <2>5. ASSUME NEW i \in 1 .. N PROVE k[i] = WithCharacter(k[i - 1], a[i], c)
    <3>1. i \in 1 .. Len(all) /\ i \in 0 .. N /\ i - 1 \in 0 .. N
      BY <2>1
    <3> QED BY <2>1, <2>2, <2>4, <3>1
  <2>6. Columns(a, c) = k[N]
    <3>1. k = [i \in 0 .. Len(a) |-> k[i]] /\ Len(a) \in Nat
      BY <2>1, <2>4
    <3>2. \A i \in 1 .. Len(a) : k[i] = WithCharacter(k[i - 1], a[i], c)
      BY <2>5
    <3> QED BY <2>4, <3>1, <3>2, ColumnsBy
  <2>7. N \in 0 .. N /\ N + 1 \in 1 .. Len(all) /\ (N + 1) - 1 = N
    BY <2>1
  <2>8. k[N] = h[N] /\ h[N + 1] = WithCharacter(h[N], all[N + 1], c)
    BY <2>2, <2>4, <2>7
  <2> QED BY <2>1, <2>3, <2>6, <2>8 DEF all
<1> QED BY <1>1, <1>2, <1>3

\* A text without a separator is one column
LEMMA ColumnsPlain ==
    ASSUME NEW c
    PROVE  \A a \in Plain(c) : a \in Seq(Char) /\ Columns(a, c) = <<a>>
<1> DEFINE G == {a \in Seq(Char) : Columns(a, c) = <<a>>}
<1>1. <<>> \in G
  <2>1. PICK none : none = <<>>
    OBVIOUS
  <2>2. none \in Seq(Char)
    BY <2>1
  <2>3. Columns(<<>>, c) = << <<>> >>
    BY <2>2, ColumnsIs
  <2>4. << <<>> >> = <<none>>
    BY <2>1
  <2> QED BY <2>1, <2>2, <2>3
<1>2. ASSUME NEW p \in Plain(c), NEW e \in Char \ ToSet(c), p \in G PROVE Append(p, e) \in G
  <2>1. p \in Seq(Char) /\ Columns(p, c) = <<p>> /\ e \in Char /\ e \notin ToSet(c)
    BY <1>2
  <2>2. Columns(Append(p, e), c) = WithCharacter(<<p>>, e, c)
    BY <2>1, ColumnsIs
  <2>3. WithCharacter(<<p>>, e, c) = [<<p>> EXCEPT ![1] = Append(@, e)]
    BY <2>1 DEF WithCharacter
  <2>4. [<<p>> EXCEPT ![1] = Append(@, e)] = <<Append(p, e)>>
    OBVIOUS
  <2>5. Append(p, e) \in Seq(Char)
    BY <2>1, AppendOne
  <2> QED BY <2>2, <2>3, <2>4, <2>5
<1>3. \A a \in Plain(c) : a \in G
  <2> HIDE DEF G
  <2>1. \A p \in Seq(Char \ ToSet(c)) : \A e \in Char \ ToSet(c) : p \in G => Append(p, e) \in G
    BY <1>2 DEF Plain
  <2> QED BY <1>1, <2>1, SeqInduction DEF Plain
<1> QED BY <1>3

\* What goes into the last column goes into the last column of the last part
LEMMA WithCharacterLast ==
    ASSUME NEW c, NEW left \in Lists(c), NEW right \in Lists(c), NEW x \in Char
    PROVE  WithCharacter(left \o right, x, c) = left \o WithCharacter(right, x, c)
<1>1. left \in Seq(Plain(c)) /\ right \in Seq(Plain(c)) /\ Len(right) \in 1 .. Len(right)
      /\ Len(left) \in Nat
  BY EmptySeq DEF Lists
<1>2. CASE x \in ToSet(c)
  <2>1. WithCharacter(left \o right, x, c) = Append(left \o right, <<>>)
        /\ WithCharacter(right, x, c) = Append(right, <<>>)
    BY <1>2 DEF WithCharacter
  <2>2. Append(left \o right, <<>>) = left \o Append(right, <<>>)
    BY <1>1
  <2> QED BY <2>1, <2>2
<1>3. CASE x \notin ToSet(c)
  <2>1. PICK both : both = left \o right
    OBVIOUS
  <2>2. both \in Seq(Plain(c)) /\ Len(both) = Len(left) + Len(right)
        /\ \A i \in 1 .. Len(both) :
              both[i] = IF i <= Len(left) THEN left[i] ELSE right[i - Len(left)]
    BY <1>1, <2>1, ConcatProperties
  <2>3. PICK new : new = Append(right[Len(right)], x)
    OBVIOUS
  <2>4. right[Len(right)] \in Plain(c) /\ new \in Plain(c)
    <3>1. right[Len(right)] \in Plain(c)
      BY <1>1
    <3> QED BY <1>3, <2>3, <3>1, AppendOne DEF Plain
  <2>5. both[Len(both)] = right[Len(right)]
    <3>1. Len(both) \in 1 .. Len(both) /\ ~(Len(both) <= Len(left))
          /\ Len(both) - Len(left) = Len(right)
      BY <1>1, <2>2
    <3> QED BY <2>2, <3>1
  <2>6. WithCharacter(both, x, c) = [both EXCEPT ![Len(both)] = new]
        /\ WithCharacter(right, x, c) = [right EXCEPT ![Len(right)] = new]
    BY <1>3, <2>3, <2>5 DEF WithCharacter
  <2>7. PICK nr : nr = [right EXCEPT ![Len(right)] = new]
    OBVIOUS
  <2>8. nr \in Seq(Plain(c)) /\ Len(nr) = Len(right)
        /\ \A j \in 1 .. Len(right) : nr[j] = IF j = Len(right) THEN new ELSE right[j]
    BY <1>1, <2>4, <2>7, ExceptSeq
  <2>9. PICK nb : nb = [both EXCEPT ![Len(both)] = new]
    OBVIOUS
  <2>10. nb \in Seq(Plain(c)) /\ Len(nb) = Len(both)
         /\ \A j \in 1 .. Len(both) : nb[j] = IF j = Len(both) THEN new ELSE both[j]
    <3>1. Len(both) \in 1 .. Len(both)
      BY <1>1, <2>2
    <3> QED BY <2>2, <2>4, <2>9, <3>1, ExceptSeq
  <2>11. PICK lr : lr = left \o nr
    OBVIOUS
  <2>12. lr \in Seq(Plain(c)) /\ Len(lr) = Len(left) + Len(nr)
         /\ \A i \in 1 .. Len(lr) :
               lr[i] = IF i <= Len(left) THEN left[i] ELSE nr[i - Len(left)]
    <3>1. left \in Seq(Plain(c)) /\ nr \in Seq(Plain(c))
      BY <1>1, <2>8
    <3> QED BY <2>11, <3>1, ConcatProperties
  <2>13. ASSUME NEW i \in 1 .. Len(both) PROVE nb[i] = lr[i]
    <3>1. i \in 1 .. Len(lr)
      BY <2>2, <2>8, <2>12
    <3>2. CASE i <= Len(left)
      <4>1. i # Len(both)
        BY <1>1, <2>2, <3>2
      <4> QED BY <2>2, <2>10, <2>12, <3>1, <3>2, <4>1
    <3>3. CASE ~(i <= Len(left))
      <4>1. i - Len(left) \in 1 .. Len(right)
            /\ (i - Len(left) = Len(right) <=> i = Len(both))
        BY <1>1, <2>2, <3>3
      <4>2. lr[i] = nr[i - Len(left)] /\ both[i] = right[i - Len(left)]
        BY <2>2, <2>12, <3>1, <3>3
      <4>3. lr[i] = IF i = Len(both) THEN new ELSE both[i]
        BY <2>8, <4>1, <4>2
      <4> QED BY <2>10, <4>3
    <3> QED BY <3>2, <3>3
  <2>14. nb = lr
    <3>1. \A i \in 1 .. Len(nb) : nb[i] = lr[i]
      BY <2>10, <2>13
    <3>2. Len(nb) = Len(lr)
      BY <2>2, <2>8, <2>10, <2>12
    <3> QED BY <2>10, <2>12, <3>1, <3>2, SeqEqual
  <2> QED BY <2>1, <2>6, <2>7, <2>9, <2>11, <2>14
<1> QED BY <1>2, <1>3

\* A separator parts the columns of what is before it from those behind it
LEMMA ColumnsSplit ==
    ASSUME NEW c, NEW x \in Seq(Char), NEW e \in Char, e \in ToSet(c)
    PROVE  \A y \in Seq(Char) :
              Columns(Cat(x, Cat(<<e>>, y)), c) = Columns(x, c) \o Columns(y, c)
<1> DEFINE z == Append(x, e)
           G == {y \in Seq(Char) : Columns(z \o y, c) = Columns(x, c) \o Columns(y, c)}
<1>0. z \in Seq(Char) /\ Columns(z, c) = Append(Columns(x, c), <<>>)
  <2>1. Columns(z, c) = WithCharacter(Columns(x, c), e, c)
    BY ColumnsIs
  <2>2. WithCharacter(Columns(x, c), e, c) = Append(Columns(x, c), <<>>)
    BY DEF WithCharacter
  <2> QED BY <2>1, <2>2, AppendOne
<1>1. <<>> \in G
  <2>1. z \o <<>> = z
    BY <1>0, ConcatEmptySeq
  <2>2. Columns(<<>>, c) = << <<>> >> /\ Columns(x, c) \in Lists(c)
    BY ColumnsIs
  <2>3. Append(Columns(x, c), <<>>) = Columns(x, c) \o << <<>> >>
    BY <2>2 DEF Lists
  <2>4. Columns(z \o <<>>, c) = Columns(x, c) \o Columns(<<>>, c)
    <3> HIDE DEF z
    <3> QED BY <1>0, <2>1, <2>2, <2>3
  <2>5. PICK none : none = <<>>
    OBVIOUS
  <2>6. none \in Seq(Char)
    BY <2>5
  <2> HIDE DEF z
  <2> QED BY <2>4, <2>5, <2>6
<1>2. ASSUME NEW p \in Seq(Char), NEW u \in Char, p \in G PROVE Append(p, u) \in G
  <2>1. z \o Append(p, u) = Append(z \o p, u) /\ z \o p \in Seq(Char)
        /\ Append(p, u) \in Seq(Char)
    BY <1>0
  <2>2. Columns(Append(z \o p, u), c) = WithCharacter(Columns(z \o p, c), u, c)
    BY <2>1, ColumnsIs
  <2>3. Columns(z \o p, c) = Columns(x, c) \o Columns(p, c)
    BY <1>2
  <2>4. Columns(x, c) \in Lists(c) /\ Columns(p, c) \in Lists(c)
    BY ColumnsIs
  <2>5. WithCharacter(Columns(x, c) \o Columns(p, c), u, c)
          = Columns(x, c) \o WithCharacter(Columns(p, c), u, c)
    BY <2>4, WithCharacterLast
  <2>6. Columns(Append(p, u), c) = WithCharacter(Columns(p, c), u, c)
    BY ColumnsIs
  <2> QED BY <2>1, <2>2, <2>3, <2>5, <2>6
<1>3. \A y \in Seq(Char) : y \in G
  <2> HIDE DEF G
  <2> QED BY <1>1, <1>2, SeqInduction
<1>4. ASSUME NEW y \in Seq(Char) PROVE Cat(x, Cat(<<e>>, y)) = z \o y
  <2>1. z = x \o <<e>> /\ <<e>> \in Seq(Char)
    OBVIOUS
  <2>2. (x \o <<e>>) \o y = x \o (<<e>> \o y)
    BY <2>1, ConcatAssociative
  <2> QED BY <2>1, <2>2 DEF Cat
<1> QED BY <1>3, <1>4

\* The columns of joined texts are the texts, when none holds a separator
LEMMA ColumnsJoined ==
    ASSUME NEW e \in Char
    PROVE  \A ts \in Lists(<<e>>) : Columns(JoinedWith(ts, <<e>>), <<e>>) = ts
<1>1. PICK c : c = <<e>>
  OBVIOUS
<1>2. c \in Seq(Char) /\ ToSet(c) = {e}
  BY <1>1 DEF ToSet
<1>3. \A t \in Plain(c) : t \in Seq(Char)
  BY ColumnsPlain
<1> DEFINE G == {ts \in Seq(Plain(c)) : ts # <<>> => Columns(JoinedWith(ts, c), c) = ts}
<1>4. <<>> \in G
  OBVIOUS
<1>5. ASSUME NEW ts \in Seq(Plain(c)), NEW t \in Plain(c), ts \in G PROVE Append(ts, t) \in G
  <2>1. t \in Seq(Char) /\ Columns(t, c) = <<t>>
    BY ColumnsPlain
  <2>2. ts \in Seq(Seq(Char))
    BY <1>3
  <2>3. JoinedWith(Append(ts, t), c) = IF ts = <<>> THEN t ELSE Cat(JoinedWith(ts, c), Cat(c, t))
    BY <1>2, <2>1, <2>2, JoinedAppend
  <2>4. Append(ts, t) \in Seq(Plain(c))
    BY AppendOne
  <2>5. CASE ts = <<>>
    <3>1. Append(ts, t) = <<t>>
      BY <2>5
    <3> QED BY <2>1, <2>3, <2>4, <2>5, <3>1
  <2>6. CASE ts # <<>>
    <3>1. PICK j \in Seq(Char) : j = JoinedWith(ts, c)
      BY <1>2, <2>2, JoinedType
    <3>2. Columns(Cat(j, Cat(<<e>>, t)), c) = Columns(j, c) \o Columns(t, c)
      BY <1>2, <2>1, ColumnsSplit
    <3>3. Columns(j, c) = ts
      BY <1>5, <2>6, <3>1
    <3>4. ts \o <<t>> = Append(ts, t)
      OBVIOUS
    <3> QED BY <1>1, <2>1, <2>3, <2>4, <2>6, <3>1, <3>2, <3>3, <3>4
  <2> QED BY <2>5, <2>6
<1>6. \A ts \in Seq(Plain(c)) : ts \in G
  <2> HIDE DEF G
  <2> QED BY <1>4, <1>5, SeqInduction
<1> QED BY <1>1, <1>6 DEF Lists

-----------------------------------------------------------------------------
(* The columns without the empty ones *)

\* No text
LEMMA NonEmptyNone == NonEmpty(<<>>) = <<>>
<1>1. PICK none : none = <<>>
  OBVIOUS
<1>2. none \in Seq(Seq({})) /\ none \in Seq({})
  BY <1>1
<1> QED BY <1>2, NonEmptyAppend

\* One text, if it is not empty
LEMMA NonEmptyOne ==
    ASSUME NEW S, NEW t \in Seq(S)
    PROVE  NonEmpty(<<t>>) = IF t = <<>> THEN <<>> ELSE <<t>>
<1>1. PICK none : none = <<>>
  OBVIOUS
<1>2. none \in Seq(Seq(S))
  BY <1>1
<1>3. NonEmpty(Append(none, t)) = NonEmpty(none) \o (IF t = <<>> THEN <<>> ELSE <<t>>)
      /\ NonEmpty(none) = <<>>
  BY <1>1, <1>2, NonEmptyAppend
<1>4. Append(none, t) = <<t>>
  BY <1>1
<1>5. PICK one : one = IF t = <<>> THEN <<>> ELSE <<t>>
  OBVIOUS
<1>6. one \in Seq(Seq(S))
  BY <1>5
<1>7. <<>> \o one = one
  BY <1>6, ConcatEmptySeq
<1> QED BY <1>3, <1>4, <1>5, <1>7

\* A text more, as the text that is left of it
LEMMA NonEmptyStep ==
    ASSUME NEW S, NEW ts \in Seq(Seq(S)), NEW t \in Seq(S)
    PROVE  /\ NonEmpty(ts) \in Seq(Seq(S)) /\ NonEmpty(<<t>>) \in Seq(Seq(S))
           /\ NonEmpty(Append(ts, t)) = Cat(NonEmpty(ts), NonEmpty(<<t>>))
<1>1. <<t>> \in Seq(Seq(S))
  OBVIOUS
<1>2. NonEmpty(ts) \in Seq(Seq(S)) /\ NonEmpty(<<t>>) \in Seq(Seq(S))
  BY <1>1, NonEmptyAppend
<1>3. PICK one : one = NonEmpty(<<t>>)
  OBVIOUS
<1>4. one = IF t = <<>> THEN <<>> ELSE <<t>>
  BY <1>3, NonEmptyOne
<1>5. NonEmpty(Append(ts, t)) = NonEmpty(ts) \o (IF t = <<>> THEN <<>> ELSE <<t>>)
  BY NonEmptyAppend
<1>6. NonEmpty(Append(ts, t)) = NonEmpty(ts) \o one
  BY <1>4, <1>5
<1> QED BY <1>2, <1>3, <1>6 DEF Cat

\* The non-empty texts of two sequences
LEMMA NonEmptyConcat ==
    ASSUME NEW S, NEW us \in Seq(Seq(S))
    PROVE  \A ts \in Seq(Seq(S)) : NonEmpty(us \o ts) = Cat(NonEmpty(us), NonEmpty(ts))
<1> DEFINE G == {ts \in Seq(Seq(S)) : NonEmpty(us \o ts) = Cat(NonEmpty(us), NonEmpty(ts))}
<1>1. <<>> \in G
  <2>1. PICK none : none = <<>>
    OBVIOUS
  <2>2. none \in Seq(Seq(S)) /\ none \in Seq(S) /\ NonEmpty(none) = none
    BY <2>1, NonEmptyNone
  <2>4. NonEmpty(us) \in Seq(Seq(S))
    BY <2>2, NonEmptyAppend
  <2>3. us \o none = us /\ Cat(NonEmpty(us), none) = NonEmpty(us)
    BY <2>1, <2>4, ConcatEmptySeq DEF Cat
  <2> QED BY <2>1, <2>2, <2>3
<1>2. ASSUME NEW ts \in Seq(Seq(S)), NEW t \in Seq(S), ts \in G PROVE Append(ts, t) \in G
  <2>1. us \o Append(ts, t) = Append(us \o ts, t) /\ us \o ts \in Seq(Seq(S))
        /\ Append(ts, t) \in Seq(Seq(S))
    OBVIOUS
  <2>2. NonEmpty(Append(us \o ts, t)) = Cat(NonEmpty(us \o ts), NonEmpty(<<t>>))
    BY <2>1, NonEmptyStep
  <2>3. NonEmpty(Append(ts, t)) = Cat(NonEmpty(ts), NonEmpty(<<t>>))
    BY NonEmptyStep
  <2>4. NonEmpty(us) \in Seq(Seq(S)) /\ NonEmpty(ts) \in Seq(Seq(S))
        /\ NonEmpty(<<t>>) \in Seq(Seq(S))
    BY NonEmptyStep
  <2>5. Cat(Cat(NonEmpty(us), NonEmpty(ts)), NonEmpty(<<t>>))
          = Cat(NonEmpty(us), Cat(NonEmpty(ts), NonEmpty(<<t>>)))
    BY <2>4, CatFacts
  <2> QED BY <1>2, <2>1, <2>2, <2>3, <2>5
<1>3. \A ts \in Seq(Seq(S)) : ts \in G
  <2> HIDE DEF G
  <2> QED BY <1>1, <1>2, SeqInduction
<1> QED BY <1>3

\* All of them, if none is empty
LEMMA NonEmptyAll ==
    ASSUME NEW S
    PROVE  \A ts \in Seq(Seq(S) \ {<<>>}) : NonEmpty(ts) = ts
<1> DEFINE T == Seq(S) \ {<<>>}
           G == {ts \in Seq(T) : NonEmpty(ts) = ts}
<1>1. <<>> \in G
  BY NonEmptyNone
<1>2. ASSUME NEW ts \in Seq(T), NEW t \in T, ts \in G PROVE Append(ts, t) \in G
  <2>1. t \in Seq(S) /\ ts \in Seq(Seq(S)) /\ t # <<>> /\ NonEmpty(ts) = ts
    BY <1>2
  <2>2. NonEmpty(Append(ts, t)) = NonEmpty(ts) \o NonEmpty(<<t>>)
    BY <2>1, NonEmptyStep DEF Cat
  <2>3. NonEmpty(<<t>>) = <<t>>
    BY <2>1, NonEmptyOne
  <2>4. ts \o <<t>> = Append(ts, t) /\ Append(ts, t) \in Seq(T)
    OBVIOUS
  <2> QED BY <2>1, <2>2, <2>3, <2>4
<1>3. \A ts \in Seq(T) : ts \in G
  <2> HIDE DEF G, T
  <2> QED BY <1>1, <1>2, SeqInduction
<1> QED BY <1>3

\* Columns are texts
LEMMA PlainIs ==
    ASSUME NEW c
    PROVE  Plain(c) \subseteq Seq(Char) /\ Seq(Plain(c)) \subseteq Seq(Seq(Char))
<1>1. Plain(c) \subseteq Seq(Char)
  BY SeqMonotonic DEF Plain
<1> QED BY <1>1, SeqMonotonic

\* The columns that are seen are texts
LEMMA SeenType ==
    ASSUME NEW c, c # <<>>, NEW a \in Seq(Char)
    PROVE  /\ SeenColumns(a, c) = NonEmpty(Columns(a, c))
           /\ SeenColumns(a, c) \in Seq(Plain(c))
<1>1. Columns(a, c) \in Seq(Plain(c))
  BY ColumnsIs DEF Lists
<1>2. NonEmpty(Columns(a, c)) \in Seq(Plain(c))
  <2>1. PICK cols : cols = Columns(a, c)
    OBVIOUS
  <2>2. cols \in Seq(Seq(Char \ ToSet(c)))
    BY <1>1, <2>1 DEF Plain
  <2> QED BY <2>1, <2>2, NonEmptyStep, EmptySeq DEF Plain
<1> QED BY <1>2 DEF SeenColumns

\* Nothing but separators is no column
LEMMA SeenSeparators ==
    ASSUME NEW c, c # <<>>, NEW x \in Seq(Char)
    PROVE  \A q \in Seq(Char \cap ToSet(c)) :
              Cat(x, q) \in Seq(Char) /\ SeenColumns(Cat(x, q), c) = SeenColumns(x, c)
<1> DEFINE E == Char \cap ToSet(c)
           G == {q \in Seq(E) :
                   Cat(x, q) \in Seq(Char) /\ SeenColumns(Cat(x, q), c) = SeenColumns(x, c)}
<1>1. <<>> \in G
  <2>1. Cat(x, <<>>) = x
    BY CatFacts
  <2> QED BY <2>1
<1>2. ASSUME NEW q \in Seq(E), NEW e \in E, q \in G PROVE Append(q, e) \in G
  <2>1. PICK y \in Seq(Char) : y = Cat(x, q)
    BY <1>2
  <2>2. Cat(x, Append(q, e)) = Append(y, e) /\ Append(y, e) \in Seq(Char)
        /\ Append(q, e) \in Seq(E)
    BY <2>1 DEF Cat
  <2>3. Columns(Append(y, e), c) = Append(Columns(y, c), <<>>)
    <3>1. Columns(Append(y, e), c) = WithCharacter(Columns(y, c), e, c)
      BY ColumnsIs
    <3> QED BY <3>1 DEF WithCharacter
  <2>4. NonEmpty(Append(Columns(y, c), <<>>)) = NonEmpty(Columns(y, c))
    <3>1. PICK cols : cols = Columns(y, c)
      OBVIOUS
    <3>2. PICK none : none = <<>>
      OBVIOUS
    <3>3. cols \in Seq(Seq(Char \ ToSet(c))) /\ none \in Seq(Char \ ToSet(c))
      BY <3>1, <3>2, ColumnsIs DEF Lists, Plain
    <3>4. NonEmpty(Append(cols, none)) = Cat(NonEmpty(cols), NonEmpty(<<none>>))
          /\ NonEmpty(cols) \in Seq(Seq(Char \ ToSet(c)))
      BY <3>3, NonEmptyStep
    <3>5. NonEmpty(<<none>>) = <<>>
      BY <3>2, <3>3, NonEmptyOne
    <3>6. Cat(NonEmpty(cols), <<>>) = NonEmpty(cols)
      BY <3>4, CatFacts
    <3> QED BY <3>1, <3>2, <3>4, <3>5, <3>6
  <2>5. SeenColumns(Append(y, e), c) = SeenColumns(y, c)
    BY <2>2, <2>3, <2>4, SeenType
  <2> QED BY <1>2, <2>1, <2>2, <2>5
<1>3. \A q \in Seq(E) : q \in G
  <2> HIDE DEF G, E
  <2> QED BY <1>1, <1>2, SeqInduction
<1> QED BY <1>3

\* The columns that are seen on both sides of a separator, which may be longer
\* than a character
LEMMA SeenSplit ==
    ASSUME NEW c \in Seq(Char), c # <<>>, NEW x \in Seq(Char), NEW y \in Seq(Char)
    PROVE  SeenColumns(Cat(x, Cat(c, y)), c) = Cat(SeenColumns(x, c), SeenColumns(y, c))
<1>1. c \in Seq(Char \cap ToSet(c))
  <2>1. \A i \in 1 .. Len(c) : c[i] \in Char \cap ToSet(c)
    BY DEF ToSet
  <2> QED BY <2>1
<1>2. PICK q \in Seq(Char \cap ToSet(c)), e \in Char \cap ToSet(c) : c = Append(q, e)
  BY <1>1, LastElement
<1>4. c = Append(q, e) /\ e \in Char /\ e \in ToSet(c)
  BY <1>2
<1>5. q \in Seq(Char \cap ToSet(c)) /\ q \in Seq(Char)
  OBVIOUS
<1>6. PICK xq \in Seq(Char) : xq = Cat(x, q) /\ SeenColumns(xq, c) = SeenColumns(x, c)
  BY <1>5, SeenSeparators
<1>7. Cat(x, Cat(c, y)) = Cat(xq, Cat(<<e>>, y))
  <2>1. c = Cat(q, <<e>>) /\ <<e>> \in Seq(Char)
    BY <1>4, <1>5 DEF Cat
  <2>2. PICK o \in Seq(Char) : o = <<e>>
    BY <2>1
  <2>3. q \in Seq(Char) /\ o \in Seq(Char) /\ c = Cat(q, o)
    BY <1>5, <2>1, <2>2
  <2>4. Cat(c, y) = Cat(q, Cat(o, y)) /\ Cat(o, y) \in Seq(Char)
    BY <2>3, CatFacts
  <2>5. Cat(Cat(x, q), Cat(o, y)) = Cat(x, Cat(q, Cat(o, y)))
    BY <2>3, <2>4, CatFacts
  <2> QED BY <1>6, <2>2, <2>4, <2>5
<1>8. PICK all \in Seq(Char) : all = Cat(xq, Cat(<<e>>, y))
  <2>1. <<e>> \in Seq(Char)
    BY <1>4
  <2>2. Cat(<<e>>, y) \in Seq(Char)
    BY <2>1, CatFacts
  <2> QED BY <2>2, CatFacts
<1>9. Columns(all, c) = Columns(xq, c) \o Columns(y, c)
  BY <1>4, <1>8, ColumnsSplit
<1>10. NonEmpty(Columns(xq, c) \o Columns(y, c))
          = Cat(NonEmpty(Columns(xq, c)), NonEmpty(Columns(y, c)))
  <2>1. Columns(xq, c) \in Seq(Seq(Char \ ToSet(c))) /\ Columns(y, c) \in Seq(Seq(Char \ ToSet(c)))
    BY ColumnsIs DEF Lists, Plain
  <2> QED BY <2>1, NonEmptyConcat
<1>11. SeenColumns(all, c) = Cat(SeenColumns(xq, c), SeenColumns(y, c))
  BY <1>9, <1>10, SeenType
<1> QED BY <1>6, <1>7, <1>8, <1>11

\* The columns that are seen of joined texts are the texts that are not empty
LEMMA SeenJoined ==
    ASSUME NEW c \in Seq(Char), c # <<>>
    PROVE  \A ts \in Seq(Plain(c)) : SeenColumns(JoinedWith(ts, c), c) = NonEmpty(ts)
<1> DEFINE G == {ts \in Seq(Plain(c)) : SeenColumns(JoinedWith(ts, c), c) = NonEmpty(ts)}
<1>0. \A t \in Plain(c) : t \in Seq(Char) /\ SeenColumns(t, c) = NonEmpty(<<t>>)
  BY ColumnsPlain, SeenType
<1>1. <<>> \in G
  <2>1. PICK none : none = <<>>
    OBVIOUS
  <2>2. none \in Plain(c) /\ none \in Seq(Seq(Char)) /\ none \in Seq(Char)
    BY <2>1 DEF Plain
  <2>3. SeenColumns(none, c) = NonEmpty(<<none>>)
    BY <1>0, <2>2
  <2>4. NonEmpty(<<none>>) = <<>>
    BY <2>1, <2>2, NonEmptyOne
  <2>5. JoinedWith(<<>>, c) = none
    BY <2>1, <2>2, JoinedType
  <2>6. SeenColumns(JoinedWith(<<>>, c), c) = NonEmpty(<<>>)
    BY <2>3, <2>4, <2>5, NonEmptyNone
  <2>7. <<>> \in Seq(Plain(c))
    OBVIOUS
  <2> QED BY <2>6, <2>7
<1>2. ASSUME NEW ts \in Seq(Plain(c)), NEW t \in Plain(c), ts \in G PROVE Append(ts, t) \in G
  <2>1. t \in Seq(Char) /\ ts \in Seq(Seq(Char))
    BY <1>0, PlainIs
  <2>2. Append(ts, t) \in Seq(Plain(c))
    BY AppendOne
  <2>3. JoinedWith(Append(ts, t), c) = IF ts = <<>> THEN t ELSE Cat(JoinedWith(ts, c), Cat(c, t))
    BY <2>1, JoinedAppend
  <2>4. NonEmpty(Append(ts, t)) = Cat(NonEmpty(ts), NonEmpty(<<t>>))
        /\ NonEmpty(<<t>>) \in Seq(Seq(Char))
    BY <2>1, NonEmptyStep
  <2>5. CASE ts = <<>>
    <3>1. Cat(<<>>, NonEmpty(<<t>>)) = NonEmpty(<<t>>)
      BY <2>4, CatFacts
    <3> QED BY <1>0, <2>2, <2>3, <2>4, <2>5, <3>1, NonEmptyNone
  <2>6. CASE ts # <<>>
    <3>1. PICK j \in Seq(Char) : j = JoinedWith(ts, c)
      BY <2>1, JoinedType
    <3>2. SeenColumns(Cat(j, Cat(c, t)), c) = Cat(SeenColumns(j, c), SeenColumns(t, c))
      BY <2>1, SeenSplit
    <3>3. SeenColumns(j, c) = NonEmpty(ts)
      BY <1>2, <3>1
    <3> QED BY <1>0, <2>2, <2>3, <2>4, <2>6, <3>1, <3>2, <3>3
  <2> QED BY <2>5, <2>6
<1>3. \A ts \in Seq(Plain(c)) : ts \in G
  <2> HIDE DEF G
  <2> QED BY <1>1, <1>2, SeqInduction
<1> QED BY <1>3

-----------------------------------------------------------------------------
(* The texts of the kernel's tables *)

\* What is a column wherever it stands in a control block
Word == Seq(Char \ {Space}) \ {<<>>}

\* The columns of the control block of a record
BlockOf(name, r) ==
    << <<Words[1]>>, Text(r.pid), <<Words[2]>>, name, <<Words[3]>>, r.state,
       <<Words[4]>>, r.priority, <<Words[5]>>, Text(r.start), <<Words[6]>>, Text(r.end),
       <<Words[7]>>, Text(r.pc), <<Words[8]>> >>

\* The columns of the list of free blocks: the last one is empty
ListOf(bs) == Append([i \in DOMAIN bs |-> Text(bs[i])], <<>>)

\* The blank as a separator
LEMMA BlankIs ==
    /\ Space \in Char /\ Blank = <<Space>> /\ Blank \in Seq(Char) /\ Blank # <<>>
    /\ Plain(Blank) = Seq(Char \ {Space}) /\ Word \subseteq Plain(Blank)
<1>1. Space \in Char
  BY TextsConstants
<1>2. ToSet(Blank) = {Space}
  BY DEF Blank, ToSet
<1>3. Plain(Blank) = Seq(Char \ {Space})
  BY <1>2 DEF Plain
<1>4. Blank \in Seq(Char) /\ Blank # <<>>
  BY <1>1 DEF Blank
<1> QED BY <1>1, <1>3, <1>4 DEF Blank, Word

\* A text joined with blanks: the kernel's two ways to see it give the columns
LEMMA JoinedIs ==
    ASSUME NEW ts \in Seq(Plain(Blank)), ts # <<>>
    PROVE  /\ Joined(ts) \in Seq(Char) /\ Columns(Joined(ts), Blank) = ts
           /\ SeenColumns(Joined(ts), Blank) = NonEmpty(ts)
<1>1. Joined(ts) = JoinedWith(ts, Blank)
  BY DEF Joined
<1>2. Joined(ts) \in Seq(Char)
  <2>1. ts \in Seq(Seq(Char))
    BY PlainIs
  <2> QED BY <1>1, <2>1, BlankIs, JoinedType
<1>3. Columns(JoinedWith(ts, <<Space>>), <<Space>>) = ts
  <2>1. ts \in Lists(<<Space>>)
    BY BlankIs DEF Lists
  <2> QED BY <2>1, BlankIs, ColumnsJoined
<1>4. SeenColumns(JoinedWith(ts, Blank), Blank) = NonEmpty(ts)
  BY BlankIs, SeenJoined
<1> QED BY <1>1, <1>2, <1>3, <1>4, BlankIs

\* A field that is read, and a field that is set, when no column is empty
LEMMA FieldsOfJoined ==
    ASSUME NEW ts \in Seq(Word), NEW n \in 1 .. Len(ts), NEW d \in Word
    PROVE  /\ GetColumn(Joined(ts), n, Blank) = ts[n]
           /\ ReplaceColumn(Joined(ts), n, Blank, d) = Joined([ts EXCEPT ![n] = d])
<1>1. ts \in Seq(Plain(Blank)) /\ ts # <<>> /\ DOMAIN ts = 1 .. Len(ts)
  <2>1. ts \in Seq(Plain(Blank))
    BY BlankIs, SeqMonotonic
  <2> QED BY <2>1, EmptySeq
<1>2. NonEmpty(ts) = ts
  BY NonEmptyAll DEF Word
<1>3. Columns(Joined(ts), Blank) = ts /\ SeenColumns(Joined(ts), Blank) = ts
  BY <1>1, <1>2, JoinedIs
<1>4. GetColumn(Joined(ts), n, Blank) = ts[n]
  BY <1>1, <1>3 DEF GetColumn
<1>5. ReplaceColumn(Joined(ts), n, Blank, d) = JoinedWith([ts EXCEPT ![n] = d], Blank)
  BY <1>1, <1>3, BlankIs DEF ReplaceColumn
<1> QED BY <1>4, <1>5 DEF Joined

\* The words, the states and the numbers in a control block are columns
LEMMA WordsAre ==
    /\ \A i \in 1 .. 8 : <<Words[i]>> \in Word
    /\ Ready \in Word /\ Pause \in Word
    /\ \A n \in Int : Text(n) \in Word
    /\ Zero \in Word
<1>1. \A x \in Char \ {Space} : <<x>> \in Word
  BY DEF Word
<1>2. \A i \in 1 .. 8 : Words[i] \in ToSet(Words)
  BY DEF ToSet, Words
<1>3. Space \notin ToSet(Words) /\ "r" # Space /\ "p" # Space /\ "0" # Space
  <2>1. ToSet(Words) = {"P", "N", "S", "R", "M", "E", "C", "F"}
    BY DEF ToSet, Words
  <2>2. Space \notin {"P", "N", "S", "R", "M", "E", "C", "F"}
    BY Zenon DEF Space
  <2>3. "r" # Space /\ "p" # Space /\ "0" # Space
    BY Zenon DEF Space
  <2> QED BY <2>1, <2>2, <2>3
<1>4. ToSet(Words) \cup {"r", "p"} \subseteq Char
  BY ControlBlocksConstants
<1>5. \A i \in 1 .. 8 : Words[i] \in Char \ {Space}
  BY <1>2, <1>3, <1>4
<1>6. "0" \in Char
  <2>1. Digits[1] = "0" /\ 1 \in 1 .. 10
    BY DEF Digits
  <2>2. Digits[1] \in Digit
    BY <2>1, DigitsAre
  <2> QED BY <2>1, <2>2, DigitsAre
<1>7. Ready \in Word /\ Pause \in Word /\ Zero \in Word
  BY <1>1, <1>3, <1>4, <1>6 DEF Ready, Pause, Zero
<1>8. \A n \in Int : Text(n) \in Word
  BY TextHasNoBlank DEF Word
<1> QED BY <1>1, <1>5, <1>7, <1>8

-----------------------------------------------------------------------------
(* The control block of a process *)

\* The records that control blocks are taken for
Record ==
    [pid: Nat \ {0}, state: {Ready, Pause}, priority: Word, start: Nat, end: Nat, pc: Nat]

\* A control block has fifteen columns, the values every other one
LEMMA BlockIs ==
    ASSUME NEW name \in Word, NEW r \in Record
    PROVE  /\ BlockOf(name, r) \in Seq(Word) /\ Len(BlockOf(name, r)) = 15
           /\ BlockOf(name, r)[PidColumn] = Text(r.pid)
           /\ BlockOf(name, r)[StateColumn] = r.state
           /\ BlockOf(name, r)[8] = r.priority
           /\ BlockOf(name, r)[StartColumn] = Text(r.start)
           /\ BlockOf(name, r)[EndColumn] = Text(r.end)
           /\ BlockOf(name, r)[PcColumn] = Text(r.pc)
<1>1. /\ Text(r.pid) \in Word /\ name \in Word /\ r.state \in Word /\ r.priority \in Word
      /\ Text(r.start) \in Word /\ Text(r.end) \in Word /\ Text(r.pc) \in Word
  <2>1. r.pid \in Int /\ r.start \in Int /\ r.end \in Int /\ r.pc \in Int
        /\ r.state \in {Ready, Pause} /\ r.priority \in Word
    BY DEF Record
  <2> QED BY <2>1, WordsAre
<1>2. PICK p, pid, n, s, state, x, priority, m, start, e, last_, k, counter, f :
          /\ p = <<Words[1]>> /\ pid = Text(r.pid) /\ n = <<Words[2]>>
          /\ s = <<Words[3]>> /\ state = r.state /\ x = <<Words[4]>>
          /\ priority = r.priority /\ m = <<Words[5]>> /\ start = Text(r.start)
          /\ e = <<Words[6]>> /\ last_ = Text(r.end) /\ k = <<Words[7]>>
          /\ counter = Text(r.pc) /\ f = <<Words[8]>>
  OBVIOUS
<1>3. BlockOf(name, r) = <<p, pid, n, name, s, state, x, priority, m, start, e, last_, k, counter, f>>
  BY <1>2 DEF BlockOf
<1>4. p \in Word /\ n \in Word /\ s \in Word /\ x \in Word /\ m \in Word /\ e \in Word
      /\ k \in Word /\ f \in Word
  BY <1>2, WordsAre
<1> QED BY <1>1, <1>2, <1>3, <1>4
        DEF PidColumn, StateColumn, StartColumn, EndColumn, PcColumn

\* A column is set where a field is
LEMMA BlockChanges ==
    ASSUME NEW name \in Word, NEW r \in Record
    PROVE  /\ \A v \in Word : BlockOf(name, [r EXCEPT !.state = v])
                                = [BlockOf(name, r) EXCEPT ![StateColumn] = v]
           /\ \A n \in Nat : BlockOf(name, [r EXCEPT !.pc = n])
                               = [BlockOf(name, r) EXCEPT ![PcColumn] = Text(n)]
<1>1. PICK a, b, c, d, e, f, g, h, i, j, k, l, m, o :
          /\ a = <<Words[1]>> /\ b = Text(r.pid) /\ c = <<Words[2]>>
          /\ d = <<Words[3]>> /\ e = r.state /\ f = <<Words[4]>>
          /\ g = r.priority /\ h = <<Words[5]>> /\ i = Text(r.start)
          /\ j = <<Words[6]>> /\ k = Text(r.end) /\ l = <<Words[7]>>
          /\ m = Text(r.pc) /\ o = <<Words[8]>>
  OBVIOUS
<1>2. BlockOf(name, r) = <<a, b, c, name, d, e, f, g, h, i, j, k, l, m, o>>
  BY <1>1 DEF BlockOf
<1>3. ASSUME NEW v \in Word
      PROVE  BlockOf(name, [r EXCEPT !.state = v]) = [BlockOf(name, r) EXCEPT ![StateColumn] = v]
  <2>1. PICK q : q = [r EXCEPT !.state = v]
    OBVIOUS
  <2>2. q.pid = r.pid /\ q.state = v /\ q.priority = r.priority /\ q.start = r.start
        /\ q.end = r.end /\ q.pc = r.pc
    BY <2>1 DEF Record
  <2>3. BlockOf(name, q) = <<a, b, c, name, d, v, f, g, h, i, j, k, l, m, o>>
    BY <1>1, <2>2 DEF BlockOf
  <2> QED BY <1>2, <2>1, <2>3 DEF StateColumn
<1>4. ASSUME NEW n \in Nat
      PROVE  BlockOf(name, [r EXCEPT !.pc = n]) = [BlockOf(name, r) EXCEPT ![PcColumn] = Text(n)]
  <2>1. PICK q, t : q = [r EXCEPT !.pc = n] /\ t = Text(n)
    OBVIOUS
  <2>2. q.pid = r.pid /\ q.state = r.state /\ q.priority = r.priority /\ q.start = r.start
        /\ q.end = r.end /\ q.pc = n
    BY <2>1 DEF Record
  <2>3. BlockOf(name, q) = <<a, b, c, name, d, e, f, g, h, i, j, k, l, t, o>>
    BY <1>1, <2>1, <2>2 DEF BlockOf
  <2> QED BY <1>2, <2>1, <2>3 DEF PcColumn
<1> QED BY <1>3, <1>4

\* What sys_sched_process_load puts together is the control block of the record
LEMMA NewBlockIs ==
    ASSUME NEW pid, NEW name, NEW priority, NEW start
    PROVE  NewBlock(pid, name, priority, start)
             = Joined(BlockOf(name, [pid |-> pid, state |-> Ready, priority |-> priority,
                                     start |-> start, end |-> start + BlockLen, pc |-> Entry]))
<1>1. PICK a, b, c, d, e, f, g : a = Text(pid) /\ b = name /\ c = Ready /\ d = priority
          /\ e = Text(start) /\ f = Text(start + BlockLen) /\ g = Text(Entry)
  OBVIOUS
<1>2. PICK x1, x2, x3, x4, x5, x6, x7, x8 :
          /\ x1 = <<Words[1]>> /\ x2 = <<Words[2]>> /\ x3 = <<Words[3]>> /\ x4 = <<Words[4]>>
          /\ x5 = <<Words[5]>> /\ x6 = <<Words[6]>> /\ x7 = <<Words[7]>> /\ x8 = <<Words[8]>>
  OBVIOUS
<1> DEFINE values == <<a, b, c, d, e, f, g>>
           new == [i \in 1 .. 15 |-> IF i % 2 = 1 THEN <<Words[(i + 1) \div 2]>> ELSE values[i \div 2]]
           old == <<x1, a, x2, b, x3, c, x4, d, x5, e, x6, f, x7, g, x8>>
<1>3. NewBlock(pid, name, priority, start) = Joined(new)
  BY <1>1 DEF NewBlock
<1>4. new = old
  <2>1. ASSUME NEW i \in 1 .. 15 PROVE new[i] = old[i]
    <3>1. i \in {1, 3, 5, 7, 9, 11, 13, 15} \/ i \in {2, 4, 6, 8, 10, 12, 14}
      OBVIOUS
    <3>2. CASE i \in {1, 3, 5, 7, 9, 11, 13, 15}
      BY <1>2, <3>2
    <3>3. CASE i \in {2, 4, 6, 8, 10, 12, 14}
      BY <3>3
    <3> QED BY <3>1, <3>2, <3>3
  <2>2. new = [i \in 1 .. 15 |-> new[i]] /\ old = [i \in 1 .. 15 |-> old[i]]
    OBVIOUS
  <2> HIDE DEF new, old
  <2> QED BY <2>1, <2>2
<1>5. BlockOf(name, [pid |-> pid, state |-> Ready, priority |-> priority,
                     start |-> start, end |-> start + BlockLen, pc |-> Entry]) = old
  <2>1. PICK r : r = [pid |-> pid, state |-> Ready, priority |-> priority,
                      start |-> start, end |-> start + BlockLen, pc |-> Entry]
    OBVIOUS
  <2>2. r.pid = pid /\ r.state = Ready /\ r.priority = priority /\ r.start = start
        /\ r.end = start + BlockLen /\ r.pc = Entry
    BY <2>1
  <2> QED BY <1>1, <1>2, <2>1, <2>2 DEF BlockOf
<1> QED BY <1>3, <1>4, <1>5

-----------------------------------------------------------------------------
(* The list of free blocks *)

\* The list of free blocks as columns
LEMMA ListIs ==
    ASSUME NEW bs \in Seq(Nat)
    PROVE  /\ ListOf(bs) \in Seq(Plain(Blank)) /\ ListOf(bs) # <<>>
           /\ Len(ListOf(bs)) = Len(bs) + 1
           /\ [i \in DOMAIN bs |-> Text(bs[i])] \in Seq(Word)
           /\ NonEmpty(ListOf(bs)) = [i \in DOMAIN bs |-> Text(bs[i])]
<1>1. PICK ts : ts = [i \in DOMAIN bs |-> Text(bs[i])]
  OBVIOUS
<1>2. ts \in Seq(Word) /\ Len(ts) = Len(bs)
  <2>1. \A i \in 1 .. Len(bs) : Text(bs[i]) \in Word
    <3>1. \A i \in 1 .. Len(bs) : bs[i] \in Int
      OBVIOUS
    <3> QED BY <3>1, WordsAre
  <2>2. DOMAIN bs = 1 .. Len(bs) /\ Len(bs) \in Nat
    OBVIOUS
  <2> QED BY <1>1, <2>1, <2>2
<1>3. PICK none : none = <<>>
  OBVIOUS
<1>4. none \in Plain(Blank) /\ ts \in Seq(Plain(Blank))
  <2>1. none \in Plain(Blank)
    BY <1>3 DEF Plain
  <2> QED BY <1>2, <2>1, BlankIs, SeqMonotonic
<1>5. ListOf(bs) = Append(ts, none)
  BY <1>1, <1>3 DEF ListOf
<1>6. ListOf(bs) \in Seq(Plain(Blank)) /\ ListOf(bs) # <<>> /\ Len(ListOf(bs)) = Len(bs) + 1
  BY <1>2, <1>4, <1>5, AppendOne
<1>7. NonEmpty(Append(ts, none)) = Cat(NonEmpty(ts), NonEmpty(<<none>>))
  BY <1>4, NonEmptyStep DEF Plain
<1>8. NonEmpty(<<none>>) = <<>>
  BY <1>3, <1>4, NonEmptyOne DEF Plain
<1>9. NonEmpty(ts) = ts
  BY <1>2, NonEmptyAll DEF Word
<1>10. Cat(ts, <<>>) = ts
  BY <1>2, CatFacts
<1> QED BY <1>1, <1>2, <1>5, <1>6, <1>7, <1>8, <1>9, <1>10

\* A block more at its head
LEMMA ListPushed ==
    ASSUME NEW bs \in Seq(Nat), NEW n \in Nat
    PROVE  ListOf(<<n>> \o bs) = <<Text(n)>> \o ListOf(bs)
<1>1. PICK ts : ts = [i \in DOMAIN bs |-> Text(bs[i])]
  OBVIOUS
<1>2. PICK cs : cs = <<n>> \o bs
  OBVIOUS
<1>3. cs \in Seq(Nat) /\ Len(cs) = Len(bs) + 1 /\ cs[1] = n
      /\ \A i \in 2 .. Len(bs) + 1 : cs[i] = bs[i - 1]
  BY <1>2
<1>4. PICK us : us = [i \in DOMAIN cs |-> Text(cs[i])]
  OBVIOUS
<1>5. ts \in Seq(Word) /\ us \in Seq(Word)
  BY <1>1, <1>3, <1>4, ListIs
<1>6. PICK x \in Word : x = Text(n)
  BY WordsAre
<1>7. us = <<x>> \o ts
  <2>1. PICK vs : vs = <<x>> \o ts
    OBVIOUS
  <2>2. vs \in Seq(Word) /\ Len(vs) = Len(ts) + 1 /\ vs[1] = x
        /\ \A i \in 2 .. Len(ts) + 1 : vs[i] = ts[i - 1]
    BY <1>5, <2>1
  <2>3. Len(ts) = Len(bs) /\ \A i \in 1 .. Len(bs) : ts[i] = Text(bs[i])
    BY <1>1
  <2>4. Len(us) = Len(cs) /\ \A i \in 1 .. Len(cs) : us[i] = Text(cs[i])
    BY <1>3, <1>4
  <2>5. ASSUME NEW i \in 1 .. Len(us) PROVE us[i] = vs[i]
    <3>1. CASE i = 1
      BY <1>3, <1>6, <2>2, <2>4, <3>1
    <3>2. CASE i # 1
      <4>1. i \in 2 .. Len(bs) + 1 /\ i - 1 \in 1 .. Len(bs) /\ i \in 1 .. Len(cs)
        BY <1>3, <2>4, <3>2
      <4>2. us[i] = Text(bs[i - 1]) /\ vs[i] = ts[i - 1]
        BY <1>3, <2>2, <2>3, <2>4, <4>1
      <4> QED BY <2>3, <4>1, <4>2
    <3> QED BY <3>1, <3>2
  <2>6. Len(us) = Len(vs)
    BY <1>3, <2>2, <2>3, <2>4
  <2> QED BY <1>5, <2>1, <2>2, <2>5, <2>6, SeqEqual
<1>8. PICK none : none = <<>>
  OBVIOUS
<1>9. ListOf(cs) = Append(us, none) /\ ListOf(bs) = Append(ts, none)
  BY <1>1, <1>4, <1>8 DEF ListOf
<1>10. Append(<<x>> \o ts, none) = <<x>> \o Append(ts, none)
  <2>1. none \in Seq(Char) /\ ts \in Seq(Seq(Char)) /\ x \in Seq(Char)
    <3>1. Word \subseteq Seq(Char)
      BY BlankIs, PlainIs
    <3> QED BY <1>5, <1>8, <3>1, SeqMonotonic
  <2> QED BY <2>1
<1> QED BY <1>2, <1>6, <1>7, <1>9, <1>10

\* The first block of the list
LEMMA PoolFirst ==
    ASSUME NEW bs \in Seq(Nat)
    PROVE  GetColumn(Joined(ListOf(bs)), 1, Blank) = IF bs = <<>> THEN <<>> ELSE Text(Head(bs))
<1>1. PICK ts : ts = [i \in DOMAIN bs |-> Text(bs[i])]
  OBVIOUS
<1>2. SeenColumns(Joined(ListOf(bs)), Blank) = ts
  BY <1>1, ListIs, JoinedIs
<1>3. DOMAIN ts = DOMAIN bs /\ \A i \in DOMAIN bs : ts[i] = Text(bs[i])
  BY <1>1
<1>4. GetColumn(Joined(ListOf(bs)), 1, Blank) = IF 1 \in DOMAIN ts THEN ts[1] ELSE <<>>
  BY <1>2 DEF GetColumn
<1>5. 1 \in DOMAIN bs <=> bs # <<>>
  BY EmptySeq
<1>6. bs # <<>> => bs[1] = Head(bs)
  BY HeadAndTail
<1> QED BY <1>3, <1>4, <1>5, <1>6

\* sys_sched_clean_pcb puts a block before the others
LEMMA PoolPushed ==
    ASSUME NEW bs \in Seq(Nat), NEW n \in Nat
    PROVE  Joined(ListOf(<<n>> \o bs)) = ConcatWith(Text(n), Joined(ListOf(bs)), Blank)
<1>1. PICK x \in Seq(Char) : x = Text(n)
  BY WordsAre, BlankIs, PlainIs
<1>2. PICK ts \in Seq(Seq(Char)) : ts = ListOf(bs) /\ ts # <<>>
  BY ListIs, PlainIs
<1>3. JoinedWith(<<x>> \o ts, Blank) = Cat(x, Cat(Blank, JoinedWith(ts, Blank)))
  <2>1. x \in Seq(Char) /\ ts \in Seq(Seq(Char)) /\ Blank \in Seq(Char)
    BY <1>1, <1>2, BlankIs
  <2> QED BY <1>2, <2>1, JoinedHead
<1>4. PICK j \in Seq(Char) : j = JoinedWith(ts, Blank)
  BY <1>2, BlankIs, JoinedType
<1>5. Cat(Cat(x, Blank), j) = Cat(x, Cat(Blank, j))
  <2>1. x \in Seq(Char) /\ j \in Seq(Char) /\ Blank \in Seq(Char)
    BY <1>1, <1>4, BlankIs
  <2> QED BY <2>1, CatFacts
<1>6. ConcatWith(x, j, Blank) = Cat(Cat(x, Blank), j)
  BY DEF ConcatWith, Cat
<1>7. ListOf(<<n>> \o bs) = <<x>> \o ts
  BY <1>1, <1>2, ListPushed
<1> QED BY <1>1, <1>2, <1>3, <1>4, <1>5, <1>6, <1>7 DEF Joined

\* sys_sched_process_load takes the first block away
LEMMA PoolShortened ==
    ASSUME NEW bs \in Seq(Nat), bs # <<>>
    PROVE  Shortened(Joined(ListOf(bs))) = Joined(ListOf(Tail(bs)))
<1>1. PICK x \in Seq(Char) : x = Text(Head(bs))
  <2>1. Head(bs) \in Int
    BY HeadAndTail
  <2> QED BY <2>1, WordsAre, BlankIs, PlainIs
<1>2. PICK ts \in Seq(Seq(Char)) : ts = ListOf(Tail(bs)) /\ ts # <<>>
  <2>1. Tail(bs) \in Seq(Nat)
    BY HeadAndTail
  <2> QED BY <2>1, ListIs, PlainIs
<1>3. ListOf(bs) = <<x>> \o ts
  <2>1. Head(bs) \in Nat /\ Tail(bs) \in Seq(Nat) /\ bs = <<Head(bs)>> \o Tail(bs)
    BY HeadAndTail
  <2> QED BY <1>1, <1>2, <2>1, ListPushed
<1>4. PICK none \in Seq(Char) : none = <<>>
  <2>1. <<>> \in Seq(Char)
    OBVIOUS
  <2> QED BY <2>1, Zenon
<1>5. ReplaceColumn(Joined(ListOf(bs)), 1, Blank, none) = JoinedWith(<<none>> \o ts, Blank)
  <2>1. Columns(Joined(ListOf(bs)), Blank) = <<x>> \o ts
    BY <1>3, ListIs, JoinedIs
  <2>2. 1 \in DOMAIN (<<x>> \o ts)
    OBVIOUS
  <2>3. [<<x>> \o ts EXCEPT ![1] = none] = <<none>> \o ts
    <3>1. PICK a, b : a = [<<x>> \o ts EXCEPT ![1] = none] /\ b = <<none>> \o ts
      OBVIOUS
    <3>2. PICK d : d = <<x>> \o ts
      OBVIOUS
    <3>3. d \in Seq(Seq(Char)) /\ Len(d) = Len(ts) + 1 /\ d[1] = x
          /\ \A i \in 2 .. Len(ts) + 1 : d[i] = ts[i - 1]
      BY <3>2
    <3>4. b \in Seq(Seq(Char)) /\ Len(b) = Len(ts) + 1 /\ b[1] = none
          /\ \A i \in 2 .. Len(ts) + 1 : b[i] = ts[i - 1]
      BY <3>1
    <3>5. 1 \in 1 .. Len(d) /\ a = [d EXCEPT ![1] = none]
      BY <3>1, <3>2, <3>3
    <3>6. a \in Seq(Seq(Char)) /\ Len(a) = Len(d)
          /\ \A i \in 1 .. Len(d) : a[i] = IF i = 1 THEN none ELSE d[i]
      BY <3>3, <3>5, ExceptSeq
    <3>7. ASSUME NEW i \in 1 .. Len(a) PROVE a[i] = b[i]
      <4>1. CASE i = 1
        BY <3>4, <3>5, <3>6, <4>1
      <4>2. CASE i # 1
        <5>1. i \in 2 .. Len(ts) + 1 /\ i \in 1 .. Len(d)
          BY <3>3, <3>6, <4>2
        <5> QED BY <3>3, <3>4, <3>6, <4>2, <5>1
      <4> QED BY <4>1, <4>2
    <3>8. Len(a) = Len(b)
      BY <3>3, <3>4, <3>6
    <3>9. a = b
      <4>1. a \in Seq(Seq(Char)) /\ b \in Seq(Seq(Char))
        BY <3>4, <3>6
      <4> QED BY <4>1, <3>7, <3>8, SeqEqual
    <3> QED BY <3>1, <3>9
  <2> QED BY <2>1, <2>2, <2>3, BlankIs DEF ReplaceColumn
<1>6. PICK j \in Seq(Char) : j = JoinedWith(ts, Blank)
  BY <1>2, BlankIs, JoinedType
<1>7. JoinedWith(<<none>> \o ts, Blank) = Cat(Blank, j)
  <2>1. JoinedWith(<<none>> \o ts, Blank) = Cat(none, Cat(Blank, j))
    <3>1. none \in Seq(Char) /\ ts \in Seq(Seq(Char)) /\ Blank \in Seq(Char)
      BY <1>2, <1>4, BlankIs
    <3> QED BY <1>2, <1>6, <3>1, JoinedHead
  <2>2. Cat(Blank, j) \in Seq(Char)
    BY BlankIs, CatFacts
  <2> QED BY <1>4, <2>1, <2>2, CatFacts
<1>8. PICK rest : rest = <<Space>> \o j
  OBVIOUS
<1>9. rest \in Seq(Char) /\ rest # <<>> /\ rest[1] = Space /\ Tail(rest) = j
  <2>1. rest \in Seq(Char) /\ Len(rest) = Len(j) + 1 /\ rest[1] = Space
    BY <1>8, BlankIs
  <2>2. rest # <<>>
    BY <2>1, EmptySeq
  <2>3. Tail(rest) = j
    BY <1>8, BlankIs
  <2> QED BY <2>1, <2>2, <2>3
<1>10. IsPrefix(<<Space>>, rest)
  BY <1>9, BlankIs, BeginsWith
<1>11. ReplaceColumn(Joined(ListOf(bs)), 1, Blank, <<>>) = rest
  BY <1>4, <1>5, <1>7, <1>8, BlankIs DEF Cat
<1>12. Shortened(Joined(ListOf(bs))) = j
  BY <1>9, <1>10, <1>11, BlankIs DEF Shortened
<1> QED BY <1>2, <1>6, <1>12 DEF Joined

-----------------------------------------------------------------------------
(* Reading a control block and setting its fields *)

\* Reading a control block gives the record it was made of
LEMMA BlockReads ==
    ASSUME NEW name \in Word, NEW r \in Record, NEW text, text = Joined(BlockOf(name, r))
    PROVE  /\ text \in Seq(Char) /\ text # Zero /\ Len(Columns(text, Blank)) = 15
           /\ GetColumn(text, PidColumn, Blank) = Text(r.pid)
           /\ GetColumn(text, StateColumn, Blank) = r.state
           /\ GetColumn(text, 8, Blank) = r.priority
           /\ GetColumn(text, StartColumn, Blank) = Text(r.start)
           /\ GetColumn(text, EndColumn, Blank) = Text(r.end)
           /\ GetColumn(text, PcColumn, Blank) = Text(r.pc)
<1>1. PICK ts : ts = BlockOf(name, r)
  OBVIOUS
<1>2. ts \in Seq(Word) /\ Len(ts) = 15
      /\ ts[PidColumn] = Text(r.pid) /\ ts[StateColumn] = r.state /\ ts[8] = r.priority
      /\ ts[StartColumn] = Text(r.start) /\ ts[EndColumn] = Text(r.end)
      /\ ts[PcColumn] = Text(r.pc)
  BY <1>1, BlockIs
<1>3. \A n \in 1 .. 15 : GetColumn(text, n, Blank) = ts[n]
  BY <1>1, <1>2, WordsAre, FieldsOfJoined
<1>4. text \in Seq(Char) /\ Columns(text, Blank) = ts
  <2>1. ts \in Seq(Plain(Blank)) /\ ts # <<>>
    <3>1. ts \in Seq(Plain(Blank))
      BY <1>2, BlankIs, SeqMonotonic
    <3>2. Len(ts) # Len(<<>>)
      BY <1>2
    <3> QED BY <3>1, <3>2
  <2> QED BY <1>1, <2>1, JoinedIs
<1>5. text # Zero
  <2>1. Columns(Zero, Blank) = <<Zero>>
    BY WordsAre, BlankIs, ColumnsPlain
  <2>2. PICK one : one = <<Zero>>
    OBVIOUS
  <2>3. Len(one) = 1
    BY <2>2
  <2>4. Len(Columns(Zero, Blank)) = 1
    BY <2>1, <2>2, <2>3, Zenon
  <2>5. Len(Columns(text, Blank)) = 15
    BY <1>2, <1>4, Zenon
  <2>6. Len(Columns(text, Blank)) # Len(Columns(Zero, Blank))
    BY <2>4, <2>5
  <2> QED BY <2>6, Zenon
<1> QED BY <1>2, <1>3, <1>4, <1>5
        DEF PidColumn, StateColumn, StartColumn, EndColumn, PcColumn

\* Setting its state gives the control block of the changed record
LEMMA StateIsSet ==
    ASSUME NEW name \in Word, NEW r \in Record, NEW v \in {Ready, Pause}
    PROVE  ReplaceColumn(Joined(BlockOf(name, r)), StateColumn, Blank, v)
             = Joined(BlockOf(name, [r EXCEPT !.state = v]))
<1>1. PICK ts : ts = BlockOf(name, r)
  OBVIOUS
<1>2. ts \in Seq(Word) /\ Len(ts) = 15 /\ StateColumn \in 1 .. 15
  BY <1>1, BlockIs DEF StateColumn
<1>3. v \in Word
  BY WordsAre
<1>4. ReplaceColumn(Joined(ts), StateColumn, Blank, v) = Joined([ts EXCEPT ![StateColumn] = v])
  BY <1>2, <1>3, FieldsOfJoined
<1>5. BlockOf(name, [r EXCEPT !.state = v]) = [ts EXCEPT ![StateColumn] = v]
  BY <1>1, <1>3, BlockChanges
<1> QED BY <1>1, <1>4, <1>5

\* And so does setting its program counter
LEMMA PcIsSet ==
    ASSUME NEW name \in Word, NEW r \in Record, NEW n \in Nat
    PROVE  ReplaceColumn(Joined(BlockOf(name, r)), PcColumn, Blank, Text(n))
             = Joined(BlockOf(name, [r EXCEPT !.pc = n]))
<1>1. PICK ts : ts = BlockOf(name, r)
  OBVIOUS
<1>2. ts \in Seq(Word) /\ Len(ts) = 15 /\ PcColumn \in 1 .. 15
  BY <1>1, BlockIs DEF PcColumn
<1>3. Text(n) \in Word
  BY WordsAre
<1>4. ReplaceColumn(Joined(ts), PcColumn, Blank, Text(n))
        = Joined([ts EXCEPT ![PcColumn] = Text(n)])
  BY <1>2, <1>3, FieldsOfJoined
<1>5. BlockOf(name, [r EXCEPT !.pc = n]) = [ts EXCEPT ![PcColumn] = Text(n)]
  <2>1. BlockOf(name, [r EXCEPT !.pc = n]) = [BlockOf(name, r) EXCEPT ![PcColumn] = Text(n)]
    BY BlockChanges
  <2> QED BY <1>1, <2>1
<1> QED BY <1>1, <1>4, <1>5

-----------------------------------------------------------------------------
(* The texts and what they stand for *)

\* A control block is free, or made of the record beside it
HoldsRecord(text, r) ==
    \/ text = Zero /\ r = NoRecord
    \/ r \in Record /\ \E name \in Word : text = Joined(BlockOf(name, r))

\* The numbers of a record, if there is one: b processes were loaded, and memory
\* was handed out up to f
RecordBounds(r, b, f) ==
    r # NoRecord =>
       r.pid <= b /\ r.end = r.start + BlockLen /\ r.end < f /\ r.pc <= MaxInt

\* The texts are made from the records and from the stack, and the blocks are
\* below the fresh memory, which grows with the processes loaded.
ControlBlocksInv ==
    /\ pcb \in [Slot -> Seq(Char)] /\ record \in [Slot -> Record \cup {NoRecord}]
    /\ \A s \in Slot : HoldsRecord(pcb[s], record[s])
    /\ \A s \in Slot : RecordBounds(record[s], born, fresh)
    /\ blocks \in Seq(Nat) /\ pool = Joined(ListOf(blocks))
    /\ \A i \in 1 .. Len(blocks) : blocks[i] + BlockLen < fresh
    /\ born \in 0 .. MaxPid /\ fresh \in Nat
    /\ fresh <= FirstBlock + born * (BlockLen + 1)

\* Names and priorities are columns: an empty priority, or one with a blank in
\* it, moves the columns behind it
GivenAsWords == Name \cup Priority \subseteq Word

-----------------------------------------------------------------------------
(* The steps of the kernel on its texts *)

\* A process that is loaded finds numbers that an int can hold
LEMMA BoundsOfBlocks ==
    ASSUME NEW b \in 0 .. MaxPid, NEW f \in Nat, f <= FirstBlock + b * (BlockLen + 1)
    PROVE  /\ b <= MaxInt /\ f <= MaxInt /\ BlockLen \in Nat /\ MaxInt \in Nat
           /\ f + BlockLen + 1 <= FirstBlock + (b + 1) * (BlockLen + 1)
<1> DEFINE K == BlockLen + 1
<1>1. MaxPid \in Nat /\ FirstBlock \in Nat /\ K \in Nat /\ MaxPid <= MaxInt /\ MaxInt \in Nat
      /\ FirstBlock + MaxPid * K <= MaxInt /\ BlockLen \in Nat
  BY ControlBlocksConstants, TextsConstants
<1>2. b * K <= MaxPid * K /\ (b + 1) * K = b * K + K /\ b * K \in Nat /\ MaxPid * K \in Nat
  <2> HIDE DEF K
  <2> QED BY <1>1
<1> QED BY <1>1, <1>2

\* What a slot holds
LEMMA SlotHolds ==
    ASSUME ControlBlocksInv, NEW s \in Slot
    PROVE  /\ pcb[s] = Zero <=> record[s] = NoRecord
           /\ pcb[s] # Zero =>
                 /\ record[s] \in Record /\ RecordBounds(record[s], born, fresh)
                 /\ \E name \in Word : pcb[s] = Joined(BlockOf(name, record[s]))
<1>1. HoldsRecord(pcb[s], record[s]) /\ RecordBounds(record[s], born, fresh)
  BY DEF ControlBlocksInv
<1>2. NoRecord \notin Record
  BY DEF Record, NoRecord
<1>3. CASE pcb[s] = Zero /\ record[s] = NoRecord
  BY <1>3
<1>4. ASSUME record[s] \in Record, NEW name \in Word, pcb[s] = Joined(BlockOf(name, record[s]))
      PROVE  pcb[s] # Zero /\ record[s] # NoRecord
  BY <1>2, <1>4, BlockReads
<1> QED BY <1>1, <1>3, <1>4 DEF HoldsRecord

\* No process, no block
LEMMA ControlBlocksStart == BInit => ControlBlocksInv
<1> SUFFICES ASSUME BInit PROVE ControlBlocksInv
  OBVIOUS
<1>1. pcb = [s \in Slot |-> Zero] /\ pool = <<>> /\ fresh = FirstBlock /\ born = 0
      /\ record = [s \in Slot |-> NoRecord] /\ blocks = <<>>
  BY DEF BInit
<1>2. Zero \in Seq(Char)
  BY WordsAre, BlankIs, PlainIs
<1>3. pool = Joined(ListOf(blocks))
  <2>1. PICK none : none = <<>>
    OBVIOUS
  <2>2. none \in Seq(Char)
    BY <2>1
  <2>3. ListOf(<<>>) = <<none>>
    BY <2>1 DEF ListOf
  <2>4. JoinedWith(Append(none, none), Blank) = IF none = <<>> THEN none ELSE Cat(JoinedWith(none, Blank), Cat(Blank, none))
    <3>1. none \in Seq(Seq(Char))
      BY <2>1
    <3>2. none \in Seq(Char) /\ none \in Seq(Seq(Char)) /\ Blank \in Seq(Char)
      BY <2>2, <3>1, BlankIs
    <3> QED BY <3>2, JoinedAppend
  <2>5. Append(none, none) = <<none>>
    BY <2>1
  <2> QED BY <1>1, <2>1, <2>3, <2>4, <2>5 DEF Joined
<1>4. \A s \in Slot : HoldsRecord(pcb[s], record[s]) /\ RecordBounds(record[s], born, fresh)
  BY <1>1 DEF HoldsRecord, RecordBounds
<1>5. born \in 0 .. MaxPid /\ fresh \in Nat /\ fresh <= FirstBlock + born * (BlockLen + 1)
  BY <1>1, ControlBlocksConstants
<1>6. blocks \in Seq(Nat) /\ \A i \in 1 .. Len(blocks) : blocks[i] + BlockLen < fresh
  BY <1>1
<1> QED BY <1>1, <1>2, <1>3, <1>4, <1>5, <1>6 DEF ControlBlocksInv

\* A field is set in the text and in the record
LEMMA SetKeeps ==
    ASSUME ControlBlocksInv, NEW s \in Slot, NEW name \in Word, NEW r \in Record,
           RecordBounds(r, born, fresh), UNCHANGED <<pool, fresh, born, blocks>>,
           pcb' = [pcb EXCEPT ![s] = Joined(BlockOf(name, r))],
           record' = [record EXCEPT ![s] = r]
    PROVE  ControlBlocksInv'
<1>1. PICK text : text = Joined(BlockOf(name, r))
  OBVIOUS
<1>5. text \in Seq(Char)
  BY <1>1, BlockReads
<1>6. pcb \in [Slot -> Seq(Char)] /\ record \in [Slot -> Record \cup {NoRecord}]
  BY DEF ControlBlocksInv
<1>7. pcb' = [pcb EXCEPT ![s] = text]
  BY <1>1
<1>8. pcb' \in [Slot -> Seq(Char)] /\ record' \in [Slot -> Record \cup {NoRecord}]
      /\ pcb'[s] = text /\ record'[s] = r
      /\ \A u \in Slot : u # s => pcb'[u] = pcb[u] /\ record'[u] = record[u]
  BY <1>5, <1>6, <1>7
<1>9. \A u \in Slot : HoldsRecord(pcb'[u], record'[u])
  <2> SUFFICES ASSUME NEW u \in Slot PROVE HoldsRecord(pcb'[u], record'[u])
    OBVIOUS
  <2>1. CASE u = s
    BY <1>1, <1>8, <2>1 DEF HoldsRecord
  <2>2. CASE u # s
    BY <1>8, <2>2 DEF ControlBlocksInv
  <2> QED BY <2>1, <2>2
<1>10. \A u \in Slot : RecordBounds(record'[u], born', fresh')
  <2> SUFFICES ASSUME NEW u \in Slot PROVE RecordBounds(record'[u], born', fresh')
    OBVIOUS
  <2>1. born' = born /\ fresh' = fresh
    OBVIOUS
  <2>2. CASE u = s
    BY <1>8, <2>1, <2>2
  <2>3. CASE u # s
    BY <1>8, <2>1, <2>3 DEF ControlBlocksInv
  <2> QED BY <2>2, <2>3
<1> QED BY <1>8, <1>9, <1>10 DEF ControlBlocksInv

\* A state, and a program counter, are set
LEMMA FieldsAreSet ==
    ASSUME ControlBlocksInv, SetState \/ SavePc
    PROVE  ControlBlocksInv'
<1>0. ASSUME NEW s \in Slot \ FreeSlots
      PROVE  /\ s \in Slot /\ record[s] \in Record /\ RecordBounds(record[s], born, fresh)
             /\ NoRecord \notin Record
             /\ \E name \in Word : pcb[s] = Joined(BlockOf(name, record[s]))
  <2>1. s \in Slot /\ pcb[s] # Zero
    BY DEF FreeSlots
  <2>2. NoRecord \notin Record
    BY DEF Record, NoRecord
  <2> QED BY <2>1, <2>2, SlotHolds
<1>1. CASE SetState
  <2>1. PICK s \in Slot \ FreeSlots, v \in {Ready, Pause} :
            SetField(s, StateColumn, v) /\ record' = [record EXCEPT ![s].state = v]
    BY <1>1 DEF SetState
  <2>2. PICK r : r = [record[s] EXCEPT !.state = v]
    OBVIOUS
  <2>3. s \in Slot \ FreeSlots /\ v \in {Ready, Pause}
    BY <2>1
  <2>4. record[s] \in Record /\ RecordBounds(record[s], born, fresh) /\ NoRecord \notin Record
    BY <1>0, <2>3
  <2>5. r \in Record /\ r.pid = record[s].pid /\ r.start = record[s].start
        /\ r.end = record[s].end /\ r.pc = record[s].pc
    BY <2>2, <2>3, <2>4 DEF Record
  <2>6. RecordBounds(r, born, fresh)
    BY <2>4, <2>5 DEF RecordBounds
  <2>7. record' = [record EXCEPT ![s] = r]
    BY <2>1, <2>2
  <2>8. PICK name \in Word : pcb[s] = Joined(BlockOf(name, record[s]))
    BY <1>0, <2>3
  <2>9. ReplaceColumn(pcb[s], StateColumn, Blank, v) = Joined(BlockOf(name, r))
    <3>1. ReplaceColumn(Joined(BlockOf(name, record[s])), StateColumn, Blank, v)
             = Joined(BlockOf(name, [record[s] EXCEPT !.state = v]))
      BY <2>3, <2>4, <2>8, StateIsSet
    <3> QED BY <2>2, <2>8, <3>1
  <2>10. pcb' = [pcb EXCEPT ![s] = Joined(BlockOf(name, r))]
    BY <2>1, <2>9 DEF SetField
  <2>11. UNCHANGED <<pool, fresh, born, blocks>>
    BY <1>1 DEF SetState
  <2>12. s \in Slot /\ r \in Record /\ name \in Word
    BY <1>0, <2>3, <2>5, <2>8
  <2> QED BY <2>6, <2>7, <2>10, <2>11, <2>12, SetKeeps
<1>2. CASE SavePc
  <2>1. PICK s \in Slot \ FreeSlots, n \in Counter :
            SetField(s, PcColumn, Text(n)) /\ record' = [record EXCEPT ![s].pc = n]
    BY <1>2 DEF SavePc
  <2>2. PICK r : r = [record[s] EXCEPT !.pc = n]
    OBVIOUS
  <2>3. s \in Slot \ FreeSlots /\ n \in Nat /\ n <= MaxInt
    BY <2>1, ControlBlocksConstants, TextsConstants
  <2>4. record[s] \in Record /\ RecordBounds(record[s], born, fresh) /\ NoRecord \notin Record
    BY <1>0, <2>3
  <2>5. r \in Record /\ r.pid = record[s].pid /\ r.start = record[s].start
        /\ r.end = record[s].end /\ r.pc = n
    BY <2>2, <2>3, <2>4 DEF Record
  <2>6. RecordBounds(r, born, fresh)
    BY <2>3, <2>4, <2>5 DEF RecordBounds
  <2>7. record' = [record EXCEPT ![s] = r]
    BY <2>1, <2>2
  <2>8. PICK name \in Word : pcb[s] = Joined(BlockOf(name, record[s]))
    BY <1>0, <2>3
  <2>9. ReplaceColumn(pcb[s], PcColumn, Blank, Text(n)) = Joined(BlockOf(name, r))
    <3>1. ReplaceColumn(Joined(BlockOf(name, record[s])), PcColumn, Blank, Text(n))
             = Joined(BlockOf(name, [record[s] EXCEPT !.pc = n]))
      BY <2>3, <2>4, <2>8, PcIsSet
    <3> QED BY <2>2, <2>8, <3>1
  <2>10. pcb' = [pcb EXCEPT ![s] = Joined(BlockOf(name, r))]
    BY <2>1, <2>9 DEF SetField
  <2>11. UNCHANGED <<pool, fresh, born, blocks>>
    BY <1>2 DEF SavePc
  <2>12. s \in Slot /\ r \in Record /\ name \in Word
    BY <1>0, <2>3, <2>5, <2>8
  <2> QED BY <2>6, <2>7, <2>10, <2>11, <2>12, SetKeeps
<1> QED BY <1>1, <1>2

\* A slot is emptied and its block goes back to the list
LEMMA CleanKeeps ==
    ASSUME ControlBlocksInv, Clean
    PROVE  ControlBlocksInv'
<1>1. PICK s \in Slot \ FreeSlots :
         /\ pool' = ConcatWith(Field(s, StartColumn), pool, Blank)
         /\ pcb' = [pcb EXCEPT ![s] = Zero]
         /\ blocks' = <<record[s].start>> \o blocks
         /\ record' = [record EXCEPT ![s] = NoRecord]
  BY DEF Clean
<1>2. s \in Slot /\ pcb[s] # Zero
  BY <1>1 DEF FreeSlots
<1>3. record[s] \in Record /\ RecordBounds(record[s], born, fresh)
  BY <1>2, SlotHolds
<1>4. PICK name \in Word : pcb[s] = Joined(BlockOf(name, record[s]))
  BY <1>2, SlotHolds
<1>5. PICK n : n = record[s].start
  OBVIOUS
<1>6. n \in Nat /\ n + BlockLen < fresh
  <2>1. record[s] # NoRecord
    BY <1>3 DEF Record, NoRecord
  <2> QED BY <1>3, <1>5, <2>1 DEF Record, RecordBounds
<1>7. Field(s, StartColumn) = Text(n)
  BY <1>3, <1>4, <1>5, BlockReads DEF Field
<1>8. blocks \in Seq(Nat) /\ pool = Joined(ListOf(blocks)) /\ fresh \in Nat
      /\ \A i \in 1 .. Len(blocks) : blocks[i] + BlockLen < fresh
  BY DEF ControlBlocksInv
<1>9. born' = born /\ fresh' = fresh
  BY DEF Clean
<1>10. pool' = Joined(ListOf(blocks'))
  BY <1>1, <1>5, <1>6, <1>7, <1>8, PoolPushed
<1>11. blocks' \in Seq(Nat) /\ \A i \in 1 .. Len(blocks') : blocks'[i] + BlockLen < fresh'
  <2>1. blocks' = <<n>> \o blocks
    BY <1>1, <1>5
  <2>2. blocks' \in Seq(Nat) /\ Len(blocks') = Len(blocks) + 1 /\ blocks'[1] = n
        /\ \A i \in 2 .. Len(blocks) + 1 : blocks'[i] = blocks[i - 1]
    BY <1>6, <1>8, <2>1
  <2>3. ASSUME NEW i \in 1 .. Len(blocks') PROVE blocks'[i] + BlockLen < fresh
    <3>1. CASE i = 1
      BY <1>6, <2>2, <3>1
    <3>2. CASE i # 1
      <4>1. i \in 2 .. Len(blocks) + 1 /\ i - 1 \in 1 .. Len(blocks)
        BY <1>8, <2>2, <3>2
      <4> QED BY <1>8, <2>2, <4>1
    <3> QED BY <3>1, <3>2
  <2> QED BY <1>9, <2>2, <2>3
<1>12. pcb \in [Slot -> Seq(Char)] /\ record \in [Slot -> Record \cup {NoRecord}]
  BY DEF ControlBlocksInv
<1>13. Zero \in Seq(Char)
  BY WordsAre, BlankIs, PlainIs
<1>14. pcb' \in [Slot -> Seq(Char)] /\ record' \in [Slot -> Record \cup {NoRecord}]
       /\ \A u \in Slot : IF u = s THEN pcb'[u] = Zero /\ record'[u] = NoRecord
                          ELSE pcb'[u] = pcb[u] /\ record'[u] = record[u]
  BY <1>1, <1>12, <1>13
<1>15. \A u \in Slot : HoldsRecord(pcb'[u], record'[u]) /\ RecordBounds(record'[u], born', fresh')
  <2> SUFFICES ASSUME NEW u \in Slot
               PROVE  HoldsRecord(pcb'[u], record'[u]) /\ RecordBounds(record'[u], born', fresh')
    OBVIOUS
  <2>1. CASE u = s
    BY <1>14, <2>1 DEF HoldsRecord, RecordBounds
  <2>2. CASE u # s
    BY <1>9, <1>14, <2>2 DEF ControlBlocksInv
  <2> QED BY <2>1, <2>2
<1> QED BY <1>9, <1>10, <1>11, <1>14, <1>15 DEF ControlBlocksInv

\* A slot is filled, with a block of the list or with fresh memory
LEMMA LoadKeeps ==
    ASSUME GivenAsWords, ControlBlocksInv, Load
    PROVE  ControlBlocksInv'
<1> DEFINE start == IF blocks = <<>> THEN fresh ELSE Head(blocks)
<1>1. FirstFree \in Slot
  <2>1. FreeSlots # {} /\ FreeSlots \subseteq Nat
    BY DEF Load, FreeSlots, Slot
  <2>2. FirstFree \in FreeSlots
    BY <2>1, LeastElement DEF FirstFree
  <2> QED BY <2>2 DEF FreeSlots
<1>2. blocks \in Seq(Nat) /\ pool = Joined(ListOf(blocks)) /\ fresh \in Nat
      /\ born \in 0 .. MaxPid /\ fresh <= FirstBlock + born * (BlockLen + 1)
      /\ \A i \in 1 .. Len(blocks) : blocks[i] + BlockLen < fresh
  BY DEF ControlBlocksInv
<1>0. pcb \in [Slot -> Seq(Char)] /\ record \in [Slot -> Record \cup {NoRecord}]
  BY DEF ControlBlocksInv
<1>3. FirstOfPool = IF blocks = <<>> THEN <<>> ELSE Text(Head(blocks))
  BY <1>2, PoolFirst DEF FirstOfPool
<1>4. blocks # <<>> => Head(blocks) \in Nat /\ Tail(blocks) \in Seq(Nat)
         /\ Head(blocks) + BlockLen < fresh
         /\ \A i \in 1 .. Len(Tail(blocks)) : Tail(blocks)[i] + BlockLen < fresh
  <2> SUFFICES ASSUME blocks # <<>>
               PROVE  Head(blocks) \in Nat /\ Tail(blocks) \in Seq(Nat)
                      /\ Head(blocks) + BlockLen < fresh
                      /\ \A i \in 1 .. Len(Tail(blocks)) : Tail(blocks)[i] + BlockLen < fresh
    OBVIOUS
  <2>1. Head(blocks) \in Nat /\ Tail(blocks) \in Seq(Nat) /\ Head(blocks) = blocks[1]
        /\ 1 \in 1 .. Len(blocks) /\ Len(Tail(blocks)) = Len(blocks) - 1
        /\ \A i \in 1 .. Len(blocks) - 1 : Tail(blocks)[i] = blocks[i + 1]
    BY <1>2, HeadAndTail
  <2>2. ASSUME NEW i \in 1 .. Len(Tail(blocks)) PROVE Tail(blocks)[i] + BlockLen < fresh
    <3>1. i \in 1 .. Len(blocks) - 1 /\ i + 1 \in 1 .. Len(blocks)
      BY <2>1
    <3> QED BY <1>2, <2>1, <3>1
  <2> QED BY <1>2, <2>1, <2>2
<1>5. FirstOfPool = <<>> <=> blocks = <<>>
  <2>1. blocks # <<>> => Text(Head(blocks)) # <<>>
    BY <1>4, TextHasNoBlank
  <2> QED BY <1>3, <2>1
<1>6. (IF FirstOfPool = <<>> THEN fresh ELSE Number(FirstOfPool)) = start
  <2>1. blocks # <<>> => Number(Text(Head(blocks))) = Head(blocks)
    BY <1>4, TextIs
  <2> QED BY <1>3, <1>5, <2>1
<1>7. PICK name \in Name, priority \in Priority :
          /\ pcb' = [pcb EXCEPT ![FirstFree] = NewBlock(born + 1, name, priority, start)]
          /\ record' = [record EXCEPT ![FirstFree] =
                          [pid |-> born + 1, state |-> Ready, priority |-> priority,
                           start |-> start, end |-> start + BlockLen, pc |-> Entry]]
  <2> HIDE DEF start
  <2>1. PICK name \in Name, priority \in Priority :
          /\ pcb' = [pcb EXCEPT ![FirstFree] =
                NewBlock(born + 1, name, priority,
                         IF FirstOfPool = <<>> THEN fresh ELSE Number(FirstOfPool))]
          /\ record' = [record EXCEPT ![FirstFree] =
                          [pid |-> born + 1, state |-> Ready, priority |-> priority,
                           start |-> start, end |-> start + BlockLen, pc |-> Entry]]
    BY DEF Load, start
  <2> QED BY <1>6, <2>1
<1>w. name \in Word /\ priority \in Word
  BY <1>7 DEF GivenAsWords
<1>8. born' = born + 1 /\ born < MaxPid
  BY DEF Load
<1>9. /\ fresh' = IF blocks = <<>> THEN fresh + BlockLen + 1 ELSE fresh
      /\ pool' = IF blocks = <<>> THEN pool ELSE Shortened(pool)
      /\ blocks' = IF blocks = <<>> THEN <<>> ELSE Tail(blocks)
  BY <1>5 DEF Load
<1>10. BlockLen \in Nat /\ MaxInt \in Nat /\ MaxPid \in Nat /\ Entry \in Nat /\ Entry <= MaxInt
       /\ FirstBlock \in Nat
  BY ControlBlocksConstants, TextsConstants
<1>11. start \in Nat /\ start + BlockLen < fresh' /\ fresh' \in Nat /\ fresh <= fresh'
  BY <1>2, <1>4, <1>9, <1>10
<1>12. born' \in 0 .. MaxPid /\ fresh' <= FirstBlock + born' * (BlockLen + 1)
  <2>1. fresh + BlockLen + 1 <= FirstBlock + (born + 1) * (BlockLen + 1)
    BY <1>2, BoundsOfBlocks
  <2>2. born' \in 0 .. MaxPid
    BY <1>2, <1>8, <1>10
  <2>3. fresh' <= fresh + BlockLen + 1
    BY <1>2, <1>9, <1>10
  <2>4. (born + 1) * (BlockLen + 1) \in Nat
    <3>1. PICK m \in Nat, k \in Nat : m = born + 1 /\ k = BlockLen + 1
      BY <1>2, <1>10
    <3>2. m * k \in Nat
      BY <3>1
    <3> QED BY <3>1, <3>2
  <2> QED BY <1>2, <1>8, <1>10, <1>11, <2>1, <2>2, <2>3, <2>4
<1>13. blocks' \in Seq(Nat) /\ \A i \in 1 .. Len(blocks') : blocks'[i] + BlockLen < fresh'
  BY <1>2, <1>4, <1>9, <1>10
<1>14. pool' = Joined(ListOf(blocks'))
  <2>1. CASE blocks = <<>>
    BY <1>2, <1>9, <2>1
  <2>2. CASE blocks # <<>>
    BY <1>2, <1>9, <2>2, PoolShortened
  <2> QED BY <2>1, <2>2
<1> HIDE DEF start
<1>15. PICK r : r = [pid |-> born + 1, state |-> Ready, priority |-> priority,
                     start |-> start, end |-> start + BlockLen, pc |-> Entry]
  OBVIOUS
<1>16. PICK text : text = NewBlock(born + 1, name, priority, start)
  OBVIOUS
<1>17. r \in Record /\ RecordBounds(r, born', fresh')
  <2>1. r \in Record
    BY <1>2, <1>10, <1>11, <1>15, <1>w DEF Record
  <2> QED BY <1>8, <1>10, <1>11, <1>15, <2>1 DEF RecordBounds
<1>18. text = Joined(BlockOf(name, r))
  BY <1>15, <1>16, <1>w, NewBlockIs
<1>19. text \in Seq(Char)
  BY <1>17, <1>18, <1>w, BlockReads
<1>20. pcb' \in [Slot -> Seq(Char)] /\ record' \in [Slot -> Record \cup {NoRecord}]
       /\ \A u \in Slot : IF u = FirstFree THEN pcb'[u] = text /\ record'[u] = r
                          ELSE pcb'[u] = pcb[u] /\ record'[u] = record[u]
  <2>1. pcb' = [pcb EXCEPT ![FirstFree] = text] /\ record' = [record EXCEPT ![FirstFree] = r]
    BY <1>7, <1>15, <1>16
  <2>2. r \in Record
    BY <1>17
  <2> QED BY <1>0, <1>1, <1>19, <2>1, <2>2
<1>21. \A u \in Slot : HoldsRecord(pcb'[u], record'[u]) /\ RecordBounds(record'[u], born', fresh')
  <2> SUFFICES ASSUME NEW u \in Slot
               PROVE  HoldsRecord(pcb'[u], record'[u]) /\ RecordBounds(record'[u], born', fresh')
    OBVIOUS
  <2>1. CASE u = FirstFree
    BY <1>17, <1>18, <1>20, <1>w, <2>1 DEF HoldsRecord
  <2>2. CASE u # FirstFree
    <3>1. HoldsRecord(pcb[u], record[u]) /\ RecordBounds(record[u], born, fresh)
      BY DEF ControlBlocksInv
    <3>2. RecordBounds(record[u], born', fresh')
      <4>1. record[u] \in Record \cup {NoRecord}
        BY <1>0
      <4> QED BY <1>2, <1>8, <1>11, <3>1, <4>1 DEF RecordBounds, Record
    <3> QED BY <1>20, <2>2, <3>1, <3>2
  <2> QED BY <2>1, <2>2
<1> QED BY <1>11, <1>12, <1>13, <1>14, <1>20, <1>21 DEF ControlBlocksInv

-----------------------------------------------------------------------------
(* What the kernel may rely on *)

\* Every step keeps the texts and the records together
LEMMA ControlBlocksStep ==
    ASSUME GivenAsWords, ControlBlocksInv, [BNext]_bvars
    PROVE  ControlBlocksInv'
<1>1. CASE Load
  BY <1>1, LoadKeeps
<1>2. CASE SetState \/ SavePc
  BY <1>2, FieldsAreSet
<1>3. CASE Clean
  BY <1>3, CleanKeeps
<1>4. CASE UNCHANGED bvars
  BY <1>4 DEF ControlBlocksInv, bvars
<1> QED BY <1>1, <1>2, <1>3, <1>4 DEF BNext

\* So they are always together
LEMMA ControlBlocksAlways ==
    ASSUME GivenAsWords
    PROVE  BSpec => []ControlBlocksInv
<1>1. ControlBlocksInv /\ [BNext]_bvars => ControlBlocksInv'
  BY ControlBlocksStep
<1> QED BY <1>1, ControlBlocksStart, PTL DEF BSpec

\* What the kernel reads is what it wrote
LEMMA TextsAreRead == ControlBlocksInv => TextsHoldRecords
<1> SUFFICES ASSUME ControlBlocksInv, NEW s \in Slot PROVE Read(s) = record[s]
  BY DEF TextsHoldRecords
<1>1. CASE pcb[s] = Zero
  BY <1>1, SlotHolds DEF Read
<1>2. CASE pcb[s] # Zero
  <2>1. PICK r : r = record[s]
    OBVIOUS
  <2>2. r \in Record
    BY <1>2, <2>1, SlotHolds
  <2>3. PICK name \in Word : pcb[s] = Joined(BlockOf(name, r))
    BY <1>2, <2>1, SlotHolds
  <2>4. /\ Field(s, PidColumn) = Text(r.pid) /\ Field(s, StateColumn) = r.state
        /\ Field(s, 8) = r.priority /\ Field(s, StartColumn) = Text(r.start)
        /\ Field(s, EndColumn) = Text(r.end) /\ Field(s, 14) = Text(r.pc)
    BY <2>2, <2>3, BlockReads DEF Field, PcColumn
  <2>5. r.pid \in Int /\ r.start \in Int /\ r.end \in Int /\ r.pc \in Int
    BY <2>2 DEF Record
  <2>6. Number(Text(r.pid)) = r.pid /\ Number(Text(r.start)) = r.start
        /\ Number(Text(r.end)) = r.end /\ Number(Text(r.pc)) = r.pc
    BY <2>5, TextIs
  <2>7. Read(s) = [pid |-> r.pid, state |-> r.state, priority |-> r.priority,
                   start |-> r.start, end |-> r.end, pc |-> r.pc]
    BY <1>2, <2>4, <2>6 DEF Read
  <2>8. [pid |-> r.pid, state |-> r.state, priority |-> r.priority,
         start |-> r.start, end |-> r.end, pc |-> r.pc] = r
    BY <2>2 DEF Record
  <2> QED BY <2>1, <2>7, <2>8
<1> QED BY <1>1, <1>2

\* The list is seen as the stack, with at most one column more than it has blocks
LEMMA ListIsStack == ControlBlocksInv => TextHoldsStack
<1> SUFFICES ASSUME ControlBlocksInv PROVE TextHoldsStack
  OBVIOUS
<1>1. blocks \in Seq(Nat) /\ pool = Joined(ListOf(blocks))
  BY DEF ControlBlocksInv
<1>2. ListOf(blocks) \in Seq(Plain(Blank)) /\ ListOf(blocks) # <<>>
      /\ Len(ListOf(blocks)) = Len(blocks) + 1
      /\ NonEmpty(ListOf(blocks)) = [i \in DOMAIN blocks |-> Text(blocks[i])]
  BY <1>1, ListIs
<1>3. Columns(pool, Blank) = ListOf(blocks)
      /\ SeenColumns(pool, Blank) = NonEmpty(ListOf(blocks))
  BY <1>1, <1>2, JoinedIs
<1>4. Len(blocks) + 1 <= Len(blocks) + 1
  BY <1>1
<1> QED BY <1>2, <1>3, <1>4 DEF TextHoldsStack

\* A number that is not negative, up to the largest int, is written as one that
\* std::stoi accepts
LEMMA TextFits ==
    ASSUME NEW n \in Nat, n <= MaxInt
    PROVE  IsInt(Text(n))
<1>1. n \in Int32
  BY TextsConstants DEF Int32
<1> QED BY <1>1, TextIs

\* The texts have the form that the kernel relies on
LEMMA TextsHaveForm == ControlBlocksInv => ControlBlocksTypeOK
<1> SUFFICES ASSUME ControlBlocksInv PROVE ControlBlocksTypeOK
  OBVIOUS
<1>1. blocks \in Seq(Nat) /\ born \in 0 .. MaxPid /\ fresh \in Nat
      /\ fresh <= FirstBlock + born * (BlockLen + 1)
      /\ \A i \in 1 .. Len(blocks) : blocks[i] + BlockLen < fresh
  BY DEF ControlBlocksInv
<1>2. born <= MaxInt /\ fresh <= MaxInt /\ BlockLen \in Nat /\ MaxInt \in Nat
  BY <1>1, BoundsOfBlocks
<1>3. ASSUME NEW s \in Slot \ FreeSlots
      PROVE  /\ \A c \in {PidColumn, StartColumn, EndColumn, PcColumn} : IsInt(Field(s, c))
             /\ Len(Columns(pcb[s], Blank)) = 15
  <2>0. s \in Slot /\ pcb[s] # Zero
    BY DEF FreeSlots
  <2>1. PICK r : r = record[s]
    OBVIOUS
  <2>2. r \in Record /\ RecordBounds(r, born, fresh)
    BY <2>0, <2>1, SlotHolds
  <2>3. PICK name \in Word : pcb[s] = Joined(BlockOf(name, r))
    BY <2>0, <2>1, SlotHolds
  <2>4. /\ Field(s, PidColumn) = Text(r.pid) /\ Field(s, StartColumn) = Text(r.start)
        /\ Field(s, EndColumn) = Text(r.end) /\ Field(s, PcColumn) = Text(r.pc)
        /\ Len(Columns(pcb[s], Blank)) = 15
    BY <2>2, <2>3, BlockReads DEF Field
  <2>5. r # NoRecord
    BY <2>2 DEF Record, NoRecord
  <2>6. r.pid \in Nat /\ r.start \in Nat /\ r.end \in Nat /\ r.pc \in Nat
        /\ r.pid <= born /\ r.end = r.start + BlockLen /\ r.end < fresh /\ r.pc <= MaxInt
    BY <2>2, <2>5 DEF Record, RecordBounds
  <2>7. r.pid <= MaxInt /\ r.start <= MaxInt /\ r.end <= MaxInt
    BY <1>1, <1>2, <2>6
  <2>8. IsInt(Text(r.pid)) /\ IsInt(Text(r.start)) /\ IsInt(Text(r.end)) /\ IsInt(Text(r.pc))
    BY <2>6, <2>7, TextFits
  <2> QED BY <2>4, <2>8
<1>4. \A n \in ToSet(SeenColumns(pool, Blank)) : IsInt(n)
  <2> SUFFICES ASSUME NEW n \in ToSet(SeenColumns(pool, Blank)) PROVE IsInt(n)
    OBVIOUS
  <2>1. PICK ts : ts = [i \in DOMAIN blocks |-> Text(blocks[i])]
    OBVIOUS
  <2>2. SeenColumns(pool, Blank) = ts
    BY <2>1, ListIsStack DEF TextHoldsStack
  <2>3. PICK i \in DOMAIN blocks : n = Text(blocks[i])
    <3>1. n \in ToSet(ts)
      BY <2>2
    <3> QED BY <2>1, <3>1 DEF ToSet
  <2>4. blocks[i] \in Nat /\ blocks[i] <= MaxInt
    <3>1. i \in 1 .. Len(blocks)
      BY <1>1, <2>3
    <3> QED BY <1>1, <1>2, <3>1
  <2> QED BY <2>3, <2>4, TextFits
<1> QED BY <1>1, <1>3, <1>4 DEF ControlBlocksTypeOK

\* A control block is a text of fifteen columns with numbers where numbers are
\* read, and the list of free blocks is a list of numbers
\* (04_sched.kga: sys_sched_process_load, sys_sched_clean_pcb).
THEOREM ControlBlockTypes ==
    ASSUME GivenAsWords
    PROVE  BSpec => []ControlBlocksTypeOK
BY ControlBlocksAlways, TextsHaveForm, PTL

\* Whatever is set in a control block, and in whichever order, the kernel reads
\* the fields that were given to the slot last, and no others.
THEOREM TextsAreRecords ==
    ASSUME GivenAsWords
    PROVE  BSpec => []TextsHoldRecords
BY ControlBlocksAlways, TextsAreRead, PTL

\* The list of free blocks, a text that grows at its head and is shortened by
\* OP_REPLACE_COLUMN, is the stack of the blocks given back.
THEOREM TextIsStack ==
    ASSUME GivenAsWords
    PROVE  BSpec => []TextHoldsStack
BY ControlBlocksAlways, ListIsStack, PTL

-----------------------------------------------------------------------------
(* What the operations give *)

\* A number is written with characters
LEMMA TextIsText ==
    ASSUME NEW n \in Int
    PROVE  Text(n) \in Seq(Char)
<1>1. Text(n) \in Seq(Char \ {Space})
  BY TextHasNoBlank
<1> QED BY <1>1, SeqMonotonic

\* The rest of a text
LEMMA WithoutIs ==
    ASSUME NEW S, NEW s \in Seq(S), NEW n \in 0 .. Len(s)
    PROVE  /\ Without(s, n) \in Seq(S) /\ s = SubSeq(s, 1, n) \o Without(s, n)
           /\ Len(Without(s, n)) = Len(s) - n
<1>1. PICK p, q : p = SubSeq(s, 1, n) /\ q = SubSeq(s, n + 1, Len(s))
  OBVIOUS
<1>2. p \in Seq(S) /\ Len(p) = n /\ \A i \in 1 .. n : p[i] = s[i]
  BY <1>1
<1>3. q \in Seq(S) /\ Len(q) = Len(s) - n /\ \A i \in 1 .. Len(s) - n : q[i] = s[n + i]
  BY <1>1
<1>4. PICK r : r = p \o q
  OBVIOUS
<1>5. r \in Seq(S) /\ Len(r) = Len(p) + Len(q)
      /\ \A i \in 1 .. Len(r) : r[i] = IF i <= Len(p) THEN p[i] ELSE q[i - Len(p)]
  <2>1. p \in Seq(S) /\ q \in Seq(S)
    BY <1>2, <1>3
  <2> QED BY <1>4, <2>1, ConcatProperties
<1>6. ASSUME NEW i \in 1 .. Len(s) PROVE s[i] = r[i]
  <2>1. i \in 1 .. Len(r)
    BY <1>2, <1>3, <1>5
  <2>2. CASE i <= n
    <3>1. i \in 1 .. n
      BY <2>2
    <3> QED BY <1>2, <1>5, <2>1, <2>2, <3>1
  <2>3. CASE ~(i <= n)
    <3>1. i - n \in 1 .. Len(s) - n /\ n + (i - n) = i
      BY <2>3
    <3> QED BY <1>2, <1>3, <1>5, <2>1, <2>3, <3>1
  <2> QED BY <2>2, <2>3
<1>7. s = r
  <2>1. Len(s) = Len(r)
    BY <1>2, <1>3, <1>5
  <2> QED BY <1>5, <1>6, <2>1, SeqEqual
<1> QED BY <1>1, <1>3, <1>4, <1>7 DEF Without

\* The characters of a text, as the texts of OP_GET_COLUMN without a separator
LEMMA CharactersIs ==
    ASSUME NEW a \in Seq(Char), NEW n \in Int
    PROVE  GetColumn(a, n, <<>>) = IF n \in 1 .. Len(a) THEN <<a[n]>> ELSE <<>>
<1>1. SeenColumns(a, <<>>) = Characters(a)
  BY DEF SeenColumns
<1>2. DOMAIN Characters(a) = 1 .. Len(a) /\ \A i \in 1 .. Len(a) : Characters(a)[i] = <<a[i]>>
  BY DEF Characters
<1> QED BY <1>1, <1>2 DEF GetColumn

\* A column is a text
LEMMA GetColumnType ==
    ASSUME NEW a \in Seq(Char), NEW n \in Int, NEW c \in Seq(Char)
    PROVE  GetColumn(a, n, c) \in Seq(Char)
<1>1. CASE c = <<>>
  <2>1. GetColumn(a, n, <<>>) = IF n \in 1 .. Len(a) THEN <<a[n]>> ELSE <<>>
    BY CharactersIs
  <2>2. n \in 1 .. Len(a) => <<a[n]>> \in Seq(Char)
    <3>1. n \in 1 .. Len(a) => a[n] \in Char
      OBVIOUS
    <3> QED BY <3>1
  <2>3. <<>> \in Seq(Char)
    OBVIOUS
  <2> QED BY <1>1, <2>1, <2>2, <2>3, Zenon
<1>2. CASE c # <<>>
  <2>1. PICK all \in Seq(Seq(Char)) : all = SeenColumns(a, c)
    <3>1. SeenColumns(a, c) \in Seq(Plain(c))
      BY <1>2, SeenType
    <3> QED BY <3>1, PlainIs
  <2>2. GetColumn(a, n, c) = IF n \in DOMAIN all THEN all[n] ELSE <<>>
    BY <2>1 DEF GetColumn
  <2>3. n \in DOMAIN all => all[n] \in Seq(Char)
    BY <2>1
  <2>4. <<>> \in Seq(Char)
    OBVIOUS
  <2> QED BY <2>2, <2>3, <2>4, Zenon
<1> QED BY <1>1, <1>2

\* So is a text in which a column is replaced
LEMMA ReplaceColumnType ==
    ASSUME NEW a \in Seq(Char), NEW n \in Int, NEW c \in Seq(Char), NEW d \in Seq(Char)
    PROVE  ReplaceColumn(a, n, c, d) \in Seq(Char)
<1>1. CASE c = <<>>
  <2>1. PICK x : x = IF d = <<>> THEN Space ELSE d[1]
    OBVIOUS
  <2>2. x \in Char
    <3>1. d # <<>> => d[1] \in Char
      BY HeadAndTail
    <3> QED BY <2>1, <3>1, BlankIs, Zenon
  <2>3. ReplaceColumn(a, n, c, d) = IF n \in DOMAIN a THEN [a EXCEPT ![n] = x] ELSE a
    BY <1>1, <2>1 DEF ReplaceColumn
  <2>4. ASSUME n \in DOMAIN a PROVE [a EXCEPT ![n] = x] \in Seq(Char)
    <3>1. n \in 1 .. Len(a)
      BY <2>4
    <3> QED BY <2>2, <3>1, ExceptSeq
  <2> QED BY <2>3, <2>4
<1>2. CASE c # <<>>
  <2>1. PICK all \in Seq(Seq(Char)) : all = Columns(a, c)
    <3>1. Columns(a, c) \in Seq(Plain(c))
      BY ColumnsIs DEF Lists
    <3> QED BY <3>1, PlainIs
  <2>2. PICK new : new = IF n \in DOMAIN all THEN [all EXCEPT ![n] = d] ELSE all
    OBVIOUS
  <2>3. new \in Seq(Seq(Char))
    <3>1. ASSUME n \in DOMAIN all PROVE [all EXCEPT ![n] = d] \in Seq(Seq(Char))
      <4>1. n \in 1 .. Len(all)
        BY <2>1, <3>1
      <4> QED BY <2>1, <4>1, ExceptSeq
    <3> QED BY <2>1, <2>2, <3>1
  <2>4. ReplaceColumn(a, n, c, d) = JoinedWith(new, c)
    BY <1>2, <2>1, <2>2 DEF ReplaceColumn
  <2> QED BY <2>3, <2>4, JoinedType
<1> QED BY <1>1, <1>2

\* Where a text is found, and that it is found there for the first time
LEMMA FirstPlaceIs ==
    ASSUME NEW a \in Seq(Char), NEW b \in Seq(Char), Places(a, b) # {}
    PROVE  FirstPlace(a, b) \in Places(a, b) /\ FirstPlace(a, b) \in Nat
<1>1. Places(a, b) \subseteq Nat
  BY DEF Places
<1>2. \E i \in Places(a, b) : \A j \in Places(a, b) : i <= j
  BY <1>1, LeastElement
<1>3. FirstPlace(a, b) \in Places(a, b)
  BY <1>2 DEF FirstPlace
<1> QED BY <1>1, <1>3

\* The arithmetic of the CPU stays among the numbers
LEMMA ResultsAreNumbers ==
    ASSUME NEW m \in Int, NEW n \in Int
    PROVE  /\ Wrapped(m) \in Int
           /\ n # 0 => Quotient(m, n) \in Int /\ Remainder(m, n) \in Int
<1>1. MaxInt \in Nat
  BY TextsConstants
<1>2. Wrapped(m) \in Int
  BY <1>1 DEF Wrapped
<1>3. ASSUME n # 0 PROVE Quotient(m, n) \in Int /\ Remainder(m, n) \in Int
  <2>1. PICK q \in Nat : q = AbsOf(m) \div AbsOf(n)
    BY <1>3 DEF AbsOf
  <2>2. Quotient(m, n) \in Int
    BY <2>1 DEF Quotient
  <2>3. PICK k \in Int : k = Quotient(m, n)
    BY <2>2
  <2>4. n * k \in Int
    BY <2>3
  <2> QED BY <2>2, <2>3, <2>4 DEF Remainder
<1> QED BY <1>2, <1>3

-----------------------------------------------------------------------------
(* The steps of a program *)

BoolTexts == {"", "0", "1"}

\* The operations that read numbers, and those that divide
Reading  == {"add", "sub", "mul", "incr", "decr", "div", "mod",
             "cmpLt", "cmpLe", "getColumn", "replaceColumn"}

Dividing == {"div", "mod"}

\* What the step of an operation leaves: texts and truth values, and the
\* emulator alive unless the operation reads numbers
Leaves ==
    /\ UNCHANGED reg
    /\ res' \in Seq(Char) /\ boolRes' \in BoolTexts /\ error' \in BOOLEAN
    /\ end' # "-" => last' \in Reading
    /\ end' = "signal" => last' \in Dividing

\* A truth value is one of two texts
LEMMA ToBoolIs == \A p : ToBool(p) \in BoolTexts
BY Zenon DEF ToBool, BoolTexts

\* An operation that reads no number
LEMMA GivesLeaves ==
    ASSUME NEW op, Executes(op), NEW r \in Seq(Char), NEW b \in BoolTexts, Gives(r, b)
    PROVE  Leaves
BY DEF Executes, Gives, Leaves

\* An operation on numbers, where it gives a number and where it ends
LEMMA ReadingLeaves ==
    ASSUME NEW op \in Reading, Executes(op), boolRes \in BoolTexts, res \in Seq(Char),
           Ends("exception") \/ \E r \in Seq(Char), b \in BoolTexts : Gives(r, b)
    PROVE  Leaves
BY DEF Executes, Gives, Ends, Leaves

\* The registers are texts
LEMMA RegistersAre ==
    ASSUME OperationsTypeOK
    PROVE  /\ A \in Seq(Char) /\ B \in Seq(Char) /\ C \in Seq(Char) /\ D \in Seq(Char)
           /\ res \in Seq(Char) /\ boolRes \in BoolTexts
<1>1. reg \in [Registers -> Seq(Char)]
  BY DEF OperationsTypeOK
<1>2. "A" \in Registers /\ "B" \in Registers /\ "C" \in Registers /\ "D" \in Registers
  BY DEF Registers
<1>3. res \in Seq(Char) /\ boolRes \in BoolTexts
  BY Zenon DEF OperationsTypeOK, BoolTexts
<1> QED BY <1>1, <1>2, <1>3 DEF A, B, C, D

\* What std::stoi accepts is an int
LEMMA IntsAre ==
    ASSUME NEW t, IsInt(t)
    PROVE  Number(t) \in Int32 /\ Number(t) \in Int
<1>1. MaxInt \in Nat
  BY TextsConstants
<1> QED BY <1>1 DEF IsInt, Int32

\* The arithmetic of two numbers
LEMMA ArithmeticLeaves ==
    ASSUME OperationsTypeOK, Add \/ Sub \/ Mul \/ Incr \/ Decr
    PROVE  Leaves
<1>0. boolRes \in BoolTexts /\ res \in Seq(Char)
  BY RegistersAre
<1> DEFINE Result(n) == GivesRes(Text(Wrapped(n)))
<1>1. \A n \in Int : Result(n) => \E r \in Seq(Char), b \in BoolTexts : Gives(r, b)
  <2> SUFFICES ASSUME NEW n \in Int, Result(n)
               PROVE  \E r \in Seq(Char), b \in BoolTexts : Gives(r, b)
    OBVIOUS
  <2>1. PICK r \in Seq(Char) : r = Text(Wrapped(n))
    <3>1. Wrapped(n) \in Int
      BY ResultsAreNumbers
    <3> QED BY <3>1, TextIsText
  <2> QED BY <1>0, <2>1 DEF GivesRes
<1>2. CASE Add
  <2>1. Executes("add") /\ (Ends("exception") \/ (IsInt(A) /\ IsInt(B) /\ Result(Number(A) + Number(B))))
    BY <1>2 DEF Add, OnInts
  <2>2. IsInt(A) /\ IsInt(B) => Number(A) + Number(B) \in Int
    <3>1. IsInt(A) /\ IsInt(B) => Number(A) \in Int /\ Number(B) \in Int
      BY IntsAre
    <3> QED BY <3>1
  <2> HIDE DEF Result
  <2>3. Ends("exception") \/ \E r \in Seq(Char), b \in BoolTexts : Gives(r, b)
    BY <1>1, <2>1, <2>2
  <2>4. "add" \in Reading
    BY DEF Reading
  <2> QED BY <1>0, <2>1, <2>3, <2>4, ReadingLeaves
<1>3. CASE Sub
  <2>1. Executes("sub") /\ (Ends("exception") \/ (IsInt(A) /\ IsInt(B) /\ Result(Number(A) - Number(B))))
    BY <1>3 DEF Sub, OnInts
  <2>2. IsInt(A) /\ IsInt(B) => Number(A) - Number(B) \in Int
    <3>1. IsInt(A) /\ IsInt(B) => Number(A) \in Int /\ Number(B) \in Int
      BY IntsAre
    <3> QED BY <3>1
  <2> HIDE DEF Result
  <2>3. Ends("exception") \/ \E r \in Seq(Char), b \in BoolTexts : Gives(r, b)
    BY <1>1, <2>1, <2>2
  <2>4. "sub" \in Reading
    BY DEF Reading
  <2> QED BY <1>0, <2>1, <2>3, <2>4, ReadingLeaves
<1>4. CASE Mul
  <2>1. Executes("mul") /\ (Ends("exception") \/ (IsInt(A) /\ IsInt(B) /\ Result(Number(A) * Number(B))))
    BY <1>4 DEF Mul, OnInts
  <2>2. IsInt(A) /\ IsInt(B) => Number(A) * Number(B) \in Int
    <3>1. IsInt(A) /\ IsInt(B) => Number(A) \in Int /\ Number(B) \in Int
      BY IntsAre
    <3> QED BY <3>1
  <2> HIDE DEF Result
  <2>3. Ends("exception") \/ \E r \in Seq(Char), b \in BoolTexts : Gives(r, b)
    BY <1>1, <2>1, <2>2
  <2>4. "mul" \in Reading
    BY DEF Reading
  <2> QED BY <1>0, <2>1, <2>3, <2>4, ReadingLeaves
<1>5. CASE Incr
  <2>1. Executes("incr") /\ (Ends("exception") \/ (IsInt(A) /\ Result(Number(A) + 1)))
    BY <1>5 DEF Incr, OnInts
  <2>2. IsInt(A) => Number(A) + 1 \in Int
    <3>1. IsInt(A) => Number(A) \in Int
      BY IntsAre
    <3> QED BY <3>1
  <2> HIDE DEF Result
  <2>3. Ends("exception") \/ \E r \in Seq(Char), b \in BoolTexts : Gives(r, b)
    BY <1>1, <2>1, <2>2
  <2>4. "incr" \in Reading
    BY DEF Reading
  <2> QED BY <1>0, <2>1, <2>3, <2>4, ReadingLeaves
<1>6. CASE Decr
  <2>1. Executes("decr") /\ (Ends("exception") \/ (IsInt(A) /\ Result(Number(A) - 1)))
    BY <1>6 DEF Decr, OnInts
  <2>2. IsInt(A) => Number(A) - 1 \in Int
    <3>1. IsInt(A) => Number(A) \in Int
      BY IntsAre
    <3> QED BY <3>1
  <2> HIDE DEF Result
  <2>3. Ends("exception") \/ \E r \in Seq(Char), b \in BoolTexts : Gives(r, b)
    BY <1>1, <2>1, <2>2
  <2>4. "decr" \in Reading
    BY DEF Reading
  <2> QED BY <1>0, <2>1, <2>3, <2>4, ReadingLeaves
<1> QED BY <1>2, <1>3, <1>4, <1>5, <1>6

\* Division: another zero, and the least int by -1, end the emulator
LEMMA DivisionLeaves ==
    ASSUME OperationsTypeOK, Div \/ Mod
    PROVE  Leaves
<1>0. boolRes \in BoolTexts /\ res \in Seq(Char)
  BY RegistersAre
<1>1. PICK op \in Dividing, result \in {Quotient(Number(A), Number(B)), Remainder(Number(A), Number(B))} :
          Executes(op) /\ (ByZero \/ Ends("exception") \/ (IsInt(A) /\ IsInt(B) /\ Divides(result)))
  <2>1. Div => Executes("div") /\ (ByZero \/ Ends("exception")
                  \/ (IsInt(A) /\ IsInt(B) /\ Divides(Quotient(Number(A), Number(B)))))
    BY DEF Div, OnInts
  <2>2. Mod => Executes("mod") /\ (ByZero \/ Ends("exception")
                  \/ (IsInt(A) /\ IsInt(B) /\ Divides(Remainder(Number(A), Number(B)))))
    BY DEF Mod, OnInts
  <2>3. "div" \in Dividing /\ "mod" \in Dividing
    BY DEF Dividing
  <2> QED BY <2>1, <2>2, <2>3
<1>2. op \in Reading
  BY <1>1 DEF Dividing, Reading
<1>3. CASE ByZero
  BY <1>0, <1>1, <1>2, <1>3 DEF ByZero, Executes, Leaves
<1>4. CASE Ends("exception")
  BY <1>0, <1>1, <1>2, <1>4, ReadingLeaves
<1>5. CASE IsInt(A) /\ IsInt(B) /\ Divides(result)
  <2>1. CASE Ends("signal")
    BY <1>0, <1>1, <1>2, <2>1 DEF Ends, Executes, Leaves
  <2>2. CASE Number(B) # 0 /\ GivesRes(Text(result))
    <3>1. Number(A) \in Int /\ Number(B) \in Int
      BY <1>5, IntsAre
    <3>2. result \in Int
      BY <1>1, <2>2, <3>1, ResultsAreNumbers
    <3>3. Text(result) \in Seq(Char)
      BY <3>2, TextIsText
    <3> QED BY <1>0, <1>1, <1>2, <2>2, <3>3, GivesLeaves DEF GivesRes
  <2> QED BY <1>5, <2>1, <2>2 DEF Divides
<1> QED BY <1>1, <1>3, <1>4, <1>5

\* Comparisons
LEMMA ComparisonLeaves ==
    ASSUME OperationsTypeOK, ExecIsNum \/ CmpEq \/ CmpNeq \/ CmpLt \/ CmpLe
    PROVE  Leaves
<1>0. boolRes \in BoolTexts /\ res \in Seq(Char)
  BY RegistersAre
<1>1. ASSUME ExecIsNum \/ CmpEq \/ CmpNeq PROVE Leaves
  <2>1. ToBool(IsNum(A)) \in BoolTexts /\ ToBool(A = B) \in BoolTexts /\ ToBool(A # B) \in BoolTexts
    BY Zenon DEF ToBool, BoolTexts
  <2>2. CASE ExecIsNum
    BY <1>0, <2>1, <2>2, GivesLeaves DEF ExecIsNum, GivesBool
  <2>3. CASE CmpEq
    BY <1>0, <2>1, <2>3, GivesLeaves DEF CmpEq, GivesBool
  <2>4. CASE CmpNeq
    BY <1>0, <2>1, <2>4, GivesLeaves DEF CmpNeq, GivesBool
  <2> QED BY <1>1, <2>2, <2>3, <2>4
<1>2. ASSUME CmpLt \/ CmpLe PROVE Leaves
  <2>1. PICK op \in {"cmpLt", "cmpLe"} :
            Executes(op) /\ (Ends("exception") \/ \E b \in BoolTexts : Gives(res, b))
    BY <1>2, ToBoolIs DEF CmpLt, CmpLe, OnInts, GivesBool
  <2>2. op \in Reading
    BY <2>1 DEF Reading
  <2> QED BY <1>0, <2>1, <2>2, ReadingLeaves
<1> QED BY <1>1, <1>2

\* Searching, measuring and joining
LEMMA SearchLeaves ==
    ASSUME OperationsTypeOK, ExecContains \/ GetLength \/ StartsWith \/ ExecConcatWith
    PROVE  Leaves
<1>0. boolRes \in BoolTexts /\ res \in Seq(Char) /\ A \in Seq(Char) /\ B \in Seq(Char)
      /\ C \in Seq(Char)
  BY RegistersAre
<1>1. "0" \in BoolTexts /\ "1" \in BoolTexts /\ <<>> \in Seq(Char)
  <2>1. "0" \in BoolTexts /\ "1" \in BoolTexts
    BY Zenon DEF BoolTexts
  <2> QED BY <2>1
<1>2. CASE ExecContains
  <2>1. Executes("contains")
        /\ (Gives(<<>>, "0") \/ (Places(A, B) # {} /\ Gives(Text(FirstPlace(A, B)), "1")))
    BY <1>2 DEF ExecContains
  <2>2. Places(A, B) # {} => Text(FirstPlace(A, B)) \in Seq(Char)
    <3>1. Places(A, B) # {} => FirstPlace(A, B) \in Int
      BY <1>0, FirstPlaceIs
    <3> QED BY <3>1, TextIsText
  <2> QED BY <1>1, <2>1, <2>2, GivesLeaves
<1>3. CASE GetLength
  <2>1. Text(Len(A)) \in Seq(Char)
    <3>1. Len(A) \in Int
      BY <1>0
    <3> QED BY <3>1, TextIsText
  <2> QED BY <1>0, <1>3, <2>1, GivesLeaves DEF GetLength, GivesRes
<1>4. CASE StartsWith
  <2>1. Executes("startsWith")
        /\ (Gives(<<>>, "0") \/ (IsPrefix(B, A) /\ Gives(Without(A, Len(B)), "1")))
    BY <1>4 DEF StartsWith
  <2>2. IsPrefix(B, A) => Without(A, Len(B)) \in Seq(Char)
    <3>1. IsPrefix(B, A) => Len(B) \in 0 .. Len(A)
      BY <1>0 DEF IsPrefix
    <3> QED BY <1>0, <3>1, WithoutIs
  <2> QED BY <1>1, <2>1, <2>2, GivesLeaves
<1>5. CASE ExecConcatWith
  <2>1. ConcatWith(A, B, C) \in Seq(Char)
    <3>1. A \o C \in Seq(Char)
      BY <1>0, ConcatProperties
    <3> QED BY <1>0, <3>1, ConcatProperties DEF ConcatWith
  <2> QED BY <1>0, <1>5, <2>1, GivesLeaves DEF ExecConcatWith, GivesRes
<1> QED BY <1>2, <1>3, <1>4, <1>5

\* Columns
LEMMA ColumnLeaves ==
    ASSUME OperationsTypeOK, ExecGetColumn \/ ExecReplaceColumn
    PROVE  Leaves
<1>0. boolRes \in BoolTexts /\ res \in Seq(Char) /\ A \in Seq(Char) /\ B \in Seq(Char)
      /\ C \in Seq(Char) /\ D \in Seq(Char)
  BY RegistersAre
<1>1. IsInt(B) => GetColumn(A, Number(B), C) \in Seq(Char)
                  /\ ReplaceColumn(A, Number(B), C, D) \in Seq(Char)
  <2>1. IsInt(B) => Number(B) \in Int
    BY IntsAre
  <2> QED BY <1>0, <2>1, GetColumnType, ReplaceColumnType
<1>2. PICK op \in {"getColumn", "replaceColumn"} :
          Executes(op) /\ (Ends("exception") \/ \E r \in Seq(Char) : Gives(r, boolRes))
  <2>1. ExecGetColumn => Executes("getColumn")
           /\ (Ends("exception") \/ (IsInt(B) /\ Gives(GetColumn(A, Number(B), C), boolRes)))
    BY DEF ExecGetColumn, OnInts, GivesRes
  <2>2. ExecReplaceColumn => Executes("replaceColumn")
           /\ (Ends("exception") \/ (IsInt(B) /\ Gives(ReplaceColumn(A, Number(B), C, D), boolRes)))
    BY DEF ExecReplaceColumn, OnInts, GivesRes
  <2> QED BY <1>1, <2>1, <2>2
<1>3. op \in Reading
  BY <1>2 DEF Reading
<1> QED BY <1>0, <1>2, <1>3, ReadingLeaves

-----------------------------------------------------------------------------
(* All operations *)

\* Every operation leaves what Leaves says
LEMMA OperationLeaves ==
    ASSUME OperationsTypeOK, ONext
    PROVE  Write \/ Leaves
BY ArithmeticLeaves, DivisionLeaves, ComparisonLeaves, SearchLeaves, ColumnLeaves DEF ONext

\* A program begins with texts in its registers
LEMMA OperationsStart == OInit => OperationsTypeOK
<1> SUFFICES ASSUME OInit PROVE OperationsTypeOK
  OBVIOUS
<1>1. reg \in [Registers -> Seq(Char)]
  <2>1. \A r \in Registers : reg[r] \in Seq(Char)
    BY OperationsConstants DEF OInit
  <2>2. reg = [r \in Registers |-> reg[r]]
    BY DEF OInit
  <2> QED BY <2>1, <2>2
<1>2. res \in Seq(Char) /\ error \in BOOLEAN
  <2>1. res = <<>> /\ error = FALSE
    BY Zenon DEF OInit
  <2>2. <<>> \in Seq(Char) /\ FALSE \in BOOLEAN
    OBVIOUS
  <2> QED BY <2>1, <2>2, Zenon
<1>3. boolRes \in {"", "0", "1"}
  BY Zenon DEF OInit
<1>4. end = "-" /\ "-" # "signal"
  BY Zenon DEF OInit
<1> QED BY <1>1, <1>2, <1>3, <1>4 DEF OperationsTypeOK

\* And keeps them there
LEMMA OperationsStep == OperationsTypeOK /\ [ONext]_ovars => OperationsTypeOK'
<1> SUFFICES ASSUME OperationsTypeOK, [ONext]_ovars PROVE OperationsTypeOK'
  OBVIOUS
<1>1. CASE Leaves
  <2>1. reg' \in [Registers -> Seq(Char)]
    BY <1>1 DEF OperationsTypeOK, Leaves
  <2>2. res' \in Seq(Char) /\ error' \in BOOLEAN
    BY <1>1 DEF Leaves
  <2>3. boolRes' \in {"", "0", "1"}
    BY <1>1, Zenon DEF Leaves, BoolTexts
  <2>4. (end' # "-" => last' \in Reading) /\ (end' = "signal" => last' \in Dividing)
    BY <1>1 DEF Leaves
  <2> QED BY <2>1, <2>2, <2>3, <2>4 DEF OperationsTypeOK, Reading, Dividing
<1>2. CASE Write
  <2>1. res' = res /\ boolRes' = boolRes /\ error' = error /\ end' = "-"
    BY <1>2 DEF Write
  <2>2. reg' \in [Registers -> Seq(Char)]
    <3>1. PICK r, t : r \in Registers /\ t \in Seq(Char) /\ reg' = [reg EXCEPT ![r] = t]
      <4>1. "A" \in Registers /\ res \in Seq(Char)
        BY RegistersAre DEF Registers
      <4>2. \A r \in Registers : \A t \in TextsOf[r] : t \in Seq(Char)
        BY OperationsConstants
      <4> QED BY <1>2, <4>1, <4>2 DEF Write
    <3>2. reg \in [Registers -> Seq(Char)]
      BY DEF OperationsTypeOK
    <3> QED BY <3>1, <3>2
  <2>3. boolRes' \in {"", "0", "1"}
    BY <2>1, Zenon DEF OperationsTypeOK
  <2>4. "-" # "signal"
    OBVIOUS
  <2>5. res' \in Seq(Char) /\ error' \in BOOLEAN
    BY <2>1 DEF OperationsTypeOK
  <2> QED BY <2>1, <2>2, <2>3, <2>4, <2>5 DEF OperationsTypeOK
<1>3. CASE UNCHANGED ovars
  BY <1>3, Zenon DEF OperationsTypeOK, ovars
<1> QED BY <1>1, <1>2, <1>3, OperationLeaves

\* The operation executed last is named in last
LEMMA LastIs ==
    ASSUME ONext
    PROVE  /\ last' \in {"add", "sub", "mul", "cmpLt", "cmpLe"} => Add \/ Sub \/ Mul \/ CmpLt \/ CmpLe
           /\ last' = "div" => Div
           /\ last' = "mod" => Mod
           /\ last' = "contains" => ExecContains
           /\ last' = "startsWith" => StartsWith
           /\ last' = "concatWith" => ExecConcatWith
           /\ last' = "replaceColumn" => ExecReplaceColumn
<1>1. Write => last' = "-"
  BY DEF Write
<1>2. (Add => last' = "add") /\ (Sub => last' = "sub") /\ (Mul => last' = "mul")
  BY DEF Add, Sub, Mul, Executes
<1>3. (Incr => last' = "incr") /\ (Decr => last' = "decr") /\ (Div => last' = "div")
  BY DEF Incr, Decr, Div, Executes
<1>4. (Mod => last' = "mod") /\ (ExecIsNum => last' = "isNum") /\ (CmpEq => last' = "cmpEq")
  BY DEF Mod, ExecIsNum, CmpEq, Executes
<1>5. (CmpNeq => last' = "cmpNeq") /\ (CmpLt => last' = "cmpLt") /\ (CmpLe => last' = "cmpLe")
  BY DEF CmpNeq, CmpLt, CmpLe, Executes
<1>6. (ExecContains => last' = "contains") /\ (GetLength => last' = "getLength")
      /\ (StartsWith => last' = "startsWith")
  BY DEF ExecContains, GetLength, StartsWith, Executes
<1>7. (ExecGetColumn => last' = "getColumn") /\ (ExecReplaceColumn => last' = "replaceColumn")
      /\ (ExecConcatWith => last' = "concatWith")
  BY DEF ExecGetColumn, ExecReplaceColumn, ExecConcatWith, Executes
<1> QED BY <1>1, <1>2, <1>3, <1>4, <1>5, <1>6, <1>7 DEF ONext

\* The operands are still in the registers when the result is there
LEMMA OperandsStay ==
    ASSUME NEW op, Executes(op)
    PROVE  A' = A /\ B' = B /\ C' = C /\ D' = D
BY DEF Executes, A, B, C, D

-----------------------------------------------------------------------------
(* What a program may rely on *)

\* Only a text that is no int makes an operation on numbers throw
LEMMA ExceptionIs ==
    ASSUME OperationsTypeOK, ONext PROVE GuardedNumbers'
<1> SUFFICES ASSUME end' = "exception", last' \in {"add", "sub", "mul", "cmpLt", "cmpLe"}
             PROVE  \E t \in {A', B'} : ~IsNum(t) \/ Number(t) \notin Int32
  BY DEF GuardedNumbers
<1>1. Add \/ Sub \/ Mul \/ CmpLt \/ CmpLe
  BY LastIs
<1>2. PICK op, r, b : Executes(op) /\ ((IsInt(A) /\ IsInt(B) /\ Gives(r, b)) \/ ~IsInt(A) \/ ~IsInt(B))
  BY <1>1 DEF Add, Sub, Mul, CmpLt, CmpLe, OnInts, GivesRes, GivesBool
<1>3. ~Gives(r, b)
  <2>1. end' # "-"
    OBVIOUS
  <2> QED BY <2>1 DEF Gives
<1>4. A' = A /\ B' = B
  BY <1>2, OperandsStay
<1>5. A \in Seq(Char) /\ B \in Seq(Char)
  BY RegistersAre
<1>6. ASSUME NEW t \in Seq(Char), ~IsInt(t) PROVE ~IsNum(t) \/ Number(t) \notin Int32
  BY <1>6, IsNumReads DEF IsInt
<1> QED BY <1>2, <1>3, <1>4, <1>5, <1>6

\* The quotient and the remainder of truncating division
LEMMA DivisionIs ==
    ASSUME NEW m \in Int, NEW n \in Int, n # 0
    PROVE  /\ Quotient(m, n) \in Int /\ Remainder(m, n) \in Int
           /\ m = Quotient(m, n) * n + Remainder(m, n)
           /\ AbsOf(Remainder(m, n)) < AbsOf(n)
           /\ Remainder(m, n) = 0 \/ (Remainder(m, n) < 0) = (m < 0)
<1>1. PICK x, y : x = AbsOf(m) /\ y = AbsOf(n)
  OBVIOUS
<1>2. x \in Nat /\ y \in Nat \ {0} /\ (m < 0 => m = -x) /\ (~(m < 0) => m = x)
      /\ (n < 0 => n = -y) /\ (~(n < 0) => n = y)
  BY <1>1 DEF AbsOf
<1>3. PICK k, l : k = x \div y /\ l = x % y
  OBVIOUS
<1>4. k \in Nat /\ l \in 0 .. y - 1 /\ x = y * k + l
  BY <1>2, <1>3
<1>5. PICK p : p = y * k
  OBVIOUS
<1>6. p \in Nat /\ x = p + l
  BY <1>2, <1>4, <1>5
<1>7. PICK q : q = Quotient(m, n)
  OBVIOUS
<1>8. q = IF (m < 0) = (n < 0) THEN k ELSE -k
  BY <1>1, <1>3, <1>7 DEF Quotient
<1>9. q \in Int /\ n * q = (IF m < 0 THEN -p ELSE p) /\ q * n = n * q
  <2>1. y * (-k) = -p /\ (-y) * k = -p /\ (-y) * (-k) = p
    BY <1>2, <1>4, <1>5
  <2>2. q \in Int
    BY <1>4, <1>8
  <2>3. q * n = n * q
    BY <2>2
  <2>4. CASE m < 0 /\ n < 0
    BY <1>2, <1>5, <1>8, <2>1, <2>2, <2>3, <2>4
  <2>5. CASE m < 0 /\ ~(n < 0)
    BY <1>2, <1>5, <1>8, <2>1, <2>2, <2>3, <2>5
  <2>6. CASE ~(m < 0) /\ n < 0
    BY <1>2, <1>5, <1>8, <2>1, <2>2, <2>3, <2>6
  <2>7. CASE ~(m < 0) /\ ~(n < 0)
    BY <1>2, <1>5, <1>8, <2>1, <2>2, <2>3, <2>7
  <2> QED BY <2>4, <2>5, <2>6, <2>7
<1>10. PICK w : w = n * q
  OBVIOUS
<1>11. PICK r : r = Remainder(m, n)
  OBVIOUS
<1>12. r = m - w
  BY <1>7, <1>10, <1>11 DEF Remainder
<1>13. r \in Int /\ r = IF m < 0 THEN -l ELSE l
  BY <1>2, <1>4, <1>6, <1>9, <1>10, <1>12
<1>14. m = q * n + r
  BY <1>9, <1>10, <1>12, <1>13, <1>2
<1>15. AbsOf(r) < y
  BY <1>2, <1>4, <1>13 DEF AbsOf
<1>16. r = 0 \/ (r < 0) = (m < 0)
  BY <1>2, <1>4, <1>13
<1> QED BY <1>1, <1>7, <1>9, <1>11, <1>13, <1>14, <1>15, <1>16

\* OP_DIV and OP_MOD give the quotient and the remainder
LEMMA DivisionGives ==
    ASSUME OperationsTypeOK, ONext PROVE Division'
<1> SUFFICES ASSUME last' \in {"div", "mod"}, end' = "-", ~error'
             PROVE  LET q == IF last' = "div" THEN Number(res') ELSE Quotient(Number(A'), Number(B'))
                        r == IF last' = "mod" THEN Number(res') ELSE Remainder(Number(A'), Number(B'))
                    IN  /\ Number(A') = q * Number(B') + r
                        /\ AbsOf(r) < AbsOf(Number(B'))
                        /\ r = 0 \/ (r < 0) = (Number(A') < 0)
  BY DEF Division
<1> DEFINE Q == Quotient(Number(A), Number(B))
           R == Remainder(Number(A), Number(B))
<1>1. ~Ends("exception") /\ ~Ends("signal") /\ ~ByZero
  <2>1. end' # "exception" /\ end' # "signal"
    OBVIOUS
  <2> QED BY <2>1 DEF Ends, ByZero
<1>2. \/ last' = "div" /\ Executes("div") /\ IsInt(A) /\ IsInt(B) /\ Number(B) # 0 /\ res' = Text(Q)
      \/ last' = "mod" /\ Executes("mod") /\ IsInt(A) /\ IsInt(B) /\ Number(B) # 0 /\ res' = Text(R)
  <2>1. CASE last' = "div"
    <3>1. Executes("div") /\ IsInt(A) /\ IsInt(B) /\ Divides(Q)
      BY <1>1, <2>1, LastIs DEF Div, OnInts
    <3> QED BY <1>1, <2>1, <3>1 DEF Divides, GivesRes, Gives
  <2>2. CASE last' = "mod"
    <3>1. Executes("mod") /\ IsInt(A) /\ IsInt(B) /\ Divides(R)
      BY <1>1, <2>2, LastIs DEF Mod, OnInts
    <3> QED BY <1>1, <2>2, <3>1 DEF Divides, GivesRes, Gives
  <2> QED BY <2>1, <2>2
<1>3. Number(A) \in Int /\ Number(B) \in Int /\ Number(B) # 0 /\ A' = A /\ B' = B
  BY <1>2, IntsAre, OperandsStay
<1>4. /\ Q \in Int /\ R \in Int /\ Number(A) = Q * Number(B) + R
      /\ AbsOf(R) < AbsOf(Number(B))
      /\ R = 0 \/ (R < 0) = (Number(A) < 0)
  BY <1>3, DivisionIs
<1>5. Number(Text(Q)) = Q /\ Number(Text(R)) = R
  BY <1>4, TextIs
<1>6. "div" # "mod"
  OBVIOUS
<1>7. PICK m, n : m = Number(A) /\ n = Number(B)
  OBVIOUS
<1>8. PICK q, r : q = Q /\ r = R
  OBVIOUS
<1>9. m = q * n + r /\ AbsOf(r) < AbsOf(n) /\ (r = 0 \/ (r < 0) = (m < 0))
  BY <1>4, <1>7, <1>8
<1>10. Quotient(m, n) = q /\ Remainder(m, n) = r
       /\ (last' = "div" => Number(res') = q) /\ (last' = "mod" => Number(res') = r)
  BY <1>2, <1>5, <1>6, <1>7, <1>8
<1>11. Number(A') = m /\ Number(B') = n
  BY <1>3, <1>7
<1> HIDE DEF Q, R
<1> QED BY <1>9, <1>10, <1>11

\* Where OP_CONTAINS finds a text, OP_GET_COLUMN reads its characters
LEMMA FoundIsRead ==
    ASSUME NEW a \in Seq(Char), NEW b \in Seq(Char), NEW p \in Places(a, b)
    PROVE  \A i \in DOMAIN b : GetColumn(a, p + i - 1, <<>>) = <<b[i]>>
<1> SUFFICES ASSUME NEW i \in DOMAIN b PROVE GetColumn(a, p + i - 1, <<>>) = <<b[i]>>
  OBVIOUS
<1>1. p \in 1 .. Len(a) - Len(b) + 1 /\ SubSeq(a, p, p + Len(b) - 1) = b
  BY DEF Places
<1>2. i \in 1 .. Len(b) /\ Len(a) \in Nat /\ Len(b) \in Nat
  OBVIOUS
<1>3. p \in Nat /\ p + i - 1 \in 1 .. Len(a) /\ p + i - 1 \in Int
  BY <1>1, <1>2
<1>4. SubSeq(a, p, p + Len(b) - 1)[i] = a[p + i - 1]
  BY <1>1, <1>2, <1>3
<1>5. b[i] = a[p + i - 1]
  BY <1>1, <1>4
<1> QED BY <1>3, <1>5, CharactersIs

\* OP_CONTAINS, OP_STARTS_WITH and OP_CONCAT_WITH take texts apart and together
LEMMA TextsGive ==
    ASSUME OperationsTypeOK, ONext PROVE TextsAgree'
<1>0. A \in Seq(Char) /\ B \in Seq(Char) /\ C \in Seq(Char)
  BY RegistersAre
<1>1. ASSUME last' = "contains", boolRes' = "1"
      PROVE  \A i \in DOMAIN B' : GetColumn(A', Number(res') + i - 1, <<>>) = <<B'[i]>>
  <2>1. Executes("contains") /\ Places(A, B) # {} /\ res' = Text(FirstPlace(A, B))
    <3>1. ExecContains
      BY <1>1, LastIs
    <3>2. boolRes' # "0"
      BY <1>1
    <3> QED BY <3>1, <3>2 DEF ExecContains, Gives
  <2>2. A' = A /\ B' = B
    BY <2>1, OperandsStay
  <2>3. PICK p : p = FirstPlace(A, B)
    OBVIOUS
  <2>4. p \in Places(A, B) /\ p \in Nat
    BY <1>0, <2>1, <2>3, FirstPlaceIs
  <2>5. Number(res') = p
    BY <2>1, <2>3, <2>4, TextIs
  <2>6. \A i \in DOMAIN B : GetColumn(A, p + i - 1, <<>>) = <<B[i]>>
    BY <1>0, <2>4, FoundIsRead
  <2> QED BY <2>2, <2>5, <2>6
<1>2. ASSUME last' = "startsWith", boolRes' = "1" PROVE ConcatWith(B', res', <<>>) = A'
  <2>1. Executes("startsWith") /\ IsPrefix(B, A) /\ res' = Without(A, Len(B))
    <3>1. StartsWith
      BY <1>2, LastIs
    <3>2. boolRes' # "0"
      BY <1>2
    <3> QED BY <3>1, <3>2 DEF StartsWith, Gives
  <2>2. A' = A /\ B' = B
    BY <2>1, OperandsStay
  <2>3. Len(B) \in 0 .. Len(A) /\ SubSeq(A, 1, Len(B)) = B
    <3>1. Len(B) \in 0 .. Len(A) /\ SubSeq(B, 1, Len(B)) = SubSeq(A, 1, Len(B))
      BY <1>0, <2>1 DEF IsPrefix
    <3> QED BY <1>0, <3>1, SubSeqFull
  <2>4. A = SubSeq(A, 1, Len(B)) \o Without(A, Len(B))
    BY <1>0, <2>3, WithoutIs
  <2>5. B \o <<>> = B
    BY <1>0, ConcatEmptySeq
  <2> QED BY <2>1, <2>2, <2>3, <2>4, <2>5 DEF ConcatWith
<1>3. ASSUME last' = "concatWith"
      PROVE  IsPrefix(A', res') /\ Len(res') = Len(A') + Len(B') + Len(C')
  <2>1. Executes("concatWith") /\ res' = ConcatWith(A, B, C)
    BY <1>3, LastIs DEF ExecConcatWith, GivesRes, Gives
  <2>2. A' = A /\ B' = B /\ C' = C
    BY <2>1, OperandsStay
  <2>3. PICK ac, r : ac = A \o C /\ r = ac \o B
    OBVIOUS
  <2>4. ac \in Seq(Char) /\ Len(ac) = Len(A) + Len(C)
        /\ \A i \in 1 .. Len(A) : ac[i] = A[i]
    BY <1>0, <2>3, ConcatProperties
  <2>5. r \in Seq(Char) /\ Len(r) = Len(ac) + Len(B)
        /\ \A i \in 1 .. Len(ac) : r[i] = ac[i]
    <3>1. ac \in Seq(Char) /\ B \in Seq(Char)
      BY <1>0, <2>4
    <3> QED BY <2>3, <3>1, ConcatProperties
  <2>6. r = res'
    BY <2>1, <2>3 DEF ConcatWith
  <2>7. Len(A) \in Nat /\ Len(B) \in Nat /\ Len(C) \in Nat
    BY <1>0
  <2>8. Len(A) <= Len(r) /\ Len(r) = Len(A) + Len(B) + Len(C)
    BY <2>4, <2>5, <2>7
  <2>9. SubSeq(A, 1, Len(A)) = SubSeq(r, 1, Len(A))
    <3>1. PICK u, v : u = SubSeq(A, 1, Len(A)) /\ v = SubSeq(r, 1, Len(A))
      OBVIOUS
    <3>2. u = A
      BY <1>0, <3>1, SubSeqFull
    <3>3. v \in Seq(Char) /\ Len(v) = Len(A) /\ \A i \in 1 .. Len(A) : v[i] = r[i]
      BY <2>5, <2>7, <2>8, <3>1
    <3>4. \A i \in 1 .. Len(A) : A[i] = v[i]
      BY <2>4, <2>5, <2>7, <3>3
    <3>5. A = v
      BY <1>0, <3>3, <3>4, SeqEqual
    <3> QED BY <3>1, <3>2, <3>5
  <2> QED BY <2>2, <2>6, <2>8, <2>9 DEF IsPrefix
<1> QED BY <1>1, <1>2, <1>3 DEF TextsAgree

\* Reading back a column that was replaced, and the columns beside it
LEMMA ReplacedIsRead ==
    ASSUME NEW a \in Seq(Char), NEW n \in Int, NEW c \in Seq(Char), NEW d \in Seq(Char),
           c # <<>>, <<>> \notin ToSet(Columns(a, c)), d # <<>>, ToSet(d) \cap ToSet(c) = {}
    PROVE  \A k \in DOMAIN Columns(a, c) :
              GetColumn(ReplaceColumn(a, n, c, d), k, c)
                = IF k = n THEN d ELSE GetColumn(a, k, c)
<1> DEFINE F == Plain(c) \ {<<>>}
<1>1. PICK all : all = Columns(a, c)
  OBVIOUS
<1>2. all \in Seq(F)
  <2>1. all \in Seq(Plain(c))
    BY <1>1, ColumnsIs DEF Lists
  <2>2. ASSUME NEW i \in 1 .. Len(all) PROVE all[i] \in F
    <3>1. all[i] \in ToSet(all)
      BY <2>1 DEF ToSet
    <3>2. all[i] # <<>>
      BY <1>1, <3>1
    <3> QED BY <2>1, <3>2
  <2> HIDE DEF F
  <2> QED BY <2>1, <2>2
<1>3. d \in F
  <2>1. \A i \in 1 .. Len(d) : d[i] \in Char /\ d[i] \in ToSet(d)
    BY DEF ToSet
  <2>2. \A i \in 1 .. Len(d) : d[i] \in Char \ ToSet(c)
    BY <2>1
  <2>3. d \in Seq(Char \ ToSet(c))
    BY <2>2
  <2> QED BY <2>3 DEF Plain
<1>4. PICK new : new = IF n \in DOMAIN all THEN [all EXCEPT ![n] = d] ELSE all
  OBVIOUS
<1>5. new \in Seq(F) /\ DOMAIN new = DOMAIN all
      /\ \A k \in DOMAIN all : new[k] = IF k = n THEN d ELSE all[k]
  <2> HIDE DEF F
  <2>1. CASE n \in DOMAIN all
    <3>1. n \in 1 .. Len(all) /\ DOMAIN all = 1 .. Len(all) /\ new = [all EXCEPT ![n] = d]
      BY <1>2, <1>4, <2>1
    <3> QED BY <1>2, <1>3, <3>1, ExceptSeq
  <2>2. CASE n \notin DOMAIN all
    BY <1>2, <1>4, <2>2
  <2> QED BY <2>1, <2>2
<1>6. \A ts \in Seq(F) : ts \in Seq(Plain(c)) /\ NonEmpty(ts) = ts
  <2> SUFFICES ASSUME NEW ts \in Seq(F) PROVE ts \in Seq(Plain(c)) /\ NonEmpty(ts) = ts
    OBVIOUS
  <2>1. F \subseteq Plain(c)
    OBVIOUS
  <2>2. ts \in Seq(Plain(c))
    <3> HIDE DEF F
    <3> QED BY <2>1, SeqMonotonic
  <2>3. NonEmpty(ts) = ts
    BY NonEmptyAll DEF Plain
  <2> QED BY <2>2, <2>3
<1>7. ReplaceColumn(a, n, c, d) = JoinedWith(new, c)
  BY <1>1, <1>4 DEF ReplaceColumn
<1>8. SeenColumns(JoinedWith(new, c), c) = new
  <2> HIDE DEF F
  <2> QED BY <1>5, <1>6, SeenJoined
<1>9. SeenColumns(a, c) = all
  <2> HIDE DEF F
  <2> QED BY <1>1, <1>2, <1>6, SeenType
<1>10. ASSUME NEW k \in DOMAIN all
       PROVE  GetColumn(JoinedWith(new, c), k, c) = new[k] /\ GetColumn(a, k, c) = all[k]
  BY <1>5, <1>8, <1>9 DEF GetColumn
<1> HIDE DEF F
<1> QED BY <1>1, <1>5, <1>7, <1>10

\* OP_REPLACE_COLUMN and OP_GET_COLUMN mean the same columns
LEMMA ColumnsGive ==
    ASSUME OperationsTypeOK, ONext PROVE ColumnsAgree'
<1> SUFFICES ASSUME last' = "replaceColumn", end' = "-", C' # <<>>,
                    <<>> \notin ToSet(Columns(A', C')), D' # <<>>, ToSet(D') \cap ToSet(C') = {}
             PROVE  \A n \in DOMAIN Columns(A', C') :
                       GetColumn(res', n, C') = IF n = Number(B') THEN D' ELSE GetColumn(A', n, C')
  BY DEF ColumnsAgree
<1>1. ~Ends("exception")
  <2>1. end' # "exception"
    OBVIOUS
  <2> QED BY <2>1 DEF Ends
<1>2. Executes("replaceColumn") /\ IsInt(B) /\ res' = ReplaceColumn(A, Number(B), C, D)
  BY <1>1, LastIs DEF ExecReplaceColumn, OnInts, GivesRes, Gives
<1>3. A' = A /\ B' = B /\ C' = C /\ D' = D
  BY <1>2, OperandsStay
<1>4. A \in Seq(Char) /\ C \in Seq(Char) /\ D \in Seq(Char) /\ Number(B) \in Int
  BY <1>2, RegistersAre, IntsAre
<1>5. \A k \in DOMAIN Columns(A, C) :
         GetColumn(ReplaceColumn(A, Number(B), C, D), k, C)
           = IF k = Number(B) THEN D ELSE GetColumn(A, k, C)
  BY <1>3, <1>4, ReplacedIsRead
<1> QED BY <1>2, <1>3, <1>5

\* The registers hold texts and a truth value is one of three texts; only an
\* operation that reads numbers ends the emulator (executeCpuExec,
\* cpu.cpp:419-634).
THEOREM OperationsTypes == OSpec => []OperationsTypeOK
BY OperationsStart, OperationsStep, PTL DEF OSpec

\* OP_IS_NUM guards the operations on numbers: what it accepts throws in none of
\* them unless an int cannot hold it.
THEOREM GuardsHold == OSpec => []GuardedNumbers
<1>1. OInit => GuardedNumbers
  BY Zenon DEF OInit, GuardedNumbers
<1>2. OperationsTypeOK /\ GuardedNumbers /\ [ONext]_ovars => GuardedNumbers'
  <2>1. GuardedNumbers /\ UNCHANGED ovars => GuardedNumbers'
    BY DEF GuardedNumbers, ovars, A, B
  <2> QED BY <2>1, ExceptionIs
<1> QED BY <1>1, <1>2, OperationsTypes, PTL DEF OSpec

\* The quotient and the remainder that OP_DIV and OP_MOD give belong together,
\* for all operands that an int can hold.
THEOREM DivisionIsRight == OSpec => []Division
<1>1. OInit => Division
  <2>1. "-" \notin {"div", "mod"}
    BY Zenon
  <2>2. OInit => last = "-"
    BY Zenon DEF OInit
  <2> QED BY <2>1, <2>2 DEF Division
<1>2. OperationsTypeOK /\ Division /\ [ONext]_ovars => Division'
  <2>1. Division /\ UNCHANGED ovars => Division'
    BY DEF Division, ovars, A, B
  <2> QED BY <2>1, DivisionGives
<1> QED BY <1>1, <1>2, OperationsTypes, PTL DEF OSpec

\* What OP_CONTAINS finds is where OP_GET_COLUMN reads it, and OP_STARTS_WITH and
\* OP_CONCAT_WITH take apart and put together the same texts, for all texts.
THEOREM TextsAgreeAlways == OSpec => []TextsAgree
<1>1. OInit => TextsAgree
  <2>1. "-" \notin {"contains", "startsWith", "concatWith"}
    BY Zenon
  <2>2. OInit => last = "-"
    BY Zenon DEF OInit
  <2> QED BY <2>1, <2>2 DEF TextsAgree
<1>2. OperationsTypeOK /\ TextsAgree /\ [ONext]_ovars => TextsAgree'
  <2>1. TextsAgree /\ UNCHANGED ovars => TextsAgree'
    BY DEF TextsAgree, ovars, A, B, C
  <2> QED BY <2>1, TextsGive
<1> QED BY <1>1, <1>2, OperationsTypes, PTL DEF OSpec

\* A column that OP_REPLACE_COLUMN sets is the one that OP_GET_COLUMN reads, for
\* all texts without an empty column and for separators of any length.
THEOREM ColumnsAgreeAlways == OSpec => []ColumnsAgree
<1>1. OInit => ColumnsAgree
  <2>1. "-" # "replaceColumn"
    BY Zenon
  <2>2. OInit => last = "-"
    BY Zenon DEF OInit
  <2> QED BY <2>1, <2>2 DEF ColumnsAgree
<1>2. OperationsTypeOK /\ ColumnsAgree /\ [ONext]_ovars => ColumnsAgree'
  <2>1. ColumnsAgree /\ UNCHANGED ovars => ColumnsAgree'
    BY DEF ColumnsAgree, ovars, A, B, C, D
  <2> QED BY <2>1, ColumnsGive
<1> QED BY <1>1, <1>2, OperationsTypes, PTL DEF OSpec
=============================================================================
