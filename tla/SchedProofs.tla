---------------------------- MODULE SchedProofs ----------------------------
(***************************************************************************)
(* Proofs about the scheduler, for every number of processes, every size   *)
(* of memory and every quantum: its invariants, round robin, and that it   *)
(* implements the abstract table of processes.                             *)
(***************************************************************************)
EXTENDS MCSched, Lemmas

-----------------------------------------------------------------------------
(* The scan of the ring finds a ready process when there is one *)

\* A scan starts at a slot of the ring
LEMMA ScanStartType ==
    ASSUME NEW c \in Slot \cup {NoSlot}
    PROVE  ScanStart(c) \in Slot /\ 0 \in Slot
BY SchedConstants DEF ScanStart, Slot, NoSlot

\* sys_sched_select_next returns a ready slot, the nearest to the scan's start
LEMMA FirstReadyIsReady ==
    ASSUME NEW table, InState(table, "ready") # {}, NEW b \in Slot
    PROVE  /\ FirstReady(table, b) \in InState(table, "ready")
           /\ \A t \in InState(table, "ready") :
                 Distance(b, FirstReady(table, b)) <= Distance(b, t)
<1> DEFINE R == InState(table, "ready")
           D == {Distance(b, s) : s \in R}
<1>1. \A s \in R : Distance(b, s) \in Nat
  BY SchedConstants DEF InState, Slot, Distance
<1>2. PICK d \in D : \A e \in D : d <= e
  <2>1. D \in SUBSET Nat /\ D # {}
    BY <1>1
  <2> HIDE DEF D
  <2> QED BY <2>1, LeastElement
<1>3. PICK s \in R : d = Distance(b, s)
  OBVIOUS
<1>4. \A t \in R : Distance(b, s) <= Distance(b, t)
  BY <1>2, <1>3
<1> QED BY <1>4 DEF FirstReady

-----------------------------------------------------------------------------
(* Type correctness *)

\* What sys_sched_run leaves alone and what it establishes
SameBlocks(t, u) ==
    /\ Live(u) = Live(t)
    /\ \A s \in Slot : u[s].pid = t[s].pid /\ u[s].start = t[s].start

\* Waking changes states only: all that live are ready, in the same blocks
LEMMA PauseToReadyType ==
    ASSUME NEW table \in [Slot -> Pcb]
    PROVE  /\ PauseToReady(table) \in [Slot -> Pcb]
           /\ SameBlocks(table, PauseToReady(table))
           /\ InState(PauseToReady(table), "ready") = Live(table)
<1>1. ASSUME NEW s \in Slot
      PROVE  /\ PauseToReady(table)[s] \in Pcb
             /\ PauseToReady(table)[s].pid = table[s].pid
             /\ PauseToReady(table)[s].start = table[s].start
             /\ PauseToReady(table)[s].state = "free" <=> table[s].state = "free"
             /\ PauseToReady(table)[s].state = "ready" <=> table[s].state # "free"
  BY DEF PauseToReady, Pcb, FreePcb
<1>2. PauseToReady(table) \in [Slot -> Pcb]
  BY <1>1 DEF PauseToReady
<1>3. SameBlocks(table, PauseToReady(table))
  BY <1>1 DEF SameBlocks, Live
<1>4. InState(PauseToReady(table), "ready") = Live(table)
  BY <1>1 DEF InState, Live
<1> QED BY <1>2, <1>3, <1>4

\* sys_sched_run: the CPU goes to a ready process with a full quantum, or to
\* the shell, and only states change
LEMMA RunStep ==
    ASSUME NEW table \in [Slot -> Pcb], NEW c \in Slot \cup {NoSlot},
           Run(table, c)
    PROVE  /\ pcb' \in [Slot -> Pcb]
           /\ SameBlocks(table, pcb')
           /\ \/ mode' = "user" /\ cur' \in InState(pcb', "ready") /\ timer' = Quantum
              \/ mode' = "shell" /\ cur' = NoSlot /\ timer' = -1
<1> USE DEF Run
<1>1. CASE InState(table, "ready") # {}
  <2>1. Dispatch(table, FirstReady(table, ScanStart(c)))
    BY <1>1 DEF Live, InState
  <2>2. FirstReady(table, ScanStart(c)) \in InState(table, "ready")
    BY <1>1, ScanStartType, FirstReadyIsReady
  <2> QED BY <2>1, <2>2 DEF Dispatch, SameBlocks
<1>2. CASE InState(table, "ready") = {} /\ InState(table, "pause") # {}
  <2> DEFINE woken == PauseToReady(table)
  <2>1. Dispatch(woken, FirstReady(woken, 0))
    BY <1>2 DEF Live, InState
  <2>2. InState(woken, "ready") # {}
    BY <1>2, PauseToReadyType DEF InState, Live
  <2>3. FirstReady(woken, 0) \in InState(woken, "ready")
    BY <2>2, ScanStartType, FirstReadyIsReady
  <2> QED BY <2>1, <2>3, PauseToReadyType DEF Dispatch
<1>3. CASE /\ Live(table) = {} /\ pcb' = table /\ cur' = NoSlot
           /\ mode' = "shell" /\ timer' = -1
  BY <1>3 DEF SameBlocks
<1> QED BY <1>1, <1>2, <1>3

\* The slot that sys_sched_process_load picks is free
LEMMA FirstFreeIsFree ==
    ASSUME InState(pcb, "free") # {}
    PROVE  FirstFree \in Slot /\ pcb[FirstFree].state = "free"
<1>1. InState(pcb, "free") \in SUBSET Nat
  BY SchedConstants DEF InState, Slot
<1>2. PICK s \in InState(pcb, "free") :
          \A t \in InState(pcb, "free") : s <= t
  BY <1>1, LeastElement
<1>3. FirstFree \in InState(pcb, "free")
  BY <1>2 DEF FirstFree
<1> QED BY <1>3 DEF InState

\* The memory variables have their types after a block is taken or given back
LEMMA MemType ==
    ASSUME TypeOK
    PROVE  /\ HasBlock => Block \in Nat
           /\ TakeBlock => pool' \in Seq(Nat) /\ freeStart' \in Nat
           /\ \A s \in Slot : Release(s) => /\ pool' \in Seq(Nat)
                                           /\ freeStart' = freeStart
                                           /\ lost' = lost
<1> USE DEF TypeOK
<1>1. HasBlock => Block \in Nat
  BY DEF HasBlock, Block
<1>2. TakeBlock => pool' \in Seq(Nat) /\ freeStart' \in Nat
  <2>1. CASE pool = <<>>
    BY <2>1, SchedConstants DEF TakeBlock
  <2>2. CASE pool # <<>>
    BY <2>2, HeadTailProperties DEF TakeBlock
  <2> QED BY <2>1, <2>2
<1>3. ASSUME NEW s \in Slot, Release(s)
      PROVE  pool' \in Seq(Nat) /\ freeStart' = freeStart /\ lost' = lost
  <2>1. pcb[s].start \in Nat
    BY DEF Pcb, FreePcb
  <2> QED BY <2>1, <1>3 DEF Release
<1> QED BY <1>1, <1>2, <1>3

\* The table and the memory have their types after a load
LEMMA LoadedType ==
    ASSUME TypeOK, Admit
    PROVE  /\ Loaded \in [Slot -> Pcb]
           /\ pool' \in Seq(Nat) /\ freeStart' \in Nat /\ lost' = lost
           /\ lastPid' \in 0 .. MaxPid /\ lastPid' = lastPid + 1
<1>1. [state |-> "ready", pid |-> lastPid + 1, start |-> Block] \in Pcb
  BY MemType, SchedConstants DEF TypeOK, Admit, Pcb
<1>2. Loaded \in [Slot -> Pcb]
  BY <1>1 DEF Loaded, TypeOK
<1> QED BY <1>2, MemType, SchedConstants DEF Admit, TypeOK

\* and after a load that fails,
LEMMA RejectType ==
    ASSUME TypeOK, Reject
    PROVE  /\ pool' \in Seq(Nat) /\ freeStart' \in Nat
           /\ lost' \in SUBSET Nat /\ pcb' = pcb /\ lastPid' = lastPid
<1>1. CASE UNCHANGED mem /\ UNCHANGED <<pcb, lastPid>>
  BY <1>1 DEF mem, TypeOK
<1>2. CASE HasBlock /\ TakeBlock /\ lost' = lost \cup {Block}
           /\ UNCHANGED <<pcb, lastPid>>
  BY <1>2, MemType DEF TypeOK
<1> QED BY <1>1, <1>2 DEF Reject

\* and the table after the end of a process
LEMMA CleanedType ==
    ASSUME TypeOK, NEW s \in Slot
    PROVE  Cleaned(s) \in [Slot -> Pcb]
BY DEF TypeOK, Cleaned, Pcb

\* checkTimer keeps the timer between -1 and the quantum
LEMMA TickType ==
    ASSUME TypeOK, Tick
    PROVE  timer' \in TimerValue
BY SchedConstants DEF TypeOK, Tick, TimerValue

\* A step of a program is that of a live process in slot cur
IInvType == TypeOK /\ PausedDoesNotExecute

\* The boot establishes the types
LEMMA InitType == Init => IInvType
BY SchedConstants DEF Init, IInvType, TypeOK, PausedDoesNotExecute, Pcb, TimerValue

\* A step that ends in sys_sched_run gives the CPU to a live process that does
\* not wait, or to the shell with no current process
LEMMA RunType ==
    ASSUME TypeOK, NEW table \in [Slot -> Pcb], NEW c \in Slot \cup {NoSlot},
           Run(table, c),
           pool' \in Seq(Nat), freeStart' \in Nat, lost' \in SUBSET Nat,
           lastPid' \in 0 .. MaxPid
    PROVE  IInvType'
<1>1. pcb' \in [Slot -> Pcb] /\ timer' \in TimerValue
      /\ \/ mode' = "user" /\ cur' \in InState(pcb', "ready")
         \/ mode' = "shell" /\ cur' = NoSlot
  BY RunStep DEF TimerValue
<1> QED BY <1>1 DEF IInvType, TypeOK, PausedDoesNotExecute, InState, Live

\* Every step preserves the types: one case per action
LEMMA NextType == IInvType /\ [Next]_vars => IInvType'
<1> SUFFICES ASSUME IInvType, [Next]_vars PROVE IInvType'
  OBVIOUS
<1>0. TypeOK /\ PausedDoesNotExecute
  BY DEF IInvType
<1>1. CASE ShellLoad
  <2>1. /\ pcb' \in [Slot -> Pcb] /\ pool' \in Seq(Nat) /\ freeStart' \in Nat
        /\ lost' \in SUBSET Nat /\ lastPid' \in 0 .. MaxPid
    BY <1>0, <1>1, LoadedType, RejectType DEF ShellLoad, TypeOK
  <2> QED BY <1>0, <1>1, <2>1 DEF ShellLoad, IInvType, TypeOK, PausedDoesNotExecute
<1>2. CASE ShellRun
  BY <1>0, <1>2, RunType DEF ShellRun, TypeOK, mem
<1>3. CASE ShellExec
  <2>1. CASE Admit /\ Run(Loaded, cur)
    BY <1>0, <2>1, LoadedType, RunType DEF TypeOK
  <2>2. CASE Reject /\ UNCHANGED <<cur, mode, timer>>
    BY <1>0, <2>2, RejectType DEF IInvType, TypeOK, PausedDoesNotExecute
  <2> QED BY <1>3, <2>1, <2>2 DEF ShellExec
<1>4. CASE Instruction
  BY <1>0, <1>4, TickType
     DEF Instruction, Executes, Stays, mem, IInvType, TypeOK, PausedDoesNotExecute, Live
<1>5. CASE Exit
  <2>1. cur \in Slot
    BY <1>0, <1>5 DEF Exit, Executes, PausedDoesNotExecute, Live
  <2>2. NoSlot \in Slot \cup {NoSlot}
    OBVIOUS
  <2> QED BY <1>0, <1>5, <2>1, <2>2, MemType, CleanedType, RunType DEF Exit, TypeOK
<1>6. CASE SchedProgram
  <2>1. /\ pcb' \in [Slot -> Pcb] /\ pool' \in Seq(Nat) /\ freeStart' \in Nat
        /\ lost' \in SUBSET Nat /\ lastPid' \in 0 .. MaxPid
    BY <1>0, <1>6, LoadedType, RejectType DEF SchedProgram, TypeOK
  <2>2. cur \in Live(pcb) /\ pcb[cur].state # "pause"
    BY <1>0, <1>6 DEF SchedProgram, Executes, PausedDoesNotExecute
  <2>3. pcb'[cur] = pcb[cur]
    <3>1. CASE pcb' = pcb
      BY <3>1
    <3>2. CASE Admit /\ pcb' = Loaded
      BY <1>0, <2>2, <3>2, FirstFreeIsFree DEF Admit, Loaded, Live, TypeOK
    <3> QED BY <1>6, <3>1, <3>2 DEF SchedProgram, Reject
  <2> QED BY <1>0, <1>6, <2>1, <2>2, <2>3, TickType
          DEF SchedProgram, Stays, IInvType, TypeOK, PausedDoesNotExecute, Live
<1>7. ASSUME NEW pid \in 1 .. MaxPid, KillProcess(pid)
      PROVE  IInvType'
  <2>1. PICK s \in Live(pcb) \ {cur} : Release(s) /\ pcb' = Cleaned(s)
    BY <1>7 DEF KillProcess
  <2>2. s \in Slot
    BY DEF Live
  <2>3. cur \in Live(pcb) /\ pcb[cur].state # "pause"
    BY <1>0, <1>7 DEF KillProcess, Executes, PausedDoesNotExecute
  <2>4. pcb'[cur] = pcb[cur]
    BY <1>0, <2>1, <2>2, <2>3 DEF Cleaned, Live, TypeOK
  <2> QED BY <1>0, <1>7, <2>1, <2>2, <2>3, <2>4, TickType, MemType, CleanedType
          DEF KillProcess, Stays, IInvType, TypeOK, PausedDoesNotExecute, Live
<1>8. CASE SkipSched
  BY <1>0, <1>8
     DEF SkipSched, Executes, Stays, mem, IInvType, TypeOK, PausedDoesNotExecute,
         TimerValue
<1>9. CASE WaitSched
  <2>1. cur \in Slot /\ pcb[cur].state # "free"
    BY <1>0, <1>9 DEF WaitSched, Executes, PausedDoesNotExecute, Live
  <2>2. pcb' \in [Slot -> Pcb] /\ pcb'[cur].state = "pause"
    <3>1. pcb[cur] \in [state : {"ready", "pause"}, pid : 1 .. MaxPid, start : Nat]
      BY <1>0, <2>1 DEF TypeOK, Pcb, FreePcb
    <3>2. [pcb[cur] EXCEPT !.state = "pause"] \in Pcb
      BY <3>1 DEF Pcb
    <3> QED BY <1>0, <1>9, <2>1, <3>1, <3>2 DEF WaitSched, TypeOK
  <2> QED BY <1>0, <1>9, <2>1, <2>2
          DEF WaitSched, Stays, mem, IInvType, TypeOK, PausedDoesNotExecute,
              TimerValue, Live
<1>10. CASE TimerInterrupt
  BY <1>0, <1>10, RunType DEF TimerInterrupt, TypeOK, mem
<1>11. CASE Halt
  BY <1>0, <1>11 DEF Halt, mem, IInvType, TypeOK, PausedDoesNotExecute
<1>12. CASE UNCHANGED vars
  BY <1>0, <1>12 DEF vars, mem, IInvType, TypeOK, PausedDoesNotExecute, Live
<1> QED BY <1>1, <1>2, <1>3, <1>4, <1>5, <1>6, <1>7, <1>8, <1>9, <1>10, <1>11, <1>12
        DEF Next, Shell, Program

\* The variables keep their types, and only a live process that did not ask to
\* wait ever executes an instruction.
THEOREM Types == Spec => [](TypeOK /\ PausedDoesNotExecute)
<1>1. Spec => []IInvType
  BY InitType, NextType, PTL DEF Spec
<1> QED BY <1>1 DEF IInvType

-----------------------------------------------------------------------------
(* Memory: no cell belongs to two blocks *)

\* BlocksDisjoint for a table t, a pool p and an end f of the memory in use
Exclusive(t, p, f) ==
    /\ \A r, s \in Live(t) : r # s => Apart(t[r].start, t[s].start)
    /\ \A i, j \in DOMAIN p : i # j => Apart(p[i], p[j])
    /\ \A s \in Live(t), i \in DOMAIN p : Apart(t[s].start, p[i])
    /\ \A s \in Live(t) : Within(t[s].start, MemStart, f - 1)
    /\ \A i \in DOMAIN p : Within(p[i], MemStart, f - 1)
    /\ f = MemStart \/ f - 1 \in MemStart .. MemEnd

\* Exclusive is BlocksDisjoint over explicit arguments
LEMMA ExclusiveIsBlocksDisjoint ==
    /\ BlocksDisjoint <=> Exclusive(pcb, pool, freeStart)
    /\ BlocksDisjoint' <=> Exclusive(pcb', pool', freeStart')
BY DEF BlocksDisjoint, Exclusive

\* Blocks stay disjoint when only states change
LEMMA ExclusiveSameBlocks ==
    ASSUME NEW t, NEW u, NEW p, NEW f, Exclusive(t, p, f), SameBlocks(t, u)
    PROVE  Exclusive(u, p, f)
<1>1. Live(u) = Live(t) /\ \A s \in Live(t) : u[s].start = t[s].start
  BY DEF SameBlocks, Live
<1> QED BY <1>1 DEF Exclusive

\* What is left of the pool when its head is taken
LEMMA TailOfPool ==
    ASSUME pool \in Seq(Nat), pool # <<>>
    PROVE  /\ 1 \in DOMAIN pool
           /\ Head(pool) = pool[1]
           /\ \A i \in DOMAIN Tail(pool) : /\ i \in Nat
                                          /\ i + 1 \in DOMAIN pool /\ i + 1 # 1
                                          /\ Tail(pool)[i] = pool[i + 1]
<1>1. Len(pool) \in Nat /\ DOMAIN pool = 1 .. Len(pool) /\ Len(pool) # 0
  BY EmptySeq, LenProperties
<1>2. /\ Tail(pool) \in Seq(Nat) /\ Len(Tail(pool)) = Len(pool) - 1
      /\ \A i \in 1 .. Len(Tail(pool)) : Tail(pool)[i] = pool[i + 1]
  BY HeadTailProperties
<1>3. DOMAIN Tail(pool) = 1 .. Len(pool) - 1
  BY <1>2, LenProperties
<1>4. Head(pool) = pool[1]
  OBVIOUS
<1> QED BY <1>1, <1>2, <1>3, <1>4

\* A block that is taken shares no cell with what is owned before or after
LEMMA TakenBlockIsFresh ==
    ASSUME TypeOK, BlocksDisjoint, HasBlock, TakeBlock
    PROVE  /\ Exclusive(pcb, pool', freeStart')
           /\ \A s \in Live(pcb) : Apart(pcb[s].start, Block)
           /\ \A i \in DOMAIN pool' : Apart(pool'[i], Block)
           /\ Within(Block, MemStart, freeStart' - 1)
<1> USE SchedConstants
<1>1. /\ \A s \in Live(pcb) : pcb[s].start \in Nat
      /\ \A i \in DOMAIN pool : pool[i] \in Nat
      /\ freeStart \in Nat /\ pool \in Seq(Nat)
  BY DEF TypeOK, Live, Pcb, FreePcb
<1>2. CASE pool = <<>>
  <2>1. /\ Block = freeStart /\ freeStart' = freeStart + ProcMem + 1 /\ pool' = pool
        /\ freeStart + ProcMem <= MemEnd /\ DOMAIN pool = {}
    BY <1>2 DEF Block, TakeBlock, HasBlock
  <2>2. MemStart <= freeStart
    BY <1>1, <2>1 DEF BlocksDisjoint, TypeOK, HasBlock
  <2> QED BY <1>1, <2>1, <2>2 DEF BlocksDisjoint, Exclusive, Within, Apart
<1>3. CASE pool # <<>>
  <2>1. Block = pool[1] /\ freeStart' = freeStart /\ pool' = Tail(pool)
    BY <1>1, <1>3, TailOfPool DEF Block, TakeBlock
  <2>2. 1 \in DOMAIN pool
        /\ \A i \in DOMAIN pool' : /\ i \in Nat /\ i + 1 \in DOMAIN pool /\ i + 1 # 1
                                   /\ pool'[i] = pool[i + 1]
    BY <1>1, <1>3, <2>1, TailOfPool
  <2>3. \A i, j \in DOMAIN pool' : i # j => Apart(pool'[i], pool'[j])
    <3> SUFFICES ASSUME NEW i \in DOMAIN pool', NEW j \in DOMAIN pool', i # j
                 PROVE  Apart(pool'[i], pool'[j])
      OBVIOUS
    <3>1. i + 1 # j + 1
      BY <2>2
    <3> QED BY <2>2, <3>1 DEF BlocksDisjoint
  <2>4. /\ \A s \in Live(pcb), i \in DOMAIN pool' : Apart(pcb[s].start, pool'[i])
        /\ \A i \in DOMAIN pool' : Within(pool'[i], MemStart, freeStart - 1)
        /\ \A s \in Live(pcb) : Apart(pcb[s].start, Block)
        /\ \A i \in DOMAIN pool' : Apart(pool'[i], Block)
        /\ Within(Block, MemStart, freeStart - 1)
    BY <2>1, <2>2 DEF BlocksDisjoint
  <2> QED BY <2>1, <2>3, <2>4 DEF BlocksDisjoint, Exclusive
<1> QED BY <1>2, <1>3

\* A load: the new process gets a block that shares no cell with any other
LEMMA LoadedIsExclusive ==
    ASSUME TypeOK, BlocksDisjoint, Admit
    PROVE  Exclusive(Loaded, pool', freeStart')
<1> DEFINE n == FirstFree
<1>1. n \in Slot /\ n \notin Live(pcb)
  BY FirstFreeIsFree DEF Admit, Live
<1>2. /\ Live(Loaded) = Live(pcb) \cup {n}
      /\ Loaded[n].start = Block
      /\ \A s \in Live(pcb) : Loaded[s].start = pcb[s].start
  BY <1>1 DEF Loaded, Live, TypeOK
<1>3. /\ Exclusive(pcb, pool', freeStart')
      /\ \A s \in Live(pcb) : Apart(pcb[s].start, Block)
      /\ \A i \in DOMAIN pool' : Apart(pool'[i], Block)
      /\ Within(Block, MemStart, freeStart' - 1)
  BY TakenBlockIsFresh DEF Admit
<1>4. \A r, s \in Live(Loaded) : r # s => Apart(Loaded[r].start, Loaded[s].start)
  <2> SUFFICES ASSUME NEW r \in Live(Loaded), NEW s \in Live(Loaded), r # s
               PROVE  Apart(Loaded[r].start, Loaded[s].start)
    OBVIOUS
  <2>1. CASE r = n
    BY <2>1, <1>2, <1>3 DEF Apart
  <2>2. CASE s = n
    BY <2>2, <1>2, <1>3 DEF Apart
  <2>3. CASE r # n /\ s # n
    BY <2>3, <1>2, <1>3 DEF Exclusive
  <2> QED BY <2>1, <2>2, <2>3
<1>5. \A s \in Live(Loaded), i \in DOMAIN pool' : Apart(Loaded[s].start, pool'[i])
  BY <1>2, <1>3 DEF Exclusive, Apart
<1>6. \A s \in Live(Loaded) : Within(Loaded[s].start, MemStart, freeStart' - 1)
  BY <1>2, <1>3 DEF Exclusive
<1> QED BY <1>3, <1>4, <1>5, <1>6 DEF Exclusive

\* The pool after a block was put at its head
LEMMA PoolPush ==
    ASSUME pool \in Seq(Nat), NEW b \in Nat, NEW q, q = <<b>> \o pool
    PROVE  /\ q[1] = b
           /\ \A i \in DOMAIN q : \/ i = 1
                                 \/ /\ i - 1 \in DOMAIN pool
                                    /\ q[i] = pool[i - 1]
           /\ DOMAIN q \subseteq Nat
<1>1. <<b>> \in Seq(Nat) /\ Len(<<b>>) = 1 /\ <<b>>[1] = b
  OBVIOUS
<1>2. Len(pool) \in Nat /\ DOMAIN pool = 1 .. Len(pool)
  BY LenProperties
<1>3. /\ q \in Seq(Nat) /\ Len(q) = 1 + Len(pool)
      /\ \A i \in 1 .. 1 + Len(pool) :
            q[i] = IF i <= 1 THEN <<b>>[i] ELSE pool[i - 1]
  BY <1>1, ConcatProperties
<1>4. DOMAIN q = 1 .. 1 + Len(pool)
  BY <1>3, LenProperties
<1> QED BY <1>1, <1>2, <1>3, <1>4

\* exit and kill: the block of a live process moves to the pool
LEMMA CleanedIsExclusive ==
    ASSUME TypeOK, BlocksDisjoint, NEW s \in Live(pcb), Release(s)
    PROVE  Exclusive(Cleaned(s), pool', freeStart')
<1> DEFINE t == Cleaned(s)
           b == pcb[s].start
<1>1. s \in Slot /\ b \in Nat /\ pool \in Seq(Nat) /\ pool' = <<b>> \o pool
      /\ freeStart' = freeStart
  BY DEF Live, TypeOK, Pcb, FreePcb, Release
<1>2. Live(t) = Live(pcb) \ {s} /\ \A r \in Live(t) : t[r].start = pcb[r].start
  BY <1>1 DEF Cleaned, Live, TypeOK, FreePcb
<1> HIDE DEF t, b
<1>3. /\ pool'[1] = b
      /\ \A i \in DOMAIN pool' : \/ i = 1
                                \/ /\ i - 1 \in DOMAIN pool
                                   /\ pool'[i] = pool[i - 1]
      /\ DOMAIN pool' \subseteq Nat
  BY <1>1, PoolPush
<1>4. /\ \A r \in Live(pcb) \ {s} : Apart(pcb[r].start, b)
      /\ \A i \in DOMAIN pool : Apart(b, pool[i])
      /\ Within(b, MemStart, freeStart - 1)
  BY DEF BlocksDisjoint, b
<1>5. \A i, j \in DOMAIN pool' : i # j => Apart(pool'[i], pool'[j])
  <2> SUFFICES ASSUME NEW i \in DOMAIN pool', NEW j \in DOMAIN pool', i # j
               PROVE  Apart(pool'[i], pool'[j])
    OBVIOUS
  <2>1. CASE i = 1
    BY <2>1, <1>3, <1>4 DEF Apart
  <2>2. CASE j = 1
    BY <2>2, <1>3, <1>4 DEF Apart
  <2>3. CASE i # 1 /\ j # 1
    <3>1. i - 1 # j - 1
      BY <1>3
    <3> QED BY <2>3, <3>1, <1>3 DEF BlocksDisjoint
  <2> QED BY <2>1, <2>2, <2>3
<1>6. \A r \in Live(t), i \in DOMAIN pool' : Apart(t[r].start, pool'[i])
  BY <1>2, <1>3, <1>4 DEF BlocksDisjoint
<1>7. \A i \in DOMAIN pool' : Within(pool'[i], MemStart, freeStart - 1)
  BY <1>3, <1>4 DEF BlocksDisjoint
<1>8. Exclusive(t, pool', freeStart')
  BY <1>1, <1>2, <1>5, <1>6, <1>7 DEF BlocksDisjoint, Exclusive
<1> QED BY <1>8 DEF t

-----------------------------------------------------------------------------
(* Pids: no two processes share one *)

\* PidsUnique for a table t and a last pid l
Distinct(t, l) ==
    /\ \A r, s \in Live(t) : r # s => t[r].pid # t[s].pid
    /\ \A s \in Live(t) : t[s].pid <= l

\* A load gives out a pid above all others
LEMMA LoadedIsDistinct ==
    ASSUME TypeOK, PidsUnique, Admit
    PROVE  Distinct(Loaded, lastPid')
<1> DEFINE n == FirstFree
<1>1. n \in Slot /\ n \notin Live(pcb)
  BY FirstFreeIsFree DEF Admit, Live
<1>2. /\ Live(Loaded) = Live(pcb) \cup {n}
      /\ Loaded[n].pid = lastPid + 1
      /\ \A s \in Live(pcb) : Loaded[s].pid = pcb[s].pid
  BY <1>1 DEF Loaded, Live, TypeOK
<1>3. /\ lastPid' = lastPid + 1 /\ lastPid \in Nat
      /\ \A s \in Live(pcb) : pcb[s].pid \in Nat /\ pcb[s].pid <= lastPid
      /\ \A r, s \in Live(pcb) : r # s => pcb[r].pid # pcb[s].pid
  BY SchedConstants DEF Admit, TypeOK, PidsUnique, Live, Pcb, FreePcb
<1> QED BY <1>2, <1>3 DEF Distinct

\* The end of a process leaves the pids of the others alone
LEMMA CleanedIsDistinct ==
    ASSUME TypeOK, PidsUnique, NEW s \in Live(pcb)
    PROVE  Distinct(Cleaned(s), lastPid)
<1>1. /\ Live(Cleaned(s)) \subseteq Live(pcb)
      /\ \A r \in Live(Cleaned(s)) : Cleaned(s)[r].pid = pcb[r].pid
  BY DEF Cleaned, Live, TypeOK, FreePcb
<1> QED BY <1>1 DEF PidsUnique, Distinct

-----------------------------------------------------------------------------
(* Every cell taken from free memory has an owner *)

Cells(b) == b .. b + ProcMem

\* CellsAccounted for a table t, a pool p, lost blocks l and memory up to f
Accounted(t, p, l, f) ==
    \A a \in MemStart .. f - 1 :
        \/ \E s \in Live(t) : a \in Cells(t[s].start)
        \/ \E i \in DOMAIN p : a \in Cells(p[i])
        \/ \E b \in l : a \in Cells(b)

\* A taken block, added to what is left of the pool, accounts for all cells
LEMMA TakenBlockAccounts ==
    ASSUME TypeOK, CellsAccounted, HasBlock, TakeBlock,
           NEW a \in MemStart .. freeStart' - 1
    PROVE  \/ \E s \in Live(pcb) : a \in Cells(pcb[s].start)
           \/ \E i \in DOMAIN pool' : a \in Cells(pool'[i])
           \/ \E b \in lost : a \in Cells(b)
           \/ a \in Cells(Block)
<1> USE SchedConstants
<1>1. pool \in Seq(Nat) /\ freeStart \in Nat
  BY DEF TypeOK
<1>2. CASE pool = <<>>
  <2>1. Block = freeStart /\ freeStart' = freeStart + ProcMem + 1 /\ pool' = pool
    BY <1>2 DEF Block, TakeBlock
  <2>2. a \in Cells(Block) \/ a \in MemStart .. freeStart - 1
    BY <1>1, <2>1 DEF Cells
  <2> QED BY <2>1, <2>2 DEF CellsAccounted, Cells
<1>3. CASE pool # <<>>
  <2>1. Block = pool[1] /\ freeStart' = freeStart /\ pool' = Tail(pool)
    BY <1>1, <1>3, TailOfPool DEF Block, TakeBlock
  <2>2. ASSUME NEW i \in DOMAIN pool, i # 1
        PROVE  i - 1 \in DOMAIN pool' /\ pool'[i - 1] = pool[i]
    <3>1. /\ Len(pool) \in Nat /\ DOMAIN pool = 1 .. Len(pool)
          /\ pool' \in Seq(Nat) /\ Len(pool') = Len(pool) - 1
          /\ \A j \in 1 .. Len(pool') : pool'[j] = pool[j + 1]
      BY <1>1, <1>3, <2>1, LenProperties, HeadTailProperties
    <3>2. DOMAIN pool' = 1 .. Len(pool) - 1
      BY <3>1, LenProperties
    <3>3. i - 1 \in 1 .. Len(pool') /\ i - 1 + 1 = i
      BY <2>2, <3>1
    <3> QED BY <3>1, <3>2, <3>3
  <2>3. \/ \E s \in Live(pcb) : a \in Cells(pcb[s].start)
        \/ \E i \in DOMAIN pool : a \in Cells(pool[i])
        \/ \E b \in lost : a \in Cells(b)
    BY <2>1 DEF CellsAccounted, Cells
  <2>4. ASSUME NEW i \in DOMAIN pool, a \in Cells(pool[i])
        PROVE  a \in Cells(Block) \/ \E j \in DOMAIN pool' : a \in Cells(pool'[j])
    BY <2>1, <2>2, <2>4
  <2> QED BY <2>3, <2>4
<1> QED BY <1>2, <1>3

\* A load: the taken block is accounted for by the new process
LEMMA LoadedIsAccounted ==
    ASSUME TypeOK, CellsAccounted, Admit
    PROVE  Accounted(Loaded, pool', lost', freeStart')
<1> DEFINE n == FirstFree
<1>1. n \in Slot /\ n \notin Live(pcb)
  BY FirstFreeIsFree DEF Admit, Live
<1>2. /\ n \in Live(Loaded) /\ Loaded[n].start = Block
      /\ \A s \in Live(pcb) : s \in Live(Loaded) /\ Loaded[s].start = pcb[s].start
  BY <1>1 DEF Loaded, Live, TypeOK
<1> HIDE DEF n
<1>3. lost' = lost /\ HasBlock /\ TakeBlock
  BY DEF Admit
<1> SUFFICES ASSUME NEW a \in MemStart .. freeStart' - 1
             PROVE  \/ \E s \in Live(Loaded) : a \in Cells(Loaded[s].start)
                    \/ \E i \in DOMAIN pool' : a \in Cells(pool'[i])
                    \/ \E b \in lost' : a \in Cells(b)
  BY DEF Accounted
<1> QED BY <1>2, <1>3, TakenBlockAccounts

\* exit and kill: the block is accounted for by the pool
LEMMA CleanedIsAccounted ==
    ASSUME TypeOK, CellsAccounted, NEW s \in Live(pcb), Release(s)
    PROVE  Accounted(Cleaned(s), pool', lost', freeStart')
<1> DEFINE t == Cleaned(s)
           b == pcb[s].start
<1>1. s \in Slot /\ b \in Nat /\ pool \in Seq(Nat) /\ pool' = <<b>> \o pool
      /\ freeStart' = freeStart /\ lost' = lost
  BY DEF Live, TypeOK, Pcb, FreePcb, Release
<1>2. \A r \in Live(pcb) \ {s} : r \in Live(t) /\ t[r].start = pcb[r].start
  BY <1>1 DEF Cleaned, Live, TypeOK, FreePcb
<1> HIDE DEF t, b
<1>3. /\ 1 \in DOMAIN pool' /\ pool'[1] = b
      /\ \A i \in DOMAIN pool : i + 1 \in DOMAIN pool' /\ pool'[i + 1] = pool[i]
  <2>1. <<b>> \in Seq(Nat) /\ Len(<<b>>) = 1 /\ <<b>>[1] = b
    BY <1>1
  <2>2. Len(pool) \in Nat /\ DOMAIN pool = 1 .. Len(pool)
    BY <1>1, LenProperties
  <2>3. /\ pool' \in Seq(Nat) /\ Len(pool') = 1 + Len(pool)
        /\ \A i \in 1 .. 1 + Len(pool) :
              pool'[i] = IF i <= 1 THEN <<b>>[i] ELSE pool[i - 1]
    BY <1>1, <2>1, ConcatProperties
  <2>4. DOMAIN pool' = 1 .. 1 + Len(pool)
    BY <2>3, LenProperties
  <2> QED BY <2>1, <2>2, <2>3, <2>4
<1> SUFFICES ASSUME NEW a \in MemStart .. freeStart' - 1
             PROVE  \/ \E r \in Live(t) : a \in Cells(t[r].start)
                    \/ \E i \in DOMAIN pool' : a \in Cells(pool'[i])
                    \/ \E c \in lost' : a \in Cells(c)
  BY DEF Accounted, t
<1>4. \/ \E r \in Live(pcb) : a \in Cells(pcb[r].start)
      \/ \E i \in DOMAIN pool : a \in Cells(pool[i])
      \/ \E c \in lost : a \in Cells(c)
  BY <1>1 DEF CellsAccounted, Cells
<1>5. ASSUME NEW r \in Live(pcb), a \in Cells(pcb[r].start)
      PROVE  \/ \E q \in Live(t) : a \in Cells(t[q].start)
             \/ \E i \in DOMAIN pool' : a \in Cells(pool'[i])
  <2>1. CASE r = s
    BY <1>3, <1>5, <2>1 DEF b
  <2>2. CASE r # s
    BY <1>2, <1>5, <2>2
  <2> QED BY <2>1, <2>2
<1> QED BY <1>1, <1>3, <1>4, <1>5

-----------------------------------------------------------------------------
(* The inductive invariant *)

IInv == /\ IInvType
        /\ BlocksDisjoint
        /\ PidsUnique
        /\ CellsAccounted

\* The three parts about blocks and pids, for given values of the variables
Consistent(t, p, f, l, n) ==
    Exclusive(t, p, f) /\ Distinct(t, n) /\ Accounted(t, p, l, f)

\* Consistent is the three invariants over explicit arguments
LEMMA ConsistentIsInv ==
    /\ BlocksDisjoint /\ PidsUnique /\ CellsAccounted
          <=> Consistent(pcb, pool, freeStart, lost, lastPid)
    /\ BlocksDisjoint' /\ PidsUnique' /\ CellsAccounted'
          <=> Consistent(pcb', pool', freeStart', lost', lastPid')
BY DEF Consistent, BlocksDisjoint, Exclusive, PidsUnique, Distinct,
       CellsAccounted, Accounted, Cells

\* A change of states alone, as by sys_sched_run, changes none of the three
LEMMA ConsistentSameBlocks ==
    ASSUME NEW t, NEW u, NEW p, NEW f, NEW l, NEW n,
           Consistent(t, p, f, l, n), SameBlocks(t, u)
    PROVE  Consistent(u, p, f, l, n)
<1>1. Live(u) = Live(t) /\ \A s \in Live(t) : /\ u[s].start = t[s].start
                                             /\ u[s].pid = t[s].pid
  BY DEF SameBlocks, Live
<1>2. Exclusive(u, p, f)
  BY ExclusiveSameBlocks DEF Consistent
<1>3. Distinct(u, n)
  BY <1>1 DEF Distinct, Consistent
<1>4. Accounted(u, p, l, f)
  BY <1>1 DEF Accounted, Consistent
<1> QED BY <1>2, <1>3, <1>4 DEF Consistent

\* A load preserves the three,
LEMMA LoadedIsConsistent ==
    ASSUME IInv, Admit
    PROVE  Consistent(Loaded, pool', freeStart', lost', lastPid')
BY LoadedIsExclusive, LoadedIsDistinct, LoadedIsAccounted
   DEF IInv, IInvType, Consistent

\* so does a load that fails, with or without the loss of a block,
LEMMA RejectIsConsistent ==
    ASSUME IInv, Reject
    PROVE  Consistent(pcb', pool', freeStart', lost', lastPid')
<1>1. CASE UNCHANGED mem /\ UNCHANGED <<pcb, lastPid>>
  BY <1>1, ConsistentIsInv DEF IInv, mem
<1>2. CASE HasBlock /\ TakeBlock /\ lost' = lost \cup {Block}
           /\ UNCHANGED <<pcb, lastPid>>
  <2>1. Exclusive(pcb, pool', freeStart')
    BY <1>2, TakenBlockIsFresh DEF IInv, IInvType
  <2>2. Accounted(pcb, pool', lost', freeStart')
    <3> SUFFICES ASSUME NEW a \in MemStart .. freeStart' - 1
                 PROVE  \/ \E s \in Live(pcb) : a \in Cells(pcb[s].start)
                        \/ \E i \in DOMAIN pool' : a \in Cells(pool'[i])
                        \/ \E b \in lost' : a \in Cells(b)
      BY DEF Accounted
    <3> QED BY <1>2, TakenBlockAccounts DEF IInv, IInvType
  <2>3. Distinct(pcb, lastPid)
    BY DEF IInv, PidsUnique, Distinct
  <2> QED BY <1>2, <2>1, <2>2, <2>3 DEF Consistent
<1> QED BY <1>1, <1>2 DEF Reject

\* and so does the end of a process
LEMMA CleanedIsConsistent ==
    ASSUME IInv, NEW s \in Live(pcb), Release(s), lastPid' = lastPid
    PROVE  Consistent(Cleaned(s), pool', freeStart', lost', lastPid')
BY CleanedIsExclusive, CleanedIsDistinct, CleanedIsAccounted
   DEF IInv, IInvType, Consistent

\* At the boot nothing is allocated
LEMMA InitIInv == Init => IInv
<1> SUFFICES ASSUME Init PROVE IInv
  OBVIOUS
<1>1. Live(pcb) = {} /\ DOMAIN pool = {} /\ freeStart = MemStart
  BY DEF Init, Live, FreePcb
<1>2. MemStart .. freeStart - 1 = {}
  BY <1>1, SchedConstants
<1> QED BY <1>1, <1>2, InitType DEF IInv, BlocksDisjoint, PidsUnique, CellsAccounted

\* Every step preserves the inductive invariant: one case per action
LEMMA NextIInv == IInv /\ [Next]_vars => IInv'
<1> SUFFICES ASSUME IInv, [Next]_vars
             PROVE  Consistent(pcb', pool', freeStart', lost', lastPid')
  BY ConsistentIsInv, NextType DEF IInv
<1> DEFINE Goal == Consistent(pcb', pool', freeStart', lost', lastPid')
<1>0. /\ TypeOK /\ PausedDoesNotExecute
      /\ Consistent(pcb, pool, freeStart, lost, lastPid)
  BY ConsistentIsInv DEF IInv, IInvType
<1>1. ASSUME NEW c \in Slot \cup {NoSlot}, Run(pcb, c), UNCHANGED <<lastPid, mem>>
      PROVE  Goal
  <2>1. SameBlocks(pcb, pcb')
    BY <1>0, <1>1, RunStep DEF TypeOK
  <2> QED BY <1>0, <1>1, <2>1, ConsistentSameBlocks DEF mem
<1>2. CASE ShellLoad
  BY <1>2, LoadedIsConsistent, RejectIsConsistent DEF ShellLoad
<1>3. CASE ShellRun
  BY <1>0, <1>1, <1>3 DEF ShellRun, TypeOK
<1>4. CASE ShellExec
  <2>1. CASE Admit /\ Run(Loaded, cur)
    <3>1. SameBlocks(Loaded, pcb')
      BY <1>0, <2>1, LoadedType, RunStep DEF TypeOK
    <3> QED BY <2>1, <3>1, LoadedIsConsistent, ConsistentSameBlocks
  <2>2. CASE Reject
    BY <2>2, RejectIsConsistent
  <2> QED BY <1>4, <2>1, <2>2 DEF ShellExec
<1>5. CASE Exit
  <2>1. cur \in Live(pcb) /\ cur \in Slot /\ NoSlot \in Slot \cup {NoSlot}
    BY <1>0, <1>5 DEF Exit, Executes, PausedDoesNotExecute, Live
  <2>2. SameBlocks(Cleaned(cur), pcb')
    BY <1>0, <1>5, <2>1, CleanedType, RunStep DEF Exit
  <2>3. Consistent(Cleaned(cur), pool', freeStart', lost', lastPid')
    BY <1>5, <2>1, CleanedIsConsistent DEF Exit
  <2> QED BY <2>2, <2>3, ConsistentSameBlocks
<1>6. CASE SchedProgram
  BY <1>6, LoadedIsConsistent, RejectIsConsistent DEF SchedProgram
<1>7. ASSUME NEW pid \in 1 .. MaxPid, KillProcess(pid)
      PROVE  Goal
  <2>1. PICK s \in Live(pcb) : Release(s) /\ pcb' = Cleaned(s) /\ lastPid' = lastPid
    BY <1>7 DEF KillProcess
  <2> QED BY <2>1, CleanedIsConsistent
<1>8. CASE WaitSched
  <2>1. cur \in Slot /\ pcb[cur].state # "free"
    BY <1>0, <1>8 DEF WaitSched, Executes, PausedDoesNotExecute, Live
  <2>2. SameBlocks(pcb, pcb')
    BY <1>0, <1>8, <2>1 DEF WaitSched, SameBlocks, Live, TypeOK, Pcb, FreePcb
  <2> QED BY <1>0, <1>8, <2>2, ConsistentSameBlocks DEF WaitSched, mem
<1>9. CASE TimerInterrupt
  BY <1>0, <1>1, <1>9 DEF TimerInterrupt, TypeOK
<1>10. CASE UNCHANGED <<pcb, lastPid, mem>>
  BY <1>0, <1>10 DEF mem
<1>11. Instruction \/ SkipSched \/ Halt \/ UNCHANGED vars
          => UNCHANGED <<pcb, lastPid, mem>>
  BY DEF Instruction, SkipSched, Halt, vars, mem
<1> QED BY <1>2, <1>3, <1>4, <1>5, <1>6, <1>7, <1>8, <1>9, <1>10, <1>11
        DEF Next, Shell, Program

\* In every reachable state types, blocks, accounting and pids are right
\* together: what loads, exits, kills and the scheduler rely on.
THEOREM Invariance == Spec => []IInv
BY InitIInv, NextIInv, PTL DEF Spec

\* No cell of RAM is ever in two blocks: not in those of two processes, not in
\* that of a process and in the pool that the next load takes its block from.
THEOREM MemoryExclusion == Spec => []BlocksDisjoint
BY Invariance, PTL DEF IInv

\* A pid is the name of at most one process.
THEOREM PidUniqueness == Spec => []PidsUnique
BY Invariance, PTL DEF IInv

\* The only memory that is neither a process's nor in the pool is that of the
\* blocks taken for programs that then could not be loaded.
THEOREM MemoryAccounting == Spec => []CellsAccounted
BY Invariance, PTL DEF IInv

\* Whoever executes is alive and has not asked to wait, and the shell never runs
\* on top of a process.
THEOREM CpuOwnership == Spec => []PausedDoesNotExecute
BY Types, PTL

-----------------------------------------------------------------------------
(* Round robin: the slots that ran since a ready one did lie between it and  *)
(* the current one in the ring                                               *)

RingOrder ==
    \A t \in Slot : passed[t] # {} =>
        /\ pcb[t].state = "ready"
        /\ cur \in Slot
        /\ \A x \in passed[t] :
              x \in Slot /\ x # t /\ Distance(t, x) <= Distance(t, cur)

IInvOrder == IInvType /\ passed \in [Slot -> SUBSET Slot] /\ RingOrder

\* The scan goes from the current slot to the first ready one, f, and does not
\* get past a ready slot t: what is in the ring between t and the current slot
\* is behind, and f is ahead of it.
LEMMA ScanIsAhead ==
    ASSUME NEW c \in Slot, NEW f \in Slot, NEW t \in Slot, f # t,
           Distance(ScanStart(c), f) <= Distance(ScanStart(c), t)
    PROVE  \A x \in Slot : x # t /\ Distance(t, x) <= Distance(t, c)
              => x # f /\ Distance(t, x) <= Distance(t, f)
<1>1. ScanStart(c) = IF c = MaxProc - 1 THEN 0 ELSE c + 1
  BY SchedConstants DEF ScanStart, Slot, NoSlot
<1> QED BY <1>1, SchedConstants DEF Distance, Slot

\* A preemption while somebody is ready leaves the table alone
LEMMA PreemptStep ==
    ASSUME IInvType, TimerInterrupt, InState(pcb, "ready") # {}
    PROVE  /\ cur \in Slot
           /\ pcb' = pcb
           /\ cur' \in InState(pcb, "ready")
           /\ \A t \in InState(pcb, "ready") :
                 Distance(ScanStart(cur), cur') <= Distance(ScanStart(cur), t)
<1>1. cur \in Slot
  BY DEF IInvType, PausedDoesNotExecute, TimerInterrupt, Live
<1>2. Dispatch(pcb, FirstReady(pcb, ScanStart(cur)))
  BY DEF TimerInterrupt, Run, InState, Live
<1>3. ScanStart(cur) \in Slot
  BY <1>1, ScanStartType
<1> QED BY <1>1, <1>2, <1>3, FirstReadyIsReady DEF Dispatch

\* Nobody has been passed at the boot
LEMMA InitOrder == HInit => IInvOrder
BY InitType DEF HInit, IInvOrder, RingOrder

\* Every step keeps the order
LEMMA NextOrder == IInvOrder /\ [HNext]_hvars => IInvOrder'
<1> SUFFICES ASSUME IInvOrder, [HNext]_hvars PROVE IInvOrder'
  OBVIOUS
<1>0. IInvType /\ TypeOK /\ PausedDoesNotExecute /\ RingOrder
      /\ passed \in [Slot -> SUBSET Slot]
  BY DEF IInvOrder, IInvType
<1>1. IInvType'
  BY <1>0, NextType DEF HNext, hvars, Next, Program
<1>2. CASE TimerInterrupt /\ Dispatched(cur')
  <2>1. CASE InState(pcb, "ready") = {}
    <3>1. passed' = [t \in Slot |-> {}]
      BY <1>2, <2>1 DEF Dispatched, InState
    <3> QED BY <1>1, <3>1 DEF IInvOrder, RingOrder
  <2>2. CASE InState(pcb, "ready") # {}
    <3>1. /\ cur \in Slot /\ pcb' = pcb /\ cur' \in InState(pcb, "ready")
          /\ \A t \in InState(pcb, "ready") :
                Distance(ScanStart(cur), cur') <= Distance(ScanStart(cur), t)
      BY <1>0, <1>2, <2>2, PreemptStep
    <3>2. cur' \in Slot
      BY <3>1 DEF InState
    <3>3. passed' \in [Slot -> SUBSET Slot]
      BY <1>0, <1>2, <3>2 DEF Dispatched
    <3>4. ASSUME NEW t \in Slot, passed'[t] # {}
          PROVE  /\ pcb'[t].state = "ready"
                 /\ \A x \in passed'[t] :
                       x \in Slot /\ x # t /\ Distance(t, x) <= Distance(t, cur')
      <4>1. /\ t # cur' /\ pcb[t].state = "ready"
            /\ passed'[t] = passed[t] \cup {cur'}
        BY <1>2, <3>4 DEF Dispatched
      <4>2. t \in InState(pcb, "ready")
        BY <4>1 DEF InState
      <4>3. ASSUME NEW x \in passed[t]
            PROVE  x \in Slot /\ x # t /\ Distance(t, x) <= Distance(t, cur')
        <5>1. x \in Slot /\ x # t /\ Distance(t, x) <= Distance(t, cur)
          BY <1>0, <4>3 DEF RingOrder
        <5> QED BY <3>1, <3>2, <4>1, <4>2, <5>1, ScanIsAhead
      <4>4. \A u \in Slot : Distance(t, u) <= Distance(t, u)
        BY SchedConstants DEF Distance, Slot
      <4> QED BY <3>1, <3>2, <4>1, <4>3, <4>4
    <3> QED BY <1>1, <3>2, <3>3, <3>4 DEF IInvOrder, RingOrder
  <2> QED BY <2>1, <2>2
<1>3. CASE (Shell \/ Exit) /\ passed' = [s \in Slot |-> {}]
  BY <1>1, <1>3 DEF IInvOrder, RingOrder
<1>4. CASE /\ Instruction \/ SkipSched \/ Halt
           /\ UNCHANGED passed
  <2>1. pcb' = pcb /\ cur' = cur
    BY <1>4 DEF Instruction, SkipSched, Halt, Stays
  <2> QED BY <1>0, <1>1, <1>4, <2>1 DEF IInvOrder, RingOrder
<1>5. CASE SchedProgram /\ UNCHANGED passed
  <2>1. cur' = cur /\ \A t \in Slot : pcb[t].state = "ready" => pcb'[t].state = "ready"
    <3>1. CASE Admit /\ pcb' = Loaded
      BY <1>0, <1>5, <3>1, FirstFreeIsFree
         DEF Admit, Loaded, SchedProgram, Stays, TypeOK
    <3> QED BY <1>5, <3>1 DEF SchedProgram, Reject, Stays
  <2> QED BY <1>0, <1>1, <1>5, <2>1 DEF IInvOrder, RingOrder
<1>6. CASE WaitSched /\ UNCHANGED passed
  <2>1. cur' = cur /\ cur \in Slot
        /\ \A t \in Slot \ {cur} : pcb'[t] = pcb[t]
    BY <1>0, <1>6 DEF WaitSched, Executes, Stays, PausedDoesNotExecute, Live, TypeOK
  <2>2. passed[cur] = {}
    <3> SUFFICES ASSUME NEW x \in passed[cur] PROVE FALSE
      OBVIOUS
    <3>1. x \in Slot /\ x # cur /\ Distance(cur, x) <= Distance(cur, cur)
      BY <1>0, <2>1 DEF RingOrder
    <3> QED BY <2>1, <3>1, SchedConstants DEF Distance, Slot
  <2> QED BY <1>0, <1>1, <1>6, <2>1, <2>2 DEF IInvOrder, RingOrder
<1>7. ASSUME NEW pid \in 1 .. MaxPid, KillProcess(pid),
             passed' = [s \in Slot |-> IF pcb'[s].state = "free" THEN {} ELSE passed[s]]
      PROVE  IInvOrder'
  <2>1. PICK s \in Live(pcb) \ {cur} : pcb' = Cleaned(s) /\ cur' = cur
    BY <1>7 DEF KillProcess, Stays
  <2>2. \A t \in Slot : passed'[t] # {} => passed'[t] = passed[t] /\ pcb'[t] = pcb[t]
    BY <1>0, <1>7, <2>1 DEF Cleaned, Live, FreePcb, TypeOK
  <2> QED BY <1>0, <1>1, <1>7, <2>1, <2>2 DEF IInvOrder, RingOrder
<1>8. CASE UNCHANGED hvars
  BY <1>0, <1>1, <1>8 DEF hvars, vars, IInvOrder, RingOrder
<1> QED BY <1>2, <1>3, <1>4, <1>5, <1>6, <1>7, <1>8 DEF HNext

\* Round robin: as long as no process exits, nobody gets the CPU for the
\* second time while somebody who was ready all along has not had it.
THEOREM RoundRobin == HSpec => NoOvertaking
<1>1. IInvOrder /\ [HNext]_hvars
         => [TimerInterrupt =>
                \A s \in InState(pcb, "ready") \ {cur'} : cur' \notin passed[s]]_hvars
  <2> SUFFICES ASSUME IInvOrder, TimerInterrupt,
                      NEW s \in InState(pcb, "ready") \ {cur'}
               PROVE  cur' \notin passed[s]
    OBVIOUS
  <2>1. /\ cur \in Slot /\ cur' \in InState(pcb, "ready")
        /\ Distance(ScanStart(cur), cur') <= Distance(ScanStart(cur), s)
    BY PreemptStep DEF IInvOrder
  <2>2. cur' \in Slot /\ s \in Slot /\ s # cur'
    BY <2>1 DEF InState
  <2>3. \A x \in passed[s] : x \in Slot /\ x # s /\ Distance(s, x) <= Distance(s, cur)
    BY <2>2 DEF IInvOrder, RingOrder
  <2> QED BY <2>1, <2>2, <2>3, ScanIsAhead
<1> QED BY <1>1, InitOrder, NextOrder, PTL DEF HSpec, NoOvertaking

-----------------------------------------------------------------------------
(* The scheduler implements the abstract table of processes               *)

\* The pids of a table, and of its processes in one state
Pids(t)      == {t[s].pid : s \in Live(t)}
Paused(t)    == {t[s].pid : s \in InState(t, "pause")}
Runner(t, c) == IF c = NoSlot THEN 0 ELSE t[c].pid

\* A process of a table is ready or paused
LEMMA PidsOfStates ==
    ASSUME NEW t \in [Slot -> Pcb]
    PROVE  Pids(t) = {t[s].pid : s \in InState(t, "ready")}
                     \cup {t[s].pid : s \in InState(t, "pause")}
<1>1. Live(t) = InState(t, "ready") \cup InState(t, "pause")
  BY DEF Live, InState, Pcb, FreePcb
<1> QED BY <1>1 DEF Pids

\* What Abs!Choose says, of the table before and after
Chooses(t, u, r) ==
    /\ Pids(u) = Pids(t)
    /\ \/ /\ Pids(t) \ Paused(t) # {}
          /\ Paused(u) = Paused(t)
          /\ r \in Pids(t) \ Paused(t)
       \/ /\ Pids(t) \ Paused(t) = {}
          /\ Pids(t) # {}
          /\ Paused(u) = {}
          /\ r \in Pids(t)
       \/ /\ Pids(t) = {}
          /\ Paused(u) = {}
          /\ r = 0

\* The pids that do not wait are those of the ready slots
LEMMA NotPaused ==
    ASSUME NEW t \in [Slot -> Pcb], NEW n, Distinct(t, n)
    PROVE  Pids(t) \ Paused(t) = {t[s].pid : s \in InState(t, "ready")}
<1>1. /\ Live(t) = InState(t, "ready") \cup InState(t, "pause")
      /\ InState(t, "ready") \cap InState(t, "pause") = {}
  BY DEF Live, InState, Pcb, FreePcb
<1>2. \A r \in InState(t, "ready"), s \in InState(t, "pause") : t[r].pid # t[s].pid
  BY <1>1 DEF Distinct
<1> QED BY <1>1, <1>2 DEF Pids, Paused

\* sys_sched_run is an abstract choice
LEMMA RunChooses ==
    ASSUME NEW t \in [Slot -> Pcb], NEW n, Distinct(t, n),
           NEW c \in Slot \cup {NoSlot}, Run(t, c)
    PROVE  Chooses(t, pcb', Runner(pcb', cur'))
<1>0. /\ Live(t) = InState(t, "ready") \cup InState(t, "pause")
      /\ \A s \in Slot : s # NoSlot
  BY SchedConstants DEF Live, InState, Pcb, FreePcb, Slot, NoSlot
<1>1. CASE InState(t, "ready") # {}
  <2> DEFINE s == FirstReady(t, ScanStart(c))
  <2>1. pcb' = t /\ cur' = s
    BY <1>0, <1>1 DEF Run, Dispatch
  <2>2. s \in InState(t, "ready")
    BY <1>1, ScanStartType, FirstReadyIsReady
  <2>3. Runner(pcb', cur') \in Pids(t) \ Paused(t)
    BY <1>0, <2>1, <2>2, NotPaused DEF Runner, InState
  <2> QED BY <2>1, <2>3 DEF Chooses
<1>2. CASE InState(t, "ready") = {} /\ InState(t, "pause") # {}
  <2> DEFINE w == PauseToReady(t)
             s == FirstReady(w, 0)
  <2>1. pcb' = w /\ cur' = s
    BY <1>0, <1>2 DEF Run, Dispatch
  <2>2. SameBlocks(t, w) /\ InState(w, "ready") = Live(t) /\ InState(w, "pause") = {}
    <3>1. InState(w, "pause") = {}
      BY DEF InState, PauseToReady
    <3> QED BY <3>1, PauseToReadyType
  <2>3. s \in Live(t)
    BY <1>0, <1>2, <2>2, ScanStartType, FirstReadyIsReady
  <2> HIDE DEF w, s
  <2>4. Pids(w) = Pids(t) /\ Paused(w) = {} /\ w[s].pid \in Pids(t)
    BY <2>2, <2>3 DEF SameBlocks, Pids, Paused, Live
  <2>5. Pids(t) # {} /\ Pids(t) \ Paused(t) = {}
    BY <1>0, <1>2, NotPaused DEF Pids
  <2>6. Runner(pcb', cur') = w[s].pid
    BY <1>0, <2>1, <2>3 DEF Runner, Live
  <2> QED BY <2>1, <2>4, <2>5, <2>6 DEF Chooses
<1>3. CASE Live(t) = {}
  <2>1. pcb' = t /\ cur' = NoSlot
    BY <1>0, <1>3 DEF Run
  <2>2. Pids(t) = {} /\ Paused(t) = {}
    BY <1>0, <1>3 DEF Pids, Paused
  <2> QED BY <2>1, <2>2 DEF Chooses, Runner
<1> QED BY <1>0, <1>1, <1>2, <1>3

\* How a birth and an end change the sets of pids
LEMMA LoadedPids ==
    ASSUME TypeOK, Admit
    PROVE  /\ Pids(Loaded) = Pids(pcb) \cup {lastPid + 1}
           /\ Paused(Loaded) = Paused(pcb)
           /\ \A c \in Live(pcb) : Loaded[c].pid = pcb[c].pid
<1> DEFINE n == FirstFree
<1>1. n \in Slot /\ pcb[n].state = "free"
  BY FirstFreeIsFree DEF Admit
<1>2. /\ Live(Loaded) = Live(pcb) \cup {n} /\ n \notin Live(pcb)
      /\ InState(Loaded, "pause") = InState(pcb, "pause")
      /\ Loaded[n].pid = lastPid + 1
      /\ \A s \in Slot \ {n} : Loaded[s] = pcb[s]
  BY <1>1 DEF Loaded, Live, InState, TypeOK
<1> HIDE DEF n
<1>3. n \notin InState(pcb, "pause") /\ Live(pcb) \subseteq Slot
      /\ InState(pcb, "pause") \subseteq Slot
  BY <1>1 DEF InState, Live
<1> QED BY <1>2, <1>3 DEF Pids, Paused

\* The end of a process takes its pid, and no other, out of the sets of pids
LEMMA CleanedPids ==
    ASSUME TypeOK, PidsUnique, NEW s \in Live(pcb)
    PROVE  /\ Pids(Cleaned(s)) = Pids(pcb) \ {pcb[s].pid}
           /\ Paused(Cleaned(s)) = Paused(pcb) \ {pcb[s].pid}
           /\ \A c \in Live(pcb) \ {s} : Cleaned(s)[c].pid = pcb[c].pid
<1>1. /\ Live(Cleaned(s)) = Live(pcb) \ {s}
      /\ InState(Cleaned(s), "pause") = InState(pcb, "pause") \ {s}
      /\ \A c \in Slot \ {s} : Cleaned(s)[c] = pcb[c]
  BY DEF Cleaned, Live, InState, TypeOK, FreePcb
<1>2. /\ InState(pcb, "pause") \subseteq Live(pcb) /\ Live(pcb) \subseteq Slot
      /\ \A r \in Live(pcb) : r # s => pcb[r].pid # pcb[s].pid
  BY DEF InState, Live, PidsUnique
<1> QED BY <1>1, <1>2 DEF Pids, Paused

\* A live slot stands for a pid, which waits if the slot does
LEMMA LivePids ==
    ASSUME TypeOK, PidsUnique, NEW s \in Live(pcb)
    PROVE  /\ pcb[s].pid \in Pids(pcb) /\ pcb[s].pid # 0 /\ s # NoSlot
           /\ pcb[s].pid \in Paused(pcb) <=> pcb[s].state = "pause"
<1>1. s \in Slot /\ pcb[s] \in Pcb /\ pcb[s].state # "free"
  BY DEF Live, TypeOK
<1>2. pcb[s].pid # 0 /\ s # NoSlot
  BY <1>1, SchedConstants DEF Pcb, FreePcb, Slot, NoSlot
<1>3. InState(pcb, "pause") \subseteq Live(pcb)
  BY DEF InState, Live
<1>4. pcb[s].pid \in Paused(pcb) <=> pcb[s].state = "pause"
  BY <1>1, <1>3 DEF Paused, PidsUnique, InState
<1> QED BY <1>2, <1>4 DEF Pids

\* The initial states are those of the abstract table
LEMMA InitRefines == Init => Abs!Init
<1> SUFFICES ASSUME Init PROVE Abs!Init
  OBVIOUS
<1>1. PidsIn("ready") = {} /\ PidsIn("pause") = {}
  BY DEF Init, PidsIn, InState, FreePcb
<1> QED BY <1>1 DEF Init, Abs!Init

\* Every step is an abstract step or a stutter: one case per action
LEMMA NextRefines == IInv /\ IInv' /\ [Next]_vars => [Abs!Next]_(Abs!vars)
<1> SUFFICES ASSUME IInv, IInv', [Next]_vars PROVE [Abs!Next]_(Abs!vars)
  OBVIOUS
<1>0. TypeOK /\ TypeOK' /\ PausedDoesNotExecute /\ PidsUnique
      /\ Distinct(pcb, lastPid)
  BY DEF IInv, IInvType, PidsUnique, Distinct
<1> DEFINE alive   == PidsIn("ready") \cup PidsIn("pause")
           waiting == PidsIn("pause")
           running == IF cur = NoSlot THEN 0 ELSE pcb[cur].pid
<1>A. alive = Pids(pcb) /\ waiting = Paused(pcb) /\ running = Runner(pcb, cur)
  BY <1>0, PidsOfStates DEF TypeOK, PidsIn, Paused, Runner
<1>B. alive' = Pids(pcb') /\ waiting' = Paused(pcb') /\ running' = Runner(pcb', cur')
  BY <1>0, PidsOfStates DEF TypeOK, PidsIn, Paused, Runner
<1> HIDE DEF alive, waiting, running
<1>C. ASSUME NEW P, NEW W, NEW t \in [Slot -> Pcb], NEW n,
             P = Pids(t), W = Paused(t),
             Distinct(t, n), NEW c \in Slot \cup {NoSlot}, Run(t, c)
      PROVE  Abs!Choose(P, W)
  <2>1. Chooses(t, pcb', Runner(pcb', cur'))
    BY <1>C, RunChooses
  <2> QED BY <1>B, <1>C, <2>1 DEF Chooses, Abs!Choose, alive, waiting, running
<1>D. ASSUME Executes
      PROVE  /\ cur \in Live(pcb) /\ running = pcb[cur].pid
             /\ running \in alive \ waiting
  <2>1. cur \in Live(pcb) /\ pcb[cur].state # "pause"
    BY <1>0, <1>D DEF Executes, PausedDoesNotExecute
  <2> QED BY <1>0, <1>A, <2>1, LivePids DEF Runner
<1>E. mode = "shell" => cur = NoSlot /\ running = 0 /\ running \notin waiting
  <2>1. 0 \notin Paused(pcb)
    <3>1. \A s \in InState(pcb, "pause") : pcb[s].pid # 0
      BY <1>0, SchedConstants DEF InState, TypeOK, Pcb, FreePcb
    <3> QED BY <3>1 DEF Paused
  <2> QED BY <1>0, <1>A, <2>1 DEF PausedDoesNotExecute, Runner
<1>F. UNCHANGED <<pcb, cur, lastPid>> => UNCHANGED Abs!vars
  BY <1>A, <1>B DEF Abs!vars, alive, waiting, running
<1>G. ASSUME Admit, pcb' = Loaded, UNCHANGED cur, running \notin waiting,
             cur = NoSlot \/ cur \in Live(pcb)
      PROVE  Abs!Create
  <2>1. alive' = alive \cup {lastPid + 1} /\ waiting' = waiting
    BY <1>0, <1>A, <1>B, <1>G, LoadedPids
  <2>2. running' = running
    BY <1>0, <1>A, <1>B, <1>G, LoadedPids DEF Runner
  <2> QED BY <1>G, <2>1, <2>2 DEF Abs!Create, Abs!Birth, Admit, alive, waiting, running
<1>1. CASE ShellLoad
  BY <1>1, <1>E, <1>F, <1>G DEF ShellLoad, Reject, Abs!Next
<1>2. CASE ShellRun
  <2>1. Abs!Choose(alive, waiting)
    BY <1>0, <1>2, <1>A, <1>C DEF ShellRun, TypeOK
  <2> QED BY <1>2, <2>1 DEF ShellRun, Abs!Switch, Abs!Next, alive, waiting
<1>3. CASE ShellExec
  <2>1. CASE Admit /\ Run(Loaded, cur)
    <3>1. Distinct(Loaded, lastPid') /\ Loaded \in [Slot -> Pcb]
      BY <1>0, <2>1, LoadedIsDistinct, LoadedType
    <3>2. Abs!Choose(alive \cup {lastPid + 1}, waiting)
      BY <1>0, <1>A, <1>C, <2>1, <3>1, LoadedPids DEF TypeOK
    <3>3. running = 0
      BY <1>3, <1>E DEF ShellExec
    <3>4. Abs!Launch
      BY <2>1, <3>2, <3>3 DEF Abs!Launch, Abs!Birth, Admit, alive, waiting, running
    <3> QED BY <3>4 DEF Abs!Next
  <2>2. CASE Reject /\ UNCHANGED cur
    BY <2>2, <1>F DEF Reject
  <2> QED BY <1>3, <2>1, <2>2 DEF ShellExec
<1>4. CASE Exit
  <2>1. /\ cur \in Live(pcb) /\ running = pcb[cur].pid
        /\ running \in alive \ waiting
    BY <1>4, <1>D DEF Exit
  <2>2. Cleaned(cur) \in [Slot -> Pcb] /\ Distinct(Cleaned(cur), lastPid)
    BY <1>0, <2>1, CleanedType, CleanedIsDistinct DEF Live
  <2>3. /\ Pids(Cleaned(cur)) = alive \ {running}
        /\ Paused(Cleaned(cur)) = waiting
    <3>1. waiting \ {running} = waiting
      BY <2>1
    <3>2. /\ Pids(Cleaned(cur)) = Pids(pcb) \ {running}
          /\ Paused(Cleaned(cur)) = Paused(pcb) \ {running}
      BY <1>0, <2>1, CleanedPids
    <3> QED BY <1>A, <3>1, <3>2
  <2>4. Run(Cleaned(cur), NoSlot) /\ NoSlot \in Slot \cup {NoSlot}
    BY <1>4 DEF Exit
  <2>5. Abs!Choose(alive \ {running}, waiting)
    BY <1>C, <2>2, <2>3, <2>4
  <2>6. Abs!End
    BY <1>4, <2>1, <2>5 DEF Exit, Abs!End, alive, waiting, running
  <2> QED BY <2>6 DEF Abs!Next
<1>5. CASE SchedProgram
  BY <1>5, <1>D, <1>F, <1>G DEF SchedProgram, Stays, Reject, Abs!Next
<1>6. ASSUME NEW pid \in 1 .. MaxPid, KillProcess(pid)
      PROVE  Abs!Next
  <2>1. PICK s \in Live(pcb) \ {cur} : pcb' = Cleaned(s)
    BY <1>6 DEF KillProcess
  <2>2. /\ cur \in Live(pcb) /\ running = pcb[cur].pid
        /\ running \in alive \ waiting
    BY <1>6, <1>D DEF KillProcess
  <2> DEFINE p == pcb[s].pid
  <2>3. p \in alive \ {running}
    BY <1>0, <1>A, <2>1, <2>2, LivePids DEF PidsUnique
  <2>4. alive' = alive \ {p} /\ waiting' = waiting \ {p}
    BY <1>0, <1>A, <1>B, <2>1, CleanedPids
  <2>5. running' = running
    <3>1. cur' = cur /\ cur # NoSlot
      BY <1>0, <1>6, <2>2, LivePids DEF KillProcess, Stays
    <3> QED BY <1>0, <1>B, <2>1, <2>2, <3>1, CleanedPids DEF Runner
  <2> HIDE DEF p
  <2>6. Abs!Kill
    BY <1>6, <2>2, <2>3, <2>4, <2>5 DEF KillProcess, Abs!Kill, alive, waiting, running
  <2> QED BY <2>6 DEF Abs!Next
<1>7. CASE WaitSched
  <2>1. /\ cur \in Live(pcb) /\ running = pcb[cur].pid
        /\ running \in alive \ waiting
    BY <1>7, <1>D DEF WaitSched
  <2>2. /\ cur \in Slot /\ pcb[cur].state # "free" /\ cur # NoSlot
        /\ pcb' = [pcb EXCEPT ![cur].state = "pause"] /\ cur' = cur
    BY <1>0, <1>7, <2>1, LivePids DEF WaitSched, Stays, Live
  <2>3. /\ InState(pcb', "pause") = InState(pcb, "pause") \cup {cur}
        /\ Live(pcb') = Live(pcb)
        /\ \A s \in Slot : pcb'[s].pid = pcb[s].pid
    BY <1>0, <2>2 DEF TypeOK, InState, Live, Pcb, FreePcb
  <2>4. alive' = alive /\ waiting' = waiting \cup {running}
    <3>1. InState(pcb, "pause") \subseteq Slot /\ Live(pcb) \subseteq Slot
      BY DEF InState, Live
    <3>2. Pids(pcb') = Pids(pcb)
      BY <2>3, <3>1 DEF Pids
    <3>3. \A s \in InState(pcb, "pause") \cup {cur} : pcb'[s].pid = pcb[s].pid
      BY <2>2, <2>3, <3>1
    <3>4. Paused(pcb') = Paused(pcb) \cup {pcb[cur].pid}
      BY <2>3, <3>3 DEF Paused
    <3> QED BY <1>A, <1>B, <2>1, <3>2, <3>4
  <2>5. running' = running
    BY <1>A, <1>B, <2>2, <2>3 DEF Runner
  <2>6. Abs!Wait
    BY <1>7, <2>1, <2>4, <2>5 DEF WaitSched, Abs!Wait, alive, waiting, running
  <2> QED BY <2>6 DEF Abs!Next
<1>8. CASE TimerInterrupt
  <2>1. Abs!Choose(alive, waiting)
    BY <1>0, <1>8, <1>A, <1>C DEF TimerInterrupt, TypeOK
  <2> QED BY <1>8, <2>1 DEF TimerInterrupt, Abs!Switch, Abs!Next, alive, waiting
<1>9. Instruction \/ SkipSched \/ Halt \/ UNCHANGED vars
          => UNCHANGED <<pcb, cur, lastPid>>
  BY DEF Instruction, SkipSched, Halt, Stays, vars
<1> QED BY <1>1, <1>2, <1>3, <1>4, <1>5, <1>6, <1>7, <1>8, <1>9, <1>F
        DEF Next, Shell, Program

\* Every behaviour of the scheduler is one of the abstract table of processes:
\* nobody is woken while another process is ready, a waiting process performs no
\* system call, and the shell gets the CPU only when no process is left.
THEOREM Refinement == Spec => ImplementsProcesses
<1>1. Spec => Abs!Init /\ [][Abs!Next]_(Abs!vars)
  BY InitRefines, NextRefines, Invariance, PTL DEF Spec
<1> QED BY <1>1 DEF ImplementsProcesses, Abs!Spec
=============================================================================
