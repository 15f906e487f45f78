------------------------------- MODULE Sched -------------------------------
(***************************************************************************)
(* The KaguOS process scheduler: the process control blocks, the ring scan *)
(* that picks the next process, the hardware timer that preempts it, the   *)
(* blocks of RAM that processes live in, and the shell that loads programs *)
(* when nothing runs.                                                      *)
(*                                                                         *)
(* One action is one instruction of a user program together with the whole *)
(* kernel handler it enters, if it enters one: the timer never ticks in    *)
(* kernel mode, so a handler runs to its SYS_RETURN (or to the shell)      *)
(* without interruption.  A state of the model is the machine just before  *)
(* checkTimer looks at the timer at the end of an instruction; that is why *)
(* an action of a program first lets the timer tick and why timer = 0      *)
(* leaves the interrupt as the only step.                                  *)
(***************************************************************************)
EXTENDS Integers, Sequences

CONSTANTS
    MaxProc,    \* sys_proc_max_count: the number of process control blocks
    ProcMem,    \* sys_proc_memory_size: a process owns ProcMem + 1 cells
    MemStart,   \* FREE_MEMORY_START once the boot has placed its tables
    MemEnd,     \* FREE_MEMORY_END as seen by a load: top of RAM, less one frame
    Quantum,    \* sys_sched_time_quantum; a negative one never preempts
    MaxPid      \* bound on the number of processes ever loaded

ASSUME SchedConstants ==
    /\ MaxProc \in Nat \ {0}
    /\ ProcMem \in Nat
    /\ MemStart \in Nat
    /\ MemEnd \in Nat
    /\ Quantum \in Int
    /\ MaxPid \in Nat

VARIABLES
    pcb,        \* the process control blocks, a ring
    cur,        \* sys_cur_pcb_ptr, NoSlot when it is ""
    mode,       \* who has the CPU: a program, the shell, or nobody
    timer,      \* REG_SYS_HW_TIMER, negative when disabled
    lastPid,    \* sys_last_used_pid
    pool,       \* sys_pcb_free_mem_list: starts of blocks given back
    freeStart,  \* FREE_MEMORY_START
    lost        \* history: blocks taken for programs that failed to load

mem  == <<pool, freeStart, lost>>
vars == <<pcb, cur, mode, timer, lastPid, mem>>

Slot   == 0 .. MaxProc - 1
NoSlot == -1

FreePcb == [state |-> "free", pid |-> 0, start |-> 0]
Pcb     == {FreePcb} \cup
           [state : {"ready", "pause"}, pid : 1 .. MaxPid, start : Nat]

-----------------------------------------------------------------------------
(* Choosing the next process *)

InState(table, st) == {s \in Slot : table[s].state = st}
Live(table)        == {s \in Slot : table[s].state # "free"}

\* Mutants of ScanStart: no increment; every scan from the start of the list
ScanFromCurrent(c) == IF c = NoSlot THEN 0 ELSE c
ScanFromFirst(c)   == 0

\* sys_sched_select_next_ptr at the start of a scan
ScanStart(c) == IF c = NoSlot THEN 0 ELSE (c + 1) % MaxProc

\* How many increments of the ring pointer lead from slot b to slot s
Distance(b, s) == IF s >= b THEN s - b ELSE s - b + MaxProc

\* The first ready slot of a scan that starts at slot b
FirstReady(table, b) ==
    CHOOSE s \in InState(table, "ready") :
        \A t \in InState(table, "ready") : Distance(b, s) <= Distance(b, t)

PauseToReady(table) ==
    [s \in Slot |-> IF table[s].state = "pause"
                    THEN [table[s] EXCEPT !.state = "ready"]
                    ELSE table[s]]

\* Give the CPU to slot s with a full quantum
Dispatch(table, s) ==
    /\ pcb' = table
    /\ cur' = s
    /\ mode' = "user"
    /\ timer' = Quantum

\* Mutant of Run: the paused processes are not woken
RunWakesNobody(table, c) ==
    \/ /\ InState(table, "ready") # {}
       /\ Dispatch(table, FirstReady(table, ScanStart(c)))
    \/ /\ InState(table, "ready") = {}
       /\ pcb' = table
       /\ cur' = NoSlot
       /\ mode' = "shell"
       /\ timer' = -1

\* sys_sched_run when the table is `table' and the scan follows slot c
Run(table, c) ==
    \/ /\ InState(table, "ready") # {}
       /\ Dispatch(table, FirstReady(table, ScanStart(c)))
    \/ /\ InState(table, "ready") = {}
       /\ InState(table, "pause") # {}
       /\ Dispatch(PauseToReady(table), FirstReady(PauseToReady(table), 0))
    \/ /\ Live(table) = {}
       /\ pcb' = table
       /\ cur' = NoSlot
       /\ mode' = "shell"
       /\ timer' = -1

-----------------------------------------------------------------------------
(* Loading a program *)

FirstFree == CHOOSE s \in InState(pcb, "free") :
                 \A t \in InState(pcb, "free") : s <= t

\* The block a load takes: the head of the pool, or new RAM
Block    == IF pool = <<>> THEN freeStart ELSE Head(pool)
HasBlock == pool # <<>> \/ freeStart + ProcMem <= MemEnd

\* Mutant of TakeBlock: the block stays in the pool
TakeBlockTwice ==
    IF pool = <<>>
    THEN freeStart' = freeStart + ProcMem + 1 /\ UNCHANGED pool
    ELSE UNCHANGED <<pool, freeStart>>

TakeBlock ==
    IF pool = <<>>
    THEN freeStart' = freeStart + ProcMem + 1 /\ UNCHANGED pool
    ELSE pool' = Tail(pool) /\ UNCHANGED freeStart

\* Mutant of Admit: sys_last_used_pid is not incremented
AdmitSamePid ==
    /\ InState(pcb, "free") # {}
    /\ HasBlock
    /\ TakeBlock
    /\ UNCHANGED <<lastPid, lost>>

\* The program fits its block: a process is born in state ready
Admit ==
    /\ lastPid < MaxPid
    /\ InState(pcb, "free") # {}
    /\ HasBlock
    /\ TakeBlock
    /\ lastPid' = lastPid + 1
    /\ UNCHANGED lost

Loaded == [pcb EXCEPT ![FirstFree] =
              [state |-> "ready", pid |-> lastPid + 1, start |-> Block]]

\* No free PCB, no RAM for a block, or (after the block was taken) no such
\* file, no free descriptor to read it with, or a program that does not fit
Reject ==
    /\ \/ /\ InState(pcb, "free") = {} \/ ~HasBlock
          /\ UNCHANGED mem
       \/ /\ InState(pcb, "free") # {}
          /\ HasBlock
          /\ TakeBlock
          /\ lost' = lost \cup {Block}
    /\ UNCHANGED <<pcb, lastPid>>

-----------------------------------------------------------------------------
(* The shell: kernel_start, entered when there is no current process *)

ShellLoad ==                                    \* sched -- cmd
    /\ mode = "shell"
    /\ \/ Admit /\ pcb' = Loaded
       \/ Reject
    /\ UNCHANGED <<cur, mode, timer>>

ShellRun ==                                     \* sched run
    /\ mode = "shell"
    /\ Run(pcb, cur)
    /\ UNCHANGED <<lastPid, mem>>

ShellExec ==                                    \* cmd
    /\ mode = "shell"
    /\ \/ Admit /\ Run(Loaded, cur)
       \/ Reject /\ UNCHANGED <<cur, mode, timer>>

-----------------------------------------------------------------------------
(* Programs *)

\* A program executes; a timer that has reached 0 lets nothing else happen
Executes == mode = "user" /\ timer # 0
Tick     == timer' = IF timer > 0 THEN timer - 1 ELSE timer
Stays    == UNCHANGED <<cur, mode>>

\* An instruction or a system call that leaves the scheduler alone
Instruction ==
    /\ Executes /\ Tick /\ Stays
    /\ UNCHANGED <<pcb, lastPid, mem>>

\* Mutants of Cleaned and Release: the control block keeps its other columns;
\* the block is not given back
CleanedState(s)   == [pcb EXCEPT ![s].state = "free"]
ReleaseNothing(s) == UNCHANGED mem

\* sys_sched_clean_pcb: the block goes to the head of the pool
Cleaned(s) == [pcb EXCEPT ![s] = FreePcb]
Release(s) == /\ pool' = <<pcb[s].start>> \o pool
              /\ UNCHANGED <<freeStart, lost>>

\* exit, an unknown system call, or a fault the CPU turns into exit
Exit ==
    /\ Executes
    /\ Release(cur)
    /\ Run(Cleaned(cur), NoSlot)
    /\ UNCHANGED lastPid

SchedProgram ==
    /\ Executes /\ Tick /\ Stays
    /\ \/ Admit /\ pcb' = Loaded
       \/ Reject

\* sys_sched_pid_to_pcb finds the victim; the caller may not kill itself.
\* With any other pid the call only returns an error: that is Instruction
KillProcess(pid) ==
    /\ Executes /\ Tick /\ Stays
    /\ \E s \in Live(pcb) \ {cur} :
          /\ pcb[s].pid = pid
          /\ Release(s)
          /\ pcb' = Cleaned(s)
    /\ UNCHANGED lastPid

SkipSched ==
    /\ Executes /\ Stays
    /\ timer' = 0
    /\ UNCHANGED <<pcb, lastPid, mem>>

\* Mutant of WaitSched: the rest of the quantum is not given up
WaitSchedLater ==
    /\ Executes /\ Stays /\ Tick
    /\ pcb' = [pcb EXCEPT ![cur].state = "pause"]
    /\ UNCHANGED <<lastPid, mem>>

WaitSched ==
    /\ Executes /\ Stays
    /\ pcb' = [pcb EXCEPT ![cur].state = "pause"]
    /\ timer' = 0
    /\ UNCHANGED <<lastPid, mem>>

\* The shell's exit, end of input, or an operand that is not a number:
\* the emulator stops for good
Halt ==
    /\ mode = "shell" \/ Executes
    /\ mode' = "halted"
    /\ UNCHANGED <<pcb, cur, timer, lastPid, mem>>

TimerInterrupt ==                               \* sys_interrupt_handler
    /\ mode = "user" /\ timer = 0
    /\ Run(pcb, cur)
    /\ UNCHANGED <<lastPid, mem>>

-----------------------------------------------------------------------------
Init ==
    /\ pcb = [s \in Slot |-> FreePcb]
    /\ cur = NoSlot
    /\ mode = "shell"
    /\ timer = -1
    /\ lastPid = 0
    /\ pool = <<>>
    /\ freeStart = MemStart
    /\ lost = {}

Shell == ShellLoad \/ ShellRun \/ ShellExec

Program ==
    \/ Instruction \/ Exit \/ SchedProgram
    \/ \E pid \in 1 .. MaxPid : KillProcess(pid)
    \/ SkipSched \/ WaitSched

Next == Shell \/ Program \/ TimerInterrupt \/ Halt

Spec == Init /\ [][Next]_vars

\* The emulator's loop executes instructions for as long as it runs
\* (CPU::resetVector); nothing obliges anybody to type a command or to stop
Fairness == WF_vars(Program \/ TimerInterrupt)

-----------------------------------------------------------------------------
(* Properties *)

TimerValue == {-1, 0, Quantum} \cup 0 .. Quantum

\* Control blocks, pool and timer have their types: a free control block keeps
\* nothing of its last process, and the timer never exceeds the quantum.
TypeOK ==
    /\ pcb \in [Slot -> Pcb]
    /\ cur \in Slot \cup {NoSlot}
    /\ mode \in {"shell", "user", "halted"}
    /\ timer \in TimerValue
    /\ lastPid \in 0 .. MaxPid
    /\ pool \in Seq(Nat)
    /\ freeStart \in Nat
    /\ lost \in SUBSET Nat

\* The cells of the block that starts at b, and blocks that share no cell
Within(b, lo, hi) == lo <= b /\ b + ProcMem <= hi
Apart(b, c)       == b + ProcMem < c \/ c + ProcMem < b

\* No cell of RAM ever belongs to two processes, nor to a process and the
\* pool of blocks that sys_sched_process_load will hand out, nor twice to the
\* pool; and every block lies between the kernel's tables and the top of RAM.
BlocksDisjoint ==
    /\ \A s, t \in Live(pcb) : s # t => Apart(pcb[s].start, pcb[t].start)
    /\ \A i, j \in DOMAIN pool : i # j => Apart(pool[i], pool[j])
    /\ \A s \in Live(pcb), i \in DOMAIN pool : Apart(pcb[s].start, pool[i])
    /\ \A s \in Live(pcb) : Within(pcb[s].start, MemStart, freeStart - 1)
    /\ \A i \in DOMAIN pool : Within(pool[i], MemStart, freeStart - 1)
    /\ freeStart = MemStart \/ freeStart - 1 \in MemStart .. MemEnd

\* Exit and kill give back whole blocks: every cell ever taken from free
\* memory is in a live process, in the pool, or in a block that a failed load
\* took and never gave back.
CellsAccounted ==
    \A a \in MemStart .. freeStart - 1 :
        \/ \E s \in Live(pcb) : a \in pcb[s].start .. pcb[s].start + ProcMem
        \/ \E i \in DOMAIN pool : a \in pool[i] .. pool[i] + ProcMem
        \/ \E b \in lost : a \in b .. b + ProcMem

\* A pid names at most one process, so that a kill hits the process meant.
PidsUnique ==
    /\ \A s, t \in Live(pcb) : s # t => pcb[s].pid # pcb[t].pid
    /\ \A s \in Live(pcb) : pcb[s].pid <= lastPid

\* Only a live process has the CPU, and one that asked to wait is preempted
\* before it executes anything more: no kill frees the block under the running
\* program, a paused process runs again only once it was woken, and the shell
\* never runs on top of a current process.
PausedDoesNotExecute ==
    /\ mode = "user" => /\ cur \in Live(pcb)
                        /\ pcb[cur].state = "pause" => timer = 0
    /\ mode = "shell" => cur = NoSlot

\* The scan of the ring reaches everybody: while the machine runs, a ready
\* process gets the CPU in the end, or it is killed.  (MaxPid bounds the
\* loads, and with them the exits, each of which restarts the scan at slot 0.)
ReadyRuns ==
    \A s \in Slot :
        mode = "user" /\ pcb[s].state = "ready"
            ~> cur = s \/ pcb[s].state = "free" \/ mode = "halted"

\* What syscalls.hpp says of wait_sched, "Wait/pause until other processes
\* complete": a process that waits is not woken while another one lives.
WaitsForOthers ==
    [][\A s \in InState(pcb, "pause") :
          pcb'[s].state = "ready" => Live(pcb') = {s}]_vars

-----------------------------------------------------------------------------
(* The scheduler implements the abstract table of processes. *)

PidsIn(st) == {pcb[s].pid : s \in InState(pcb, st)}

Abs == INSTANCE Processes WITH
           born    <- lastPid,
           alive   <- PidsIn("ready") \cup PidsIn("pause"),
           waiting <- PidsIn("pause"),
           running <- IF cur = NoSlot THEN 0 ELSE pcb[cur].pid

\* Every step of the scheduler is a step of the abstract table or changes
\* nothing there: nobody is woken while another process is ready, a process
\* that waits performs no system call, the shell strands no process.
ImplementsProcesses == Abs!Spec
=============================================================================
