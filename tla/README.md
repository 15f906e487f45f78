# KaguOS, specified and verified in TLA+

KaguOS is a small operating system written in the assembly of an emulated
machine. The emulator (`tools/kagu_boot`, C++) supplies RAM, a CPU with a user
mode and a kernel mode, a count-down timer, disks, a keyboard and a display.
The kernel (`src/kernel/*.kga`) supplies a file system, system calls, a
round-robin scheduler and a command shell. This directory holds TLA+ modules
that model the two together where their behaviour depends on order, on sharing
or on failure, and the assembler and the debug server that go with them; the TLC
runs that check them; and TLAPS proofs, for every value of the constants, of
every safety property that the passing runs check.

## 1. The system

### Components

| component | state | operations | what makes it correct |
|---|---|---|---|
| **Scheduler** `04_sched.kga` | the ring of process control blocks (PCB: pid, state, start of block, program counter, list of descriptors), the current PCB, the last pid, the pool of freed blocks, `FREE_MEMORY_START` | load, run, select next, exit, kill, wait, skip, is_active, print | no two owners of a cell; no shared pid; nobody starves; who waits does not execute; the shell runs only when no process is left |
| **Timer and interrupts** `interrupt_handler.cpp` | `REG_SYS_HW_TIMER`, handler address, interrupt data | count down in user mode, fire at 0, off when negative | fires between two instructions and never inside the kernel |
| **Context switch** `cpu.cpp` (`execSysCall`, `execSysReturn`), `04_sched.kga:13`, `:115` | user registers, the save area in cells 1 to 11 of a block | save, restore, clean | a process finds what it left, and nothing of another process |
| **File descriptors** `02_fs.kga`, `04_sched.kga:739-846` | the table of descriptors, `FD_LIST` of each PCB | open, close, close at the end of a process | an open descriptor belongs to a live process; an end closes one's own files only |
| **KaguFS** `02_fs.kga` | the header, the entries with their chunks of blocks, mounts | open, read, write, find the block of a line | a line reads back as written; no write leaves its file |
| **Disk** `disk.cpp` | an image: a text file, one line per block | read a block, write one by rewriting the image | bounds; a stop during a write |
| **System calls** `03_syscalls.kga` | a table of handlers | dispatch by number | unknown calls end the caller |
| **Shell and boot** `09_kernel_base.kga`, `05_config.kga`, `06_memory.kga`, `01_stack.kga` | the kernel's variables, its stack, the tables | initialise, read the configuration, allocate, prompt | the stack and the blocks stay apart; limits from the configuration are sane |
| **CPU** `cpu.cpp` | registers, mode, program counter | fetch, decode, execute, faults | a program executes its own instructions, each once; a fault in a program ends that program only |
| **Operations** `cpu.cpp:419-634` | the registers as texts | arithmetic, comparison, search, columns | what one operation puts together another takes apart; guarded operands do not end the emulator |
| **RAM** `ram.cpp` | cells of text | translate, check bounds in user mode | a program reaches its own block only |
| **Keyboard** `input.cpp` | what is typed, what `std::cin` has read ahead, `REG_LAST_KEY`, `KEYBOARD_BUFFER` | poll, read a line or a character | each character goes to one reader; a piped script is read line by line to its end |
| **Display** `display.cpp` | the terminal | print, draw | - |
| **Debug server** `debug_server.cpp` | breakpoints, step mode, a socket | commands over TCP | what the client is told stays true; the CPU never waits for a client that is gone |
| **Assembler** `tools/kagu_asm` | symbols, addresses, an image and a map on disk | two passes | the image means what its source says; wrong sources are refused |

### How they interact

A program executes one instruction at a time. After each one the emulator lets
the timer tick (`CPU::step`), if the machine is in user mode. A program enters
the kernel in four ways: `OP_SYS_CALL`, the timer at 0, a fault (turned into the
system call *exit* by `handleCpuError` and `handleMemoryError`), and its load.
The kernel leaves by `OP_SYS_RETURN`, to the caller or to the process the
scheduler chose, or by jumping to the shell's prompt when no process is left.
**The timer does not tick in kernel mode**, so a handler is never interrupted:
that is what lets the models take an instruction with the whole handler it
enters as one step, and it is the only reason the kernel's many global
variables are safe.

The debug server is called by the CPU between the increment of the program
counter and the fetch, and reads its commands nowhere else. The keyboard is
polled at every step, in both modes, and read by the kernel. The assembler's
image is what the emulator loads; the map is what a debugger's client looks
addresses up in.

All processes share one table of descriptors, one pool of blocks and one disk.
The kernel keeps a PCB as one line of text whose columns it edits with
`OP_GET_COLUMN` and `OP_REPLACE_COLUMN`. The first skips empty columns and the
second counts them.

### What is hard

* **Order of instructions of several programs**: preemption between any two;
  kills, waits and exits that free what others name by number (pids, blocks,
  descriptors).
* **Reuse**: a block, a PCB or a descriptor passes from one process to another.
* **Partial failure**: a load that fails after it took its block; a rewrite of
  the disk that is cut short.
* **Limits**: a full table of processes or of descriptors, no RAM left, the last
  block of a disk, the first line of a file.
* **Fairness**: the ring scan and its restart at slot 0 after every exit.
* **Two conventions for one text**: columns with and without the empty ones, in
  control blocks and in the list of free blocks.
* **One input with three readers**: polls, lines and characters, with and
  without a buffer in between.
* **A client over a connection**: commands that arrive during execution, edits
  during a pause, a connection that is lost.

`PROJECT.json` lists each of them as a hazard at its line, with the properties
that would notice it going wrong, or with the reason no property does yet.

## 2. The modules

```
   Processes  <---- implemented by ----  Sched  <-- SchedProofs
   (abstract)                              ^
     ^     ^                            MCSched
     |     |
     |  Descriptors  <-----------------------+
     |  (over Processes)                     |
   Context  <--------------------------  ProcessProofs
   (over Processes)
     |
     +--- implements --->  PrivateState  (abstract, over Processes)

   Programs   <---- implemented by ----  Machine  <-- CpuProofs, MCMachine
   TextFiles  <---- implemented by ----  Files    <-- FilesProofs, MCFiles
   (abstract)

   Debugger   <-- DebuggerProofs, MCDebugger
   Keyboard   <-- KeyboardProofs, MCKeyboard
   Assembler  <-- AssemblerProofs, MCAssembler

   Texts  <-- Operations     <-- CpuProofs, MCOperations
     ^------- ControlBlocks  <-- CpuProofs, MCControlBlocks
```

`Lemmas` holds the facts about numbers and sequences that several of the proof
modules share. A module `XProofs` extends `X` and is not needed to check it;
`CpuProofs` extends the three modules of the CPU, `Machine`, `Operations` and
`ControlBlocks`.

`Sched` is shown to implement `Processes`, by TLC and by proof. `Context` and
`Descriptors` are therefore built over `Processes`: they take from it who runs,
waits, is born and ends, and add the registers, or the descriptors, of each
process.

### `Sched` and `Processes`

One action of `Sched` is one instruction of a user program with the handler it
enters, or one command of the shell. A state is **the machine just before
`checkTimer` looks at the timer**. So every action of a program first lets the
timer tick (`Tick`), and `timer = 0` leaves `TimerInterrupt` as the only step
(`Executes` requires `timer # 0`). The timer that a dispatch sets is therefore
the one that the first instruction of the process counts down.

| in `Sched` | in the code |
|---|---|
| `pcb[s]` | the PCB at `sys_pcb_list_start + s`; columns state, pid, start of block |
| `cur`, `mode` | `sys_cur_pcb_ptr`; which of program, prompt and halted CPU executes |
| `pool`, `freeStart` | `sys_pcb_free_mem_list`, `FREE_MEMORY_START` |
| `lost` | nothing: a history of blocks that failed loads took and never gave back |
| `Run(table, c)` | `sys_sched_run` with `sys_sched_select_next` and `sys_sched_pause_to_ready` |
| `Admit`, `Loaded`, `Reject` | `sys_sched_process_load`, its success and its errors |
| `Exit`, `KillProcess`, `WaitSched`, `SkipSched`, `SchedProgram` | the system calls |
| `ShellLoad`, `ShellRun`, `ShellExec`, `Halt` | `sched -- cmd`, `sched run`, `cmd`, `exit` at the prompt; an operand that is not a number stops the emulator too |

`Processes` says what the scheduler promises without ring, timer or memory: pids
in increasing order, at most one running, one that waits is not chosen while
somebody else can run, and the shell gets the CPU back when all have ended.

`MCSched` adds the history variable `passed` for the round-robin property
`NoOvertaking`.

### `Context` and `PrivateState`

`Context` models what is saved where. The registers are a few *words*: `A`
stands for `REG_A` to `REG_E`, `REG_OP` and `REG_BOOL_RES`, which every path
treats alike, `Res` for `REG_RES` and `REG_ERROR`, `F` and `Key` for `REG_F` and
`REG_LAST_KEY`, `PC` for the program counter, `Top` for the last cell of the
block. `OP_SYS_CALL` saves all registers, the timer's handler saves fewer. The
program counter of a process that is preempted goes to column 14 of its PCB.
`Seen` selects the words that a run makes the promise about.

`PrivateState` is the promise: each process has a view of its words that only
its own steps change, and a process is born with its arguments and blanks.

### `Descriptors`

The table of descriptors as its owner per descriptor, and for each process its
`FD_LIST` as a sequence, with `Gap` for an emptied column. `Column` is the
number that `OP_GET_COLUMN` has for a place of it (gaps do not count); `Emptied`
writes with `OP_REPLACE_COLUMN` (they do). `Matches` is the comparison that
`sys_sched_process_rm_fd` really makes: it compares a column with the *number of
the column*, because `REG_B` has been overwritten. `hung` is the endless loop of
`sys_remove_unneeded_spaces` on a doubled space.

### `Files` and `TextFiles`

`Files` models a partition: the image that `Disk::writeBlock` rewrites whole,
the header scan of `sys_fs_open`, the size of a file, the way from a line to a
block through the chunks, and the descriptors with the block of the entry and
the size found at the open. One call of the file system is one step; any program
may use any descriptor at any time. `StopInWrite` stops the emulator while it
rewrites: a prefix of the new image is left, perhaps with a torn line at its end.
A stop loses RAM, and with it all descriptors. A read or a write
through a closed descriptor stops the emulator too, because the empty size does not convert to a number
(`ClosedDescriptor`).

`TextFiles` is the promise: lines of fixed files that read back as written; a
stop may lose lines, may tear one and may have written one that an open file
has, and mixes none. The refinement gives a line the content `Lost` when its
block, or the entry of its file, cannot be read.

### `Machine` and `Programs`

`Machine` is the CPU one step at a time. A step fetches from the block of the
current process through the translation of `ram.cpp` (`Translated`,
`Accessible`), executes any instruction, and lets the timer tick
(`EndOfStep`, which is `checkTimer` with `handleTimerInterrupt`). The program
counter `pc` is the register's value between two steps, that is the address of
the last instruction: `jump(t)` sets `t - 1`.

| in `Machine` | in the code |
|---|---|
| `Store` (`StoreCell`, `StoreTimer`, `StoreKernel`) | `RAM::write` in user mode: into a register or a block, into `REG_SYS_HW_TIMER`, into the rest of the kernel or before RAM |
| `Copy`, `Compute`, `Jump`, `NoEffect`, `DebugMark`, `SysCall` | `executeCopy`, `cpu_exec`, the jumps, an instruction without an effect, `DEBUG_ON`/`DEBUG_OFF`, `execSysCall` |
| `MemoryError`, `CpuError`, `NotANumber`, `FetchFails` | `handleMemoryError`, `handleCpuError`, the exceptions that leave `CPU::step` from its `try` and from before it |
| `SaveRegisters`, `Service`, `ExitCall`, `SkipSched`, `SchedRun`, `NoProcess`, `SysReturn` | the kernel's handlers by what they do to registers, save area and timer, and `execSysReturn` |
| `KernelWork` | any instruction of the kernel on the user registers |
| `ram` | user registers and blocks, both ends of a block in it; `timer`, `cur` and `pcbPc` are what lies in between |

Operands and targets of jumps are any integers. `RAM::read` and `RAM::write`
compare a translated address with the end of the block and not with its start
(`ram.cpp:129`, `:172`), so a negative address leads below the block: to the
blocks of others, to the kernel's cells, to the timer. `Store` says what a store
does there. What a *read* gives there is some value, as anywhere (a copy may
copy any value), and an instruction fetched there, after a jump to a negative
address, is any instruction, as anywhere. So only the addresses of data matter,
and `OwnAddresses` names the programs that have no negative ones.

`Programs` is the promise to a program: its own cells, its own instructions in
its own order, each once, and a system call that changes the result register
only. The refinement looks for a program's registers in the CPU while it has it
and in its save area while it has not.

### `Texts`, `Operations` and `ControlBlocks`

`Texts` holds the pure operators: what `std::stoi` accepts and yields, `int`
arithmetic that wraps at `MaxInt`, division that truncates, search, columns. A
text is a sequence over `Char`, any set with the digits, the blank and the
minus; digits are read and written, and a text is cut into columns, by recursive
functions that follow the loops of the code one character at a time.
`GetColumn` skips empty columns and `ReplaceColumn` counts them, as in the code.
`Operations` is `executeCpuExec` over them: what each operation writes to
`REG_RES`, `REG_BOOL_RES` and `REG_ERROR`, and when it ends the emulator
(`Ends`).

`ControlBlocks` keeps the control blocks and the list of free blocks as texts,
and beside them, as history, the records and the stack they stand for: the four
operations that change a control block (load, state, program counter, clean) are
done once by columns and once on the record.

### `Keyboard`

`host` is what the operating system has for the next `read(2)`, `cin` what
`std::cin` took of it ahead. Polls and reads of characters take from `host`,
reads of lines from `cin`, which refills by any amount (`Refill`). On a pipe the
poll does nothing. `mode` and `saved` follow `REG_LAST_KEY` through a system call
and its return. `Mode` looks at `KEYBOARD_BUFFER`, to which no source writes a
mode, so it is the previous input that selects the kind of the next read.

### `Debugger`

`toServer` and `toClient` are the two directions of the connection. The server
reads a command only in the loops of `checkBreakpoint` and `notifyHalted`
(`Waiting`); `STATE` is answered cell by cell (`SendCell`), and other commands
may arrive meanwhile. `BrokenPipe` is a send to a client that has gone: the line
is lost, or the signal ends the emulator. The client is any client; `client`
records what it sent and was told, from which `ViewIsCurrent` and
`StopsAsExpected` are stated.

### `Assembler`

`Line` is a set of token sequences; `Parse` is the lexer's choice of a type,
`Tokens` the substitution of quoted text, `Matches` the pattern. Pass 1 fills
`instrs`, `labels`, `variables` and `constants`; `CalculateAddresses`,
`EmitInstruction`, `WriteImage` and `WriteMap` follow the code's order, so that a
failure leaves the image and the map that the code leaves. `Means` is the
reference: what a source means, without passes or tables (`Operands` are the
lexemes that have a place in the cell, `Position` is that place), and `Sound` is
the reference for the errors. The prefixes `*` and `@` are written "star" and
"at".

## 3. The runs

| run | bounds | shows |
|---|---|---|
| `sched` | 3 PCBs, blocks of 2 cells, RAM for 4 of them, quantum 2, 5 loads | types; blocks disjoint and accounted for; pids unique; who waits does not execute; refinement of `Processes`; round robin; every ready process runs or is killed |
| `context` | 3 processes, 2 blocks, words `A Res PC` seen, `Top` present | refinement of `PrivateState` |
| `descriptors` | 3 processes, 3 descriptors, columns from 16, lists of 2 | no descriptor leaks |
| `descriptors_hang` | columns from 2 | **violation**: the kernel loops on an emptied column |
| `files` | 2 files (3 lines: one in two chunks around the other), 10 blocks, 2 descriptors, 2 contents, lines 1 to 3 | descriptors stay current; refinement of `TextFiles` |
| `machine` | 2 programs, 2 registers, blocks of 5 cells, 2 values, quantum 1, addresses in the registers, in the block, at its end and behind it; none is negative | mode, phase and interrupt data agree; refinement of `Programs`; no program keeps the CPU |
| `machine_negative` | the same with the address -4 | **violation**: a store to a negative address changes the block of another program |
| `operations` | int from -9 to 8, 6 x 8 x 3 x 2 operands, 3 steps | what ends the emulator; quotient and remainder; searches, columns and joins agree |
| `control_blocks` | 3 PCBs, 5 loads, program counters of one and two digits | texts hold the records; the list of free blocks is a stack |
| `keyboard` | 3 characters (one ends a line, one is the name of a mode), 5 typed, terminal and pipe | one reader for each character; a script is read to its end; the end stops the emulator |
| `debugger` | 2 cells of code with every content, 1 breakpoint, 2 edits, 4 commands, 2 on their way | the client's view and expectations hold; answers come; nobody waits for ever |
| `assembler` | 17 lines, sources of up to 4, 1 error before the abort | the image means its source; the map leads back; the wrong sources are refused |

Why the bounds are enough:

* Three slots: the smallest ring on which a scan can skip somebody or give two
  turns before one. RAM for four blocks against three slots: blocks lost by
  failed loads can exhaust it while slots are free. Five loads reuse slots and
  blocks. A quantum of two puts the preemption both at an instruction and
  between two.
* Two blocks for three processes force the reuse of a block; `Zero`, `Blank` and
  a written value tell new, cleaned and used memory apart.
* Three descriptors shared by three processes fill the table and reuse it. The
  first column is 16 as in the code. `descriptors_hang` scales it to 2 instead
  of raising the descriptors above 16; the shipped default of 50 descriptors
  does reach 16.
* Two descriptors can be open on the same file or on both. The file in two
  chunks with the other file between them makes a wrong step out of a chunk
  reach a line of the other file. Three is one line past the end of either
  file. Two contents are enough to tell a stale line from a new one; they are
  symmetric, since no definition compares them with anything else.

* Two programs and a quantum of 1: an interrupt after every first and between
  every two instructions, and a switch at each. The addresses include both ends
  of a block and one behind it, so translation off by one reaches the other
  block. They are not negative: for a program with a negative one the properties
  do not hold, which `machine_negative` and `MachineTimer.cfg` show.
* An `int` of few values makes overflow and the least number happen within three
  steps. The operands have leading blanks, trailing junk, two zeros, a bare
  sign, and separators of none, one and two characters.
* Five loads over three slots give blocks back in every order and take them
  again, with list lengths from 0 to 3; the numbers have one, two and three
  digits or fewer, so columns change length.
* Five characters make two lines and an unfinished third, with the name of a
  mode in each place.
* Four commands are `STATE`, an edit, a resume and one more; two on their way
  let a command overtake an answer. Two cells hold a loop, a halt and a run off
  the end.
* Four lines hold a declaration and a use in either order, twice; one error
  before the abort lets both ends of `Fails` happen.

`CHECK_DEADLOCK FALSE` is set where the system may really stop: the machine is
halted or ended (`Sched`, `Machine`, `Debugger`, `Keyboard`), the assembler is
done, or a bounded program has taken its steps (`Operations`, `ControlBlocks`).

**Fairness.** In `Sched`, `Fairness` is `WF_vars(Program \/ TimerInterrupt)`: the loop of
`CPU::resetVector` executes instructions as long as the machine runs, whichever
they are. Nothing is fair about the shell or about a particular program:
`ReadyRuns` follows from the timer, with a positive quantum. `MaxPid` bounds the
number of loads, and thereby of exits; each exit restarts the scan at slot 0, so
without the bound a program that keeps loading short programs can starve a high
slot. `ReadyRuns` does not claim otherwise.

`Machine` needs `WF_vars(Next)` only, the same loop: nothing is assumed about
which instruction or handler comes next, and `ProgramsLoseTheCpu` follows from
the timer and from the end of the block. In `Debugger` the server's own steps are
fair, a broken pipe excepted, since it need not happen, and the client reads
what it is sent; it need not send anything or hang up. In `Keyboard` a program
goes on to call the kernel, a read that can return does, and `ReadInput` is
strongly fair: the shell and the programs that use the keyboard keep reading,
though other instructions come in between. A program that never reads again is
outside `StopsAtEof`.

Each property of a passing run has a *mutant* in `PROJECT.json`: a plausible bug
in one definition (defined right before it, named after it) under which TLC
finds the property violated.

## 4. What disagrees with the documentation

Two runs of `PROJECT.json` show disagreements. The others listed here are shown
by the configuration named, which TLC ends with a counterexample, or were seen
while modelling.

| | the code | what is said of it | shown by |
|---|---|---|---|
| 1 | The check of an address in user mode has no lower bound (`ram.cpp:129`, `:172`): a negative one reads and writes the blocks of others and the kernel | "so user programs are isolated within their allocated region" `ram.hpp:9` | run `machine_negative` |
| 2 | `sys_remove_unneeded_spaces` never returns on a doubled space (`04_sched.kga:835`) | "Now we should remove duplicated spaces" `:826` | run `descriptors_hang` |
| 3 | `wait_sched` wakes everybody as soon as nobody is ready | "until other processes complete" `syscalls.hpp:172` | `SchedWait.cfg` |
| 4 | `REG_LAST_KEY` (and `REG_F`) is not saved by the timer's handler | "per-process" `registers.hpp:68` | `ContextKey.cfg` |
| 5 | A key polled while the kernel executes is overwritten on the return (`cpu.cpp:132`, `:768`) | "Stores the last key pressed" `README.md:187` | `KeyboardKey.cfg` |
| 6 | The last cell of a block is not cleaned (`04_sched.kga:1075`) | "check whether it is still <=" `:1072` | `ContextTop.cfg` |
| 7 | `sys_sched_process_rm_fd` compares with the number of the column and removes nothing, so an exit can close a file of another process | "Remove file descriptor from fd list" `03_syscalls.kga:176` | `DescriptorsLists.cfg` |
| 8 | `Disk::writeBlock` refuses the last block, which a partition may end with | `README.md:569` | `FilesLast.cfg` |
| 9 | `fs_read` and `fs_write` accept line 0 | "If line number is incorrect" `02_fs.kga:639` | `FilesLine.cfg` |
| 10 | A text in quotes in the comment behind a `write` replaces its value (`compiler.cpp:326`) | comments may follow a command's arguments, README of the repository, 7.3 | `AssemblerQuote.cfg` |
| 11 | An empty priority shifts the columns that are read, not those that are written (`04_sched.kga:634`): the state of the process is read from the wrong place | the layout in `04_sched.kga:2` | `ControlBlocks` with `<<>>` in `Priority` |
| 12 | The kernel writes the mode of a read to `REG_A` and not to `KEYBOARD_BUFFER` (`09_kernel_base.kga:79`, `03_syscalls.kga:131`) | `keyboard.hpp:24` | seen |
| 13 | A label that is declared nowhere is written as an empty text without an error (`compiler.cpp:469`) | undefined labels are errors, `compiler.cpp:609` | seen; `Diagnosed` excepts it |
| 14 | Errors of pass 2 leave a new image beside the old map | the map is that of the image, `config.hpp` | seen |
| 15 | `SET` of `PROGRAM_COUNTER` in a pause does not change the instruction that executes next (`cpu.cpp:96`) | "live edit" `debug_server.hpp:22` | seen; `Expected` has it |
| 16 | Only the divisor "0" is reported; "00", "-0" and the least int by -1 raise a signal (`cpu.cpp:453`) | division by zero sets `REG_ERROR` | seen; `Divides` has it |
| 17 | For the same reason a program can store a negative number in `REG_SYS_HW_TIMER`, which switches the timer off (`interrupt_handler.cpp:88`), and loop for ever | "timer-based preemption" `interrupt_handler.hpp:51` | `MachineTimer.cfg` |
| 18 | A fetch behind the block, and any operand that `std::stoi` refuses, leave `CPU::step` as an exception and end the emulator (`cpu.cpp:107`, `:149`) | "User mode → graceful crash" `cpu.cpp:815` | `MachineFault.cfg` |

## 5. What is proved

TLAPS checks every leaf of `SchedProofs`, `CpuProofs`, `ProcessProofs`,
`FilesProofs`, `KeyboardProofs`, `DebuggerProofs`, `AssemblerProofs` and `Lemmas`
with Z3, Zenon and LS4, for every value of the constants that the named
assumptions allow.

Induction schemata take an operator as a parameter, which is out of the provers'
reach. `Lemmas` therefore states induction for one *set* of naturals at a time
(`LeastElement`, `Induction`): the set of the numbers for which the claim holds.
From it follow the existence of recursive functions (`SumExists`,
`ConcatExists`), what `FlattenSeq` returns (`FlattenJoins`), and `Num(q, C, n)`,
the number of elements of `C` among the first `n` of a queue, with the laws of
what happens to it at either end of the queue; and the same for sequences:
`SeqInduction`, for the set of the sequences of which a claim holds, and
`IterateExists`, that a function which goes on from each value to the next
exists, with which a recursive definition can be unfolded at all.

**The scheduler**, for every number of PCBs, size of blocks, amount of RAM,
quantum (negative ones too) and number of loads (`SchedConstants`: sizes are
naturals, at least one PCB, the quantum is an integer).

* `Types`: `TypeOK`, and `PausedDoesNotExecute` (`CpuOwnership`) with it, because
  a step of a program is typed only if it is that of a live process in slot
  `cur`.
* `Invariance`: the inductive invariant `IInv`, that is types, blocks disjoint,
  cells accounted for and pids unique.
* `MemoryExclusion`, `MemoryAccounting`, `PidUniqueness`: the parts a reader wants.
* `RoundRobin`: `HSpec => NoOvertaking`.
* `Refinement`: `Spec => ImplementsProcesses`.

The argument: `BlocksDisjoint` is not inductive without types, and it covers
the pool as well as the live processes: a freed block is handed out without a
look at RAM, so the pool must be disjoint from every owner at all times. A new
block starts at `freeStart`, and all earlier ones lie below it (`Within`), which
makes it fresh (`TakenBlockIsFresh`). Exit and kill move a block from a process
to the pool (`CleanedIsExclusive`); `sys_sched_run` changes states only
(`RunStep`, `SameBlocks`). The three parts are stated over explicit arguments
(`Exclusive`, `Distinct`, `Accounted`), so that each lemma talks of the table
before or after `Run` without priming it. The existence of the first ready and
the first free slot rests on `LeastElement`. Round robin needs an invariant of
its own (`RingOrder`): the slots that have passed a waiting one lie between it
and the current slot in the order of the scan, so the next one to be chosen is
ahead of all of them (`ScanIsAhead`), and none of them can be chosen again
before the one that waits. For the refinement, the abstract
choice among processes that do not wait is the concrete scan over ready slots;
`PidUniqueness` makes the map from slots to pids one to one, without which a
`pause` slot and a `ready` slot with the same pid would be one process.

**The machine**, for every number of programs, registers, length of blocks,
contents, addresses and quantum (`MachineConstants`: at least one program, two
registers, and blocks longer than the save area; addresses are integers).

* `MachineTypes`: `OwnAddresses /\ Spec => []TypeOK`; `TypeOK` is inductive. That
  RAM stays a function on its addresses is the memory safety of the emulator: a
  translated operand, a save area and a restored register are always cells of
  RAM.
* `MachineRefinement`: `OwnAddresses /\ Spec => ImplementsPrograms`.

Both suppose `OwnAddresses`: programs name no negative address of data. Jumps may
lead anywhere, to negative addresses too. Without the hypothesis both are false
of the code: row 1 of section 4 is the counterexample.

The argument: `Layout` (monotone products) gives `BlockCells` and `BlocksApart`,
that blocks are in RAM, behind the registers, and disjoint; `Reach` that an
operand which passes the check of `ram.cpp` and is not negative is a cell of the
block of `cur`, and so `CopyStores`: a copy is a store to a cell of RAM. Then a
store of a program changes one of its own cells and no other
(`StoreSeen`); saving the registers moves what the program sees to where the
mapping looks for it (`SaveSeen`), and so the call, the fault and the interrupt
change nothing else (`CallSeen`, `KernelRefines`); the return restores it
(`AnswerSeen`, `ResumeSeen`). With a quantum of 0 the return is followed by an
interrupt and no instruction, which is a stutter.

**The operations on texts**, for all texts over all sets of characters, every
largest int and programs of any operations (`TextsConstants`,
`OperationsConstants`: the digits, the blank and the minus are characters, and
programs write texts).

* `OperationsTypes`: `OperationsTypeOK`, which is inductive.
* `GuardsHold`: `GuardedNumbers`. `DivisionIsRight`: `Division`.
* `TextsAgreeAlways`: `TextsAgree`. `ColumnsAgreeAlways`: `ColumnsAgree`.

An operation leaves its operands where they were (`OperandsStay`), so each
property speaks of one operation and its result; the work is in the operators.
*Numbers*: the value of digits with one digit more is ten times the value and
the digit (`ValueIs`), what `std::to_string` writes are digits of that value
(`DigitsOfIs`, by induction up to the number, for the last digit is cut off by a
division), and the longest prefix of digits is all of such a text, behind its
sign (`PrefixIs`, `NumberOfDigits`, `NumberOfNegative`): hence `TextIs`, that
`std::stoi` reads the number `std::to_string` wrote. With it `Division` is a fact
about numbers, proved sign by sign (`DivisionIs`). `IsNumReads`: what `OP_IS_NUM`
accepts is a number from its first character to its last.
*Columns*: the columns of a text with one character more (`ColumnsIs`) give
those of two texts with a separator between them (`ColumnsSplit`), from which
texts without separators come back as they were joined (`ColumnsJoined`).
`OP_GET_COLUMN` does not see the empty columns and takes any character of its
third operand for a separator, where `OP_REPLACE_COLUMN` writes all of it
(`NonEmptyAll`, `SeenSplit`, `SeenJoined`): that is why `ColumnsAgree` needs its
conditions, and why they are enough.

**The control blocks**, for every number of slots and loads, all sizes and all
program counters (`ControlBlocksConstants`: the numbers of processes and cells
are ints).

* `ControlBlockTypes`: `ControlBlocksTypeOK`. `TextsAreRecords`:
  `TextsHoldRecords`. `TextIsStack`: `TextHoldsStack`.

All three suppose `GivenAsWords`: names and priorities are not empty and hold no
blank. Row 11 of section 4 is the counterexample without it. None of the
properties is inductive: a text that reads like a record may still have a blank
too many, and then the next field that is set lands elsewhere. The invariant
`ControlBlocksInv` says how each text is *made*: a control block is the fifteen
words of its record joined by blanks, the list is the blocks of the stack joined
by blanks *with an empty column behind them*, which is what the concatenation in
`sys_sched_clean_pcb` leaves (`ListOf`). So no column of a control block is empty
and reading and writing count alike (`FieldsOfJoined`), each field is at its
column and setting it gives the text of the changed record (`BlockIs`,
`BlockChanges`, `StateIsSet`, `PcIsSet`), and taking the first block from the
list, with the blank that stays cut off, gives the text of the rest
(`PoolPushed`, `PoolShortened`). And every block lies below the fresh memory
(`RecordBounds`), which the loads that are left keep below the largest int
(`BoundsOfBlocks`): that is why each number in the texts can be read again.

**The context**, for every number of processes and blocks and all contents of
words (`ContextConstants`).

* `Invariance`, `ContextTypes`: `ContextTypeOK` with the fact that two processes
  never share a block, which `Loads` keeps by taking a block that nobody has;
  that there is one is what `MemoryExclusion` says of `Sched`.
* `Privacy`: `CSpec => ImplementsPrivateState`, for words among `A`, `Res` and
  `PC`. The assumption is needed: rows 4 and 6 of section 4 are counterexamples
  with the others. The invariant needs, besides `IInv`, that a block which
  nobody has is blank in one way (`UnownedBlank`): it is what a new process
  finds in the registers that hold no arguments.

**The descriptors**, for every number of processes and descriptors and lists of
any length (`DescriptorConstants`).

* `DescriptorTypes`: `DescriptorsTypeOK`.
* `NoLeak`: `DSpec /\ []FewOpen => []NoDescriptorLeaks`, and `NoHang`:
  `KernelReturns` under the same condition, `FewOpen`: at most `FirstColumn`
  (16) descriptors are open at a time.
* `SmallTable`: `MaxFd <= FirstColumn /\ DSpec => []FewOpen`. With a table of at
  most 16 descriptors the condition is no condition on the programs.

The condition is needed: `descriptors_hang` is a counterexample, and the
configuration that is shipped has 50 descriptors (`05_config.kga:17`), so 17
open files are enough to be outside the theorem. The argument: an open takes the
lowest free descriptor, all below it are open, so it is lower than their number
(`LowestIsLow`) and never one that `sys_sched_process_rm_fd` takes for the number
of a column (`NothingMatches`). So no list ever gets a gap (`NoGap`), nothing is
taken out of a list, and a process that ends finds all its descriptors in it.

**The file system**, for every header, every layout of chunks, every number of
descriptors and contents (`FilesConstants`: entries are behind the mark, chunks
are on the disk and apart from each other).

* `Types`: `FilesTypeOK`. `DescriptorsStayCurrent`: `DescriptorsCurrent`.
* `Refinement`: `ImplementsTextFiles`, stops in the middle of a rewrite included.

All three suppose `PositiveLines`: no program asks for line 0 or a negative line,
for which `FilesLine.cfg` is the counterexample. The invariant: the header is
what it was at the start, as far as the image still reaches and up to any entry
that is still there (`HeaderKept`); an open descriptor names such an entry and has
its size (`EntriesKept`); nothing is open while the machine is off
(`OffMeansClosed`). Every image that a rewrite can leave, whole or cut short, has
the old or the new value in each line, up to its last line, which may be torn
(`RewrittenLeaves`, `CutShortLeaves`), and so keeps the header (`HeaderLine`). The
layout is the other half: `Upto` counts the lines of the first chunks
(`UptoSums`, over the recursive function by `Induction`), every line is in one
chunk, at one place of the concatenation (`LinesPlaced`), the kernel's walk over
the chunks comes to that block (`LineToBlockIn`), and two lines are never in one
block (`LinesApart`). So a write changes the line of one text and no other
(`ShownAfter`, `WriteRefines`).

**The keyboard**, for every alphabet, every text that names a mode, and inputs
of any length.

* `Types`: `KeyboardTypeOK`. `EachReadOnce`: `EachOnce`.
* `ReadsScript`: `ScriptIsRead`. `ReadsAllOfIt`: `StopsAtTheEnd`.

In each step characters move in one of three ways, always from the front of one
place to the end of the next (`Goes`, `StepMoves`): polled, from the host to the
reader; refilled, from the host to `std::cin`; read, from there to the reader.
Counting makes `Balance` of it. For a script that is piped in (`Script`: no
terminal, and no line that names a mode), `ScriptInv` says that what was typed is
what was taken, what `cin` holds and what the host holds, in this order; that the
lines returned are the lines of what was taken; that nobody reads characters; and
that what was taken ends with the end of a line until the input has ended. A
line ends at one place (`EndIs`), more text leaves the ends where they were
(`EndStays`), and a whole line behind whole lines is one line more
(`LinesGrow`).

**The debug server**, for every code, set of breakpoints and edits, and every
number of commands and answers on their way (`DebuggerConstants`).

* `TypesHold`: `DebuggerTypeOK`. `ClientIsUpToDate`: `ViewIsCurrent`.
  `ClientIsRight`: `StopsAsExpected`.

What the client may conclude depends on everything between it and the CPU, so
each part of the invariant is about the two queues. `PausesCounted`: the client
has sent ahead at least as many resumes as there are resumes and pauses on their
way, or one less, and then the CPU waits where the last pause says it does. That
is why a client that is not ahead of the server can take the last stop for the
present one. `ViewKept`: the n-th question is answered by the n-th `END`; if the
client has sent nothing since it asked, and the CPU was known to wait, then no
change is in front of the question, each line of the answer is what RAM holds,
and at its end it has said everything (`Complete`). `StopsKnown`: the stop that
is expected is the one that the first resume in the queue will lead to, once the
breakpoints in front of it are set (`Pending`, `After`); or the one that the
CPU, on its way, will come to (`Running`); or the one that is announced in the
queue (`Meets`); and the breakpoints that the client believes in are those of
the server after everything that is on its way. The walk along the code to the
next stop has one end (`WalkEndIs`), which depends on the code alone
(`StopsOfCode`). A client that hangs up keeps what it was told and learns
nothing more (`HungUp`).

**The assembler**, for every set of lines, every table of symbols and sources of
any length (`AssemblerConstants`).

* `AssemblerTypes`: `AssemblerTypeOK`.
* `Diagnosis`: `Diagnosed`. `ImageIsRight`: `ImageMeansSource`. `MapIsRight`:
  `MapLeadsToSource`.

The last three suppose `ReadAsWritten`: the tokens of a line are those that are
written there. The only lines of which that is false are writes whose value does
not begin with a quote and that have a text in quotes behind that, in the comment
say, or as the value itself with a prefix; and the configuration
`AssemblerQuote.cfg` is the counterexample with one. The invariant `IInv`
follows the passes. Whatever is in a table was declared by a line, and by one
only (`DeclarationsOK`). As long as there is no error nothing is missing from
the tables: the k-th instruction is the k-th line that is one, a label has the
address of as many instructions as there are lines above it, every variable and
every value of a write has its entry (`Complete`). Then constants follow the
code and variables the constants (`PlacesOK`), the output is the code encoded
with those tables, and image and map are made of them (`OutputOK`). `ErrorsOK`
ties the count of errors to the source: an error is counted only if a line is
none or a name is declared twice, or, in pass 2, used and declared nowhere; and
while the count is 0 there is no such thing among what was read. From there
`ImageCells` says which cell of the image is what, `AddressIs` and `LabelIs`
that the addresses of the tables are those of the source, `EncodedIs` that a
cell holds the command and one operand for each lexeme that has a place, in the
order of the lexemes, and `MadeDenotes` that the operand is what the lexeme
means: `MeansAt`.

**Only model-checked.** Liveness under fairness, which is out of the provers'
reach: `ReadyRuns`, `ProgramsLoseTheCpu`, `Answered`, `NobodyLeftPaused`,
`StopsAtEof`. Every invariant and every refinement that a passing run checks is
proved.

## 6. Abstractions

* A program is any sequence of instructions and system calls; programs are not
  modelled one by one.
* `DEBUG_ON` and `DEBUG_OFF` return from `CPU::step` before the timer is looked
  at: in `Sched` they are part of the next instruction (`Machine` has them).
* Text is a value: names, arguments and lines are model values. The layout of a
  PCB matters in `ControlBlocks`, and in `Descriptors` as a sequence of columns.
* Pids, loads, opens per process are bounded by `MaxPid` and `MaxOpens`.
* `MemEnd` is a constant: the top of RAM less the frame of the stack at the time
  of a load.
* `Files` has one partition that starts at block 2, found by its mount. An entry
  is written as the file itself, with its chunks as a constant, since nothing in
  the kernel changes an entry (`sys_fs_create` is empty) and no program writes a
  line that parses as one. A torn entry counts as no entry; in the code some
  prefixes parse as a shorter file, of which no block is left at that moment.
  The first line of an image goes out whole, with the first buffer.
* A rewrite whose output fails while the emulator goes on (`disk.cpp:112` checks
  nothing) is not an action; the images it leaves are those of `StopInWrite`.
* Negative descriptors and negative lines are not enumerated.
* What a store into the kernel does (`StoreKernel`, reached by negative addresses
  only) is coarse: the start of the current block becomes that of some process,
  the program counter or one control block changes, or the emulator stops. A store to the timer takes
  the values up to the quantum. An address so large that its sum with the start
  of the block overflows an int is taken as refused.
* `Machine` has two of the eleven user registers, the result and the number of
  the system call: the others are saved and restored in the same loops, and what
  the timer's handler leaves out is the subject of `Context`. Instructions are
  not decoded: each step is any instruction.
* `Operations` has no numbers with a point and no character for one, and leaves
  out the energy counter. `MaxInt` and `Char` are parameters.
* `ControlBlocks` takes a name for the four arguments, and the list of
  descriptors as empty (`Descriptors` has it). Priorities are not empty.
* `Keyboard` leaves echo out; `ReadLineSilently` echoes as `ReadLine` does.
* `Debugger`: `RAM` is the program counter and the code; a `STATE` asks for all
  of it; lines arrive whole.
* `Assembler`: numbers, names and quoted texts are values. The file of a line is
  its place in the sequence of all sources. The debug text behind an instruction
  is left out, as `std::stoi` and `>>` leave it unread.

## 7. Not modelled

* **Display**, debug printing and dumps: output that nothing reads back.
* **Boot**: configuration, mounts, memory layout, stack. They run once, in one
  order, before anything else; their limits are constants of the modules. The
  depth of the kernel's stack would need the call tree of the whole kernel.
  Relative paths and the search over mounts (`02_fs.kga:835` goes one entry too
  far) are pure look-ups, and are listed as hazards.
* **Options of the programs**, the boot scripts, tables of names, the user
  programs one by one.
* **Composition of `Machine` with `Sched`**: `Sched` takes the instruction with
  its handler as one step, which `Machine` justifies (no interrupt in kernel
  mode), but no module states the product of the two.

## 8. Running it

```
tlc -config MCSched.cfg MCSched          # likewise for each run of PROJECT.json
tlc -config FilesLine.cfg MCFiles        # and for the configurations of section 4
tlapm SchedProofs.tla                    # likewise for each module of section 5
```
