------------------------------ MODULE Context ------------------------------
(***************************************************************************)
(* How KaguOS switches the CPU between processes: what a system call, the  *)
(* timer interrupt and the loader save and restore, where, and what the    *)
(* end of a process leaves behind in its block of RAM.                     *)
(*                                                                         *)
(* Who runs, waits, is born and ends is taken from the abstract table of   *)
(* Processes, which the scheduler implements; a process lives in one block *)
(* and two never share one (BlocksDisjoint of Sched).  A handler runs with *)
(* interrupts off, so a system call is one step: its entry, its work and   *)
(* the return to the caller or to the next process.                        *)
(*                                                                         *)
(* The words: "A" stands for REG_A..REG_E, REG_OP and REG_BOOL_RES, which  *)
(* every path treats alike; "Res" stands for REG_RES and REG_ERROR; "F"    *)
(* and "Key" are REG_F and REG_LAST_KEY; "PC" is the program counter; and  *)
(* "Top" is the last cell of the block.                                    *)
(***************************************************************************)
EXTENDS Processes

CONSTANTS
    Block,  \* the blocks of RAM that processes live in
    Word,   \* the words modelled
    Seen,   \* those of them that the promise to programs is about
    Val,    \* what a word may hold, a program counter included
    Written,\* those of them that programs write and system calls return
    Zero,   \* "0": what RAM holds before anybody writes it
    Blank,  \* "": what a block is cleaned with
    Entry   \* 11: the cell before the first instruction of a program

ASSUME ContextConstants ==
    /\ Word \subseteq {"A", "Res", "F", "Key", "PC", "Top"}
    /\ Seen \subseteq Word
    /\ Written \cup {Zero, Blank, Entry} \subseteq Val

VARIABLES
    reg,    \* the registers of the CPU and PROGRAM_COUNTER
    ram,    \* each block: the save area (its cells 1 to 11) and the last cell
    at,     \* the block of each process
    pcbPc   \* column 14 of the process control block of each process

cvars == <<vars, reg, ram, at, pcbPc>>

Reg  == Word \ {"Top"}
Cell == Word \ {"PC"}

\* Mutant of SavedByInterrupt: the handler forgets REG_RES
SavedWithoutRes == Reg \ {"PC", "F", "Key", "Res"}

\* What the two entries into the kernel save in the block of the process:
\* OP_SYS_CALL all the user registers, the timer's handler not all of them
SavedBySysCall   == Reg \ {"PC"}
SavedByInterrupt == Reg \ {"PC", "F", "Key"}

Backup(saved) ==
    [ram EXCEPT ![at[running]] =
        [w \in Cell |-> IF w \in saved THEN reg[w] ELSE @[w]]]

\* OP_SYS_RETURN to the process that called, with the handler's result
Returns(res) == reg' = [w \in Reg |-> IF w = "Res" THEN res ELSE reg[w]]

\* OP_SYS_RETURN to the process chosen by sys_sched_run: the flag of the
\* interrupt data is 1 and its program counter comes from the control block.
\* When nobody is left the registers are the shell's, which no program sees
Resume ==
    reg' = [w \in Reg |-> IF running' = 0 THEN Blank
                          ELSE IF w = "PC" THEN pcbPc'[running']
                          ELSE ram'[at'[running']][w]]

\* sys_sched_process_load into a block that nobody has: the arguments go to
\* the save area, the program counter to the control block
Loads(m) ==
    \E b \in Block \ {at[p] : p \in alive}, arg \in Written :
        /\ ram' = [m EXCEPT ![b] =
                      [w \in Cell |-> IF w = "A" THEN arg ELSE @[w]]]
        /\ at' = [p \in alive \cup {born + 1} |->
                      IF p \in alive THEN at[p] ELSE b]
        /\ pcbPc' = [p \in alive \cup {born + 1} |->
                      IF p \in alive THEN pcbPc[p] ELSE Entry]

\* Mutant of Cleans: the control block is not freed
CleansMemoryOnly(m, p) ==
    /\ ram' = [m EXCEPT ![at[p]] =
                  [w \in Cell |-> IF w = "Top" THEN @[w] ELSE Blank]]
    /\ UNCHANGED <<at, pcbPc>>

\* sys_sched_clean_pcb blanks the block, up to but not including its last cell
Cleans(m, p) ==
    /\ ram' = [m EXCEPT ![at[p]] =
                  [w \in Cell |-> IF w = "Top" THEN @[w] ELSE Blank]]
    /\ at' = [q \in alive \ {p} |-> at[q]]
    /\ pcbPc' = [q \in alive \ {p} |-> pcbPc[q]]

-----------------------------------------------------------------------------
Runs == running \in alive \ waiting

\* An instruction of the program, or the poll of the keyboard before it
Instruction ==
    /\ Runs
    /\ \E w \in Reg, v \in Written : reg' = [reg EXCEPT ![w] = v]
    /\ UNCHANGED <<vars, ram, at, pcbPc>>

Store ==
    /\ Runs /\ "Top" \in Word
    /\ \E v \in Written : ram' = [ram EXCEPT ![at[running]]["Top"] = v]
    /\ UNCHANGED <<vars, reg, at, pcbPc>>

SysCall ==
    /\ Runs
    /\ ram' = Backup(SavedBySysCall)
    /\ \E res \in Written : Returns(res)
    /\ UNCHANGED <<vars, at, pcbPc>>

SysWait ==
    /\ Wait
    /\ ram' = Backup(SavedBySysCall)
    /\ \E res \in Written : Returns(res)
    /\ UNCHANGED <<at, pcbPc>>

SysLoad ==
    /\ Create /\ running # 0
    /\ Loads(Backup(SavedBySysCall))
    /\ \E res \in Written : Returns(res)

SysKill ==
    /\ Kill
    /\ \E p \in alive \ alive' : Cleans(Backup(SavedBySysCall), p)
    /\ \E res \in Written : Returns(res)

SysExit ==
    /\ End
    /\ Cleans(Backup(SavedBySysCall), running)
    /\ Resume

Preempt ==
    /\ Switch /\ running # 0
    /\ ram' = Backup(SavedByInterrupt)
    /\ pcbPc' = [p \in alive |-> IF p = running /\ "PC" \in Word
                                 THEN reg["PC"] ELSE pcbPc[p]]
    /\ UNCHANGED at
    /\ Resume

ShellRun ==
    /\ Switch /\ running = 0
    /\ UNCHANGED <<ram, at, pcbPc>>
    /\ Resume

ShellLoad ==
    /\ Create /\ running = 0
    /\ Loads(ram)
    /\ UNCHANGED reg

ShellExec ==
    /\ Launch
    /\ Loads(ram)
    /\ Resume

-----------------------------------------------------------------------------
CInit ==
    /\ Init
    /\ reg = [w \in Reg |-> Blank]
    /\ ram = [b \in Block |-> [w \in Cell |-> Zero]]
    /\ at = [p \in {} |-> p]
    /\ pcbPc = [p \in {} |-> p]

CNext ==
    \/ Instruction \/ Store \/ Preempt
    \/ SysCall \/ SysWait \/ SysLoad \/ SysKill \/ SysExit
    \/ ShellRun \/ ShellLoad \/ ShellExec

CSpec == CInit /\ [][CNext]_cvars

-----------------------------------------------------------------------------
\* The save areas and program counters exist for exactly the live processes.
ContextTypeOK ==
    /\ alive \subseteq 1 .. born
    /\ waiting \subseteq alive
    /\ running \in alive \cup {0}
    /\ reg \in [Reg -> Val]
    /\ ram \in [Block -> [Cell -> Val]]
    /\ at \in [alive -> Block]
    /\ pcbPc \in [alive -> Val]

\* What each process finds in its words: in the CPU while it has it, in its
\* save area and its control block while it has not
View ==
    [p \in alive |->
        [w \in Seen |-> CASE w \in Reg /\ p = running    -> reg[w]
                          [] w = "PC" /\ p # running     -> pcbPc[p]
                          [] OTHER                       -> ram[at[p]][w]]]

Private == INSTANCE PrivateState WITH Word <- Seen, Blanks <- {Zero, Blank}, view <- View

\* Preemption, system calls, and the birth and the end of other processes
\* never change a word under a process that is not the one running: it
\* resumes with exactly the words it had, and starts with nothing of the
\* previous owner of its block.
ImplementsPrivateState == Private!PSpec
=============================================================================
