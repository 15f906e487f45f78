--------------------------- MODULE ControlBlocks ----------------------------
(***************************************************************************)
(* The process control blocks and the list of free blocks as the kernel    *)
(* keeps them (04_sched.kga): one text each, taken apart with              *)
(* OP_GET_COLUMN and changed with OP_REPLACE_COLUMN, which do not count    *)
(* the same columns.                                                       *)
(*                                                                         *)
(* What the scheduler takes them for is kept beside them: records with     *)
(* named fields, and a stack.  A name stands for the four arguments, and   *)
(* the descriptors behind FD_LIST are left out (Descriptors).              *)
(***************************************************************************)
EXTENDS Texts

CONSTANTS
    MaxSlot,    \* sys_max_proc_count
    FirstBlock, \* FREE_MEMORY_START after the boot
    BlockLen,   \* sys_proc_memory_size
    Entry,      \* 11, the program counter of a program that has not started
    Name,       \* the names of programs
    Priority,   \* the texts that programs and users give as a priority
    Counter,    \* the program counters that are saved
    MaxPid      \* the bound on the processes loaded

\* The state of a process, and the words between the values of a control block
Ready == <<"r">>
Pause == <<"p">>
Words == <<"P", "N", "S", "R", "M", "E", "C", "F">>

ASSUME ControlBlocksConstants ==
    /\ MaxSlot \in Nat /\ MaxPid \in Nat /\ FirstBlock \in Nat /\ BlockLen \in Nat
    /\ ToSet(Words) \cup {"r", "p"} \subseteq Char
    /\ Name \cup Priority \subseteq Seq(Char)
    \* The numbers in the texts are numbers of an int
    /\ MaxPid <= MaxInt /\ FirstBlock + MaxPid * (BlockLen + 1) <= MaxInt
    /\ Counter \cup {Entry} \subseteq 0 .. MaxInt

VARIABLES
    pcb,    \* the control block of each slot
    pool,   \* sys_pcb_free_mem_list
    fresh,  \* FREE_MEMORY_START
    born,   \* sys_last_used_pid
    record, \* history: the fields given to the control block of each slot
    blocks  \* history: the blocks given back, the last one first

bvars == <<pcb, pool, fresh, born, record, blocks>>

Slot  == 1 .. MaxSlot
NoRecord == [pid |-> 0]
Blank == <<Space>>
Zero  == <<"0">>

\* OP_CONCAT_WITH of one text after the other
Joined(texts) == JoinedWith(texts, Blank)

\* Where the values of a control block are
PidColumn   == 2
StateColumn == 6
StartColumn == 10
EndColumn   == 12

\* Mutant of PcColumn
PcColumnBefore == 13

PcColumn    == 14

Field(s, column) == GetColumn(pcb[s], column, Blank)
SetField(s, column, text) ==
    pcb' = [pcb EXCEPT ![s] = ReplaceColumn(@, column, Blank, text)]

-----------------------------------------------------------------------------
FreeSlots == {s \in Slot : pcb[s] = Zero}
FirstFree == CHOOSE s \in FreeSlots : \A t \in FreeSlots : s <= t

\* Mutant of Shortened: the blank that the removed column leaves stays
ShortenedByColumn(list) == ReplaceColumn(list, 1, Blank, <<>>)

\* The list without its first column
Shortened(list) ==
    LET rest == ReplaceColumn(list, 1, Blank, <<>>)
    IN  IF IsPrefix(Blank, rest) THEN Tail(rest) ELSE rest

FirstOfPool == GetColumn(pool, 1, Blank)

\* Mutant of NewBlock: without FD_LIST
NewBlockWithoutList(pid, name, priority, start) ==
    LET values == <<Text(pid), name, Ready, priority, Text(start),
                    Text(start + BlockLen), Text(Entry)>>
    IN  Joined([i \in 1 .. 14 |-> IF i % 2 = 1 THEN <<Words[(i + 1) \div 2]>>
                                  ELSE values[i \div 2]])

\* The control block that sys_sched_process_load puts together
NewBlock(pid, name, priority, start) ==
    LET values == <<Text(pid), name, Ready, priority, Text(start),
                    Text(start + BlockLen), Text(Entry)>>
    IN  Joined([i \in 1 .. 15 |-> IF i % 2 = 1 THEN <<Words[(i + 1) \div 2]>>
                                  ELSE values[i \div 2]])

\* sys_sched_process_load that succeeds
Load ==
    /\ FreeSlots # {} /\ born < MaxPid
    /\ born' = born + 1
    /\ IF FirstOfPool = <<>>
       THEN fresh' = fresh + BlockLen + 1 /\ UNCHANGED pool
       ELSE pool' = Shortened(pool) /\ UNCHANGED fresh
    /\ \E name \in Name, priority \in Priority :
          /\ LET start == IF FirstOfPool = <<>> THEN fresh ELSE Number(FirstOfPool)
             IN  pcb' = [pcb EXCEPT ![FirstFree] =
                            NewBlock(born + 1, name, priority, start)]
          /\ LET start == IF blocks = <<>> THEN fresh ELSE Head(blocks)
             IN  record' = [record EXCEPT ![FirstFree] =
                              [pid |-> born + 1, state |-> Ready, priority |-> priority,
                               start |-> start, end |-> start + BlockLen, pc |-> Entry]]
    /\ blocks' = IF blocks = <<>> THEN <<>> ELSE Tail(blocks)

\* sys_sched_process_pause and sys_sched_pause_to_ready
SetState ==
    /\ \E s \in Slot \ FreeSlots, state \in {Ready, Pause} :
          /\ SetField(s, StateColumn, state)
          /\ record' = [record EXCEPT ![s].state = state]
    /\ UNCHANGED <<pool, fresh, born, blocks>>

\* The timer's handler saves the program counter
SavePc ==
    /\ \E s \in Slot \ FreeSlots, pc \in Counter :
          /\ SetField(s, PcColumn, Text(pc))
          /\ record' = [record EXCEPT ![s].pc = pc]
    /\ UNCHANGED <<pool, fresh, born, blocks>>

\* sys_sched_clean_pcb
Clean ==
    /\ \E s \in Slot \ FreeSlots :
          /\ pool' = ConcatWith(Field(s, StartColumn), pool, Blank)
          /\ pcb' = [pcb EXCEPT ![s] = Zero]
          /\ blocks' = <<record[s].start>> \o blocks
          /\ record' = [record EXCEPT ![s] = NoRecord]
    /\ UNCHANGED <<fresh, born>>

-----------------------------------------------------------------------------
BInit ==
    /\ pcb = [s \in Slot |-> Zero]
    /\ pool = <<>> /\ fresh = FirstBlock /\ born = 0
    /\ record = [s \in Slot |-> NoRecord] /\ blocks = <<>>

BNext == Load \/ SetState \/ SavePc \/ Clean

BSpec == BInit /\ [][BNext]_bvars

-----------------------------------------------------------------------------
\* What the kernel reads from the control block of a slot
Read(s) ==
    IF pcb[s] = Zero THEN NoRecord
    ELSE [pid |-> Number(Field(s, PidColumn)),
          state |-> Field(s, StateColumn), priority |-> Field(s, 8),
          start |-> Number(Field(s, StartColumn)),
          end |-> Number(Field(s, EndColumn)),
          pc |-> Number(Field(s, 14))]

\* The texts keep what is put into them: a field changes only when it is set,
\* however long the values are and in which order fields are set and processes
\* come and go.
TextsHoldRecords == \A s \in Slot : Read(s) = record[s]

\* The list of free blocks is a stack: every block that is given back is handed
\* out once, before any new memory, whatever blanks the operations leave.
TextHoldsStack ==
    /\ SeenColumns(pool, Blank) = [i \in DOMAIN blocks |-> Text(blocks[i])]
    /\ Len(Columns(pool, Blank)) <= Len(blocks) + 1

\* A control block is a text of 15 columns, and the numbers in it and in the
\* list are numbers.
ControlBlocksTypeOK ==
    /\ \A s \in Slot \ FreeSlots :
          /\ \A c \in {PidColumn, StartColumn, EndColumn, PcColumn} : IsInt(Field(s, c))
          /\ Len(Columns(pcb[s], Blank)) = 15
    /\ \A n \in ToSet(SeenColumns(pool, Blank)) : IsInt(n)
    /\ fresh \in Nat /\ born \in 0 .. MaxPid
    /\ blocks \in Seq(Nat)
=============================================================================
