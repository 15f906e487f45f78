------------------------------ MODULE Programs -----------------------------
(***************************************************************************)
(* What the machine promises to the programs that share it: each one has   *)
(* its own cells and executes its own instructions one after another.  It  *)
(* loses no instruction and repeats none, nobody else writes its cells,    *)
(* and a system call changes its result register only.  Machine implements *)
(* it with one CPU, a timer and a kernel: whoever loses the CPU, after any  *)
(* instruction, goes on from there when it has it again.                   *)
(***************************************************************************)
EXTENDS Integers

CONSTANTS
    Process, \* the programs
    Address, \* the addresses a program uses, its registers included
    Val,     \* what a cell may hold
    Result,  \* the register that a system call answers in
    Number,  \* the register that holds the number of a system call
    Target,  \* the addresses programs jump to
    Entry    \* the address before the first instruction

VARIABLES
    alive,   \* the programs that have not ended
    on,      \* the one of them that has the CPU, if any
    calling, \* those of them that wait for the answer to a system call
    last,    \* for each live program, the address of its last instruction
    cell     \* for each live program, its cells

pvars == <<alive, on, calling, last, cell>>

PInit ==
    /\ alive = Process
    /\ on = {}
    /\ calling = {}
    /\ last = [p \in Process |-> Entry]
    /\ \E v \in Val : cell = [p \in Process |-> [a \in Address |-> v]]

\* An instruction is followed by the next one or by the target of a jump,
\* changes one cell at most, and may be the last one before an interrupt
Execute(p) ==
    /\ p \in on
    /\ on' \in {on, {}}
    /\ \E k \in {last[p] + 1} \cup {t - 1 : t \in Target} :
          last' = [last EXCEPT ![p] = k]
    /\ \E a \in Address, v \in Val : cell' = [cell EXCEPT ![p][a] = v]
    /\ UNCHANGED <<alive, calling>>

\* A program calls, or commits a fault that makes it call exit
Call(p) ==
    /\ p \in on
    /\ on' = {}
    /\ calling' = calling \cup {p}
    /\ last' = [last EXCEPT ![p] = @ + 1]
    /\ \E v \in Val : cell' = [cell EXCEPT ![p][Number] = v]
    /\ UNCHANGED alive

Answer(p) ==
    /\ p \in calling
    /\ on' \in {{}, {p}}
    /\ calling' = calling \ {p}
    /\ \E v \in Val : cell' = [cell EXCEPT ![p][Result] = v]
    /\ UNCHANGED <<alive, last>>

Resume(p) ==
    /\ on = {} /\ calling = {}
    /\ p \in alive
    /\ on' = {p}
    /\ UNCHANGED <<alive, calling, last, cell>>

End(p) ==
    /\ p \in calling
    /\ alive' = alive \ {p}
    /\ calling' = calling \ {p}
    /\ last' = [q \in alive' |-> last[q]]
    /\ cell' = [q \in alive' |-> cell[q]]
    /\ UNCHANGED on

PNext == \E p \in Process :
    Execute(p) \/ Call(p) \/ Answer(p) \/ Resume(p) \/ End(p)

PSpec == PInit /\ [][PNext]_pvars
=============================================================================
