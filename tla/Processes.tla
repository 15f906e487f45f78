----------------------------- MODULE Processes -----------------------------
(***************************************************************************)
(* What the scheduler promises to programs, without the ring, the timer,   *)
(* the process control blocks and the RAM: processes are pids, born in     *)
(* increasing order; at most one runs; one that waits does not run again   *)
(* until nobody else can; and the shell gets the CPU back only when every  *)
(* process has ended.  Sched implements it.                                *)
(***************************************************************************)
EXTENDS Integers

CONSTANT MaxPid

VARIABLES
    born,       \* the last pid given out
    alive,      \* processes that have not ended
    waiting,    \* those of them that asked to wait
    running     \* the process that has the CPU, 0 for the shell

vars == <<born, alive, waiting, running>>

Init ==
    /\ born = 0
    /\ alive = {}
    /\ waiting = {}
    /\ running = 0

\* Choose who runs among the processes P, of which W wait
Choose(P, W) ==
    /\ alive' = P
    /\ \/ /\ P \ W # {}
          /\ waiting' = W
          /\ running' \in P \ W
       \/ /\ P \ W = {}
          /\ P # {}
          /\ waiting' = {}
          /\ running' \in P
       \/ /\ P = {}
          /\ waiting' = {}
          /\ running' = 0

Birth == born < MaxPid /\ born' = born + 1

\* The shell or the running process creates a process
Create ==
    /\ Birth
    /\ running \notin waiting
    /\ alive' = alive \cup {born + 1}
    /\ UNCHANGED <<waiting, running>>

\* The shell creates a process and gives up the CPU
Launch ==
    /\ Birth
    /\ running = 0
    /\ Choose(alive \cup {born + 1}, waiting)

\* The CPU changes hands: by the shell, by preemption, or after a wait
Switch ==
    /\ Choose(alive, waiting)
    /\ UNCHANGED born

Wait ==
    /\ running \in alive \ waiting
    /\ waiting' = waiting \cup {running}
    /\ UNCHANGED <<born, alive, running>>

End ==
    /\ running \in alive \ waiting
    /\ Choose(alive \ {running}, waiting)
    /\ UNCHANGED born

Kill ==
    /\ running \in alive \ waiting
    /\ \E p \in alive \ {running} :
          /\ alive' = alive \ {p}
          /\ waiting' = waiting \ {p}
    /\ UNCHANGED <<born, running>>

Next == Create \/ Launch \/ Switch \/ Wait \/ End \/ Kill

Spec == Init /\ [][Next]_vars
=============================================================================
