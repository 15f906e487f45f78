------------------------------ MODULE MCSched ------------------------------
(***************************************************************************)
(* The scheduler with a history of who was given the CPU while others were *)
(* ready: the program's state has no trace of it, and round robin is about *)
(* nothing else.                                                           *)
(***************************************************************************)
EXTENDS Sched

VARIABLE passed   \* for each slot, the slots that got the CPU since it last
                  \* ran, became ready, or a process exited

hvars == <<vars, passed>>

HInit == Init /\ passed = [s \in Slot |-> {}]

Dispatched(s) ==
    passed' = [t \in Slot |-> IF t = s \/ pcb[t].state # "ready"
                              THEN {} ELSE passed[t] \cup {s}]

HNext ==
    \/ TimerInterrupt /\ Dispatched(cur')
    \/ /\ Shell \/ Exit
       /\ passed' = [s \in Slot |-> {}]
    \/ /\ Instruction \/ SchedProgram \/ SkipSched \/ WaitSched \/ Halt
       /\ UNCHANGED passed
    \/ \E pid \in 1 .. MaxPid :
          /\ KillProcess(pid)
          /\ passed' = [s \in Slot |-> IF pcb'[s].state = "free"
                                       THEN {} ELSE passed[s]]

HSpec == HInit /\ [][HNext]_hvars

HFairSpec == HSpec /\ Fairness

\* Round robin: while no process exits, a preemption never gives the CPU to a
\* process for the second time while a process that was ready all along has
\* not had it once (sys_sched_select_next, "current process will be the last
\* option to choose").
NoOvertaking ==
    [][TimerInterrupt =>
          \A s \in InState(pcb, "ready") \ {cur'} : cur' \notin passed[s]]_hvars
=============================================================================
