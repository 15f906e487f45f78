---------------------------- MODULE Descriptors ----------------------------
(***************************************************************************)
(* The file descriptors of KaguOS: one table for the whole system, and for *)
(* each process the list of its descriptors at the end of its process      *)
(* control block (the columns from FirstColumn on), which sys_sched_       *)
(* clean_pcb walks when the process ends.                                  *)
(*                                                                         *)
(* Who runs, is born and ends is taken from the abstract table of          *)
(* Processes.  A descriptor is its offset in the table of descriptors.     *)
(***************************************************************************)
EXTENDS Processes, Sequences, FiniteSets, Functions

CONSTANTS
    MaxFd,        \* sys_fs_desc_max_count
    FirstColumn,  \* the column of the first descriptor in a control block: 16
    MaxOpens      \* bound on the length of a list, hence on opens by a process

ASSUME DescriptorConstants ==
    /\ MaxPid \in Nat
    /\ MaxFd \in Nat
    /\ FirstColumn \in Nat \ {0}
    /\ MaxOpens \in Nat

VARIABLES
    owner,   \* who opened each descriptor, 0 when it is free
    list,    \* FD_LIST of each process: descriptors, or Gap where two
             \* separators have nothing between them
    hung     \* the kernel loops in sys_remove_unneeded_spaces for ever

dvars == <<vars, owner, list, hung>>

Fd  == 0 .. MaxFd - 1
Gap == -1

Busy == {f \in Fd : owner[f] # 0}

\* The number that OP_GET_COLUMN, which does not count the gaps, has for
\* the descriptor at place i of a list: the first one is 1
Column(p, i) == Cardinality({j \in 1 .. i : list[p][j] # Gap})

Listed(p) == Range(list[p]) \ {Gap}

-----------------------------------------------------------------------------
Executes == running \in alive \ waiting /\ ~hung

NothingOpens == UNCHANGED <<owner, list, hung>>

\* sys_fs_open by path, which takes the first free descriptor, and
\* sys_sched_process_add_fd, which appends it to the list
Open ==
    /\ Executes
    /\ Busy # Fd
    /\ Len(list[running]) < MaxOpens
    /\ LET f == CHOOSE g \in Fd \ Busy : \A h \in Fd \ Busy : g <= h
       IN  /\ owner' = [owner EXCEPT ![f] = running]
           /\ list' = [list EXCEPT ![running] = Append(@, f)]
    /\ UNCHANGED <<vars, hung>>

\* What sys_sched_process_rm_fd looks for: it means to compare the columns
\* with the descriptor but compares them with REG_B, which holds the number
\* of the column
Matches(p) ==
    {Column(p, i) : i \in {j \in DOMAIN list[p] :
                              /\ list[p][j] # Gap
                              /\ list[p][j] = FirstColumn + Column(p, j) - 1}}

\* OP_REPLACE_COLUMN, which does count the gaps, empties the first column
\* that matches; sys_remove_unneeded_spaces does not end on a doubled space
Emptied(p) ==
    IF Matches(p) = {} THEN list[p]
    ELSE [list[p] EXCEPT ![CHOOSE i \in Matches(p) :
                              \A j \in Matches(p) : i <= j] = Gap]

DoubledSpace(s) == \E i \in 1 .. Len(s) - 1 : s[i] = Gap

\* sys_fs_close frees any descriptor for any caller
Close(f) ==
    /\ Executes
    /\ owner' = [owner EXCEPT ![f] = 0]
    /\ list' = [list EXCEPT ![running] = Emptied(running)]
    /\ hung' = (Matches(running) # {} /\ DoubledSpace(Emptied(running)))
    /\ UNCHANGED vars

\* Mutants of ClosesListed: the walk starts one column late; the list stays
ClosesFromSecond(p) ==
    /\ owner' = [f \in Fd |-> IF \E i \in DOMAIN list[p] :
                                   Column(p, i) >= 2 /\ list[p][i] = f
                             THEN 0 ELSE owner[f]]
    /\ list' = [q \in alive' |-> list[q]]
    /\ UNCHANGED hung

ClosesNoList(p) ==
    /\ owner' = [f \in Fd |-> IF f \in Listed(p) THEN 0 ELSE owner[f]]
    /\ UNCHANGED <<list, hung>>

\* sys_sched_clean_pcb closes what the list of the process names
ClosesListed(p) ==
    /\ owner' = [f \in Fd |-> IF f \in Listed(p) THEN 0 ELSE owner[f]]
    /\ list' = [q \in alive' |-> list[q]]
    /\ UNCHANGED hung

\* sys_sched_process_load of a program: the loader needs a free descriptor
\* to read it, which it gives back; the list of the new process is empty
NewList ==
    /\ Busy # Fd
    /\ list' = [p \in alive \cup {born + 1} |->
                    IF p \in alive THEN list[p] ELSE <<>>]
    /\ UNCHANGED <<owner, hung>>

-----------------------------------------------------------------------------
Load  == Create /\ NewList /\ ~hung
Exec  == Launch /\ NewList /\ ~hung
Exit  == Executes /\ End /\ ClosesListed(running)
Yield == (Switch \/ Wait) /\ NothingOpens /\ ~hung
KillProcess == Executes /\ Kill /\ \E p \in alive \ alive' : ClosesListed(p)

DInit ==
    /\ Init
    /\ owner = [f \in Fd |-> 0]
    /\ list = [p \in {} |-> <<>>]
    /\ hung = FALSE

DNext ==
    \/ Open \/ \E f \in Fd : Close(f)
    \/ Load \/ Exec \/ Exit \/ KillProcess \/ Yield

DSpec == DInit /\ [][DNext]_dvars

-----------------------------------------------------------------------------
(* Properties *)

\* A list of descriptors exists for exactly the live processes.
DescriptorsTypeOK ==
    /\ owner \in [Fd -> 0 .. MaxPid]
    /\ list \in [alive -> Seq(Fd \cup {Gap})]
    /\ hung \in BOOLEAN

\* No descriptor leaks: one that is open is in the list of the process that
\* opened it, and that process is alive to close it when it ends.  It holds
\* as long as no descriptor reaches the number of a column, that is while no
\* more than FirstColumn files are open.
NoDescriptorLeaks ==
    \A f \in Busy : owner[f] \in alive /\ f \in Listed(owner[f])

\* sys_remove_unneeded_spaces, "Now we should remove duplicated spaces": it
\* removes them and returns, and so does the system call that needs it.
KernelReturns == ~hung

\* What the handler of fs_close says it does, "Remove file descriptor from fd
\* list of active process": so that no descriptor is in the lists of two
\* processes, and none ends by closing what another one has open.
ListsDisjoint ==
    \A p, q \in alive : p # q => Listed(p) \cap Listed(q) = {}
=============================================================================
