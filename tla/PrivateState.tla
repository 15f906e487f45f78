--------------------------- MODULE PrivateState ----------------------------
(***************************************************************************)
(* What multitasking promises to a program: it has the registers, the      *)
(* program counter and the memory to itself.  Each process has a view of   *)
(* them; a process that is born finds its arguments and otherwise blank    *)
(* words; only steps of the process itself change its view, and losing the *)
(* CPU and getting it back changes nothing.  Context implements it.        *)
(***************************************************************************)
EXTENDS Processes

CONSTANTS
    Word,   \* the words looked at: registers, the program counter, memory
    Val,    \* what a word may hold
    Blanks, \* what a word that nobody wrote may hold
    Entry   \* the program counter of a program that has not started

VARIABLE view   \* for each process, the content of its words

FreshView(arg, blank) ==
    [w \in Word |-> CASE w = "A"  -> arg
                      [] w = "PC" -> Entry
                      [] OTHER    -> blank]

\* The process that has the CPU may change its own view; a process that is
\* born, if one is, starts from a fresh view; nobody else notices anything
OwnStep ==
    \E mine \in [Word -> Val], arg \in Val, blank \in Blanks :
        view' = [p \in alive' |-> IF p \notin alive THEN FreshView(arg, blank)
                                  ELSE IF p = running THEN mine
                                  ELSE view[p]]

NobodyNotices ==
    \E arg \in Val, blank \in Blanks :
        view' = [p \in alive' |-> IF p \in alive THEN view[p]
                                  ELSE FreshView(arg, blank)]

Compute ==
    /\ running \in alive \ waiting
    /\ UNCHANGED vars
    /\ OwnStep

PInit == Init /\ view = [p \in {} |-> p]

PNext ==
    \/ (Create \/ Wait \/ Kill) /\ OwnStep
    \/ (Launch \/ Switch \/ End) /\ NobodyNotices
    \/ Compute

PSpec == PInit /\ [][PNext]_<<vars, view>>
=============================================================================
