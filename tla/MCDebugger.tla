----------------------------- MODULE MCDebugger ----------------------------
EXTENDS Debugger

\* The client moves PROGRAM_COUNTER to the start, and takes an instruction out
MCEdit == {[cmd |-> "SET", a |-> PC, v |-> 0], [cmd |-> "SET", a |-> 1, v |-> "next"]}
=============================================================================
