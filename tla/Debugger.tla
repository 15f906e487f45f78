------------------------------ MODULE Debugger -----------------------------
(***************************************************************************)
(* The debug server of the emulator (debug_server.cpp) and the loop of the *)
(* CPU that calls it.  Commands and answers are lines of one TCP           *)
(* connection, a queue each way; the CPU reads commands only while it is   *)
(* paused or halted, so commands wait as long as it runs.                  *)
(*                                                                         *)
(* RAM is the register PROGRAM_COUNTER and a few cells of code.  The       *)
(* instructions are those that differ for a debugger: go on, jump to the   *)
(* first cell, and halt.  An address behind the code stops the CPU without *)
(* a word, as the end of the input and the errors of the kernel do.  The   *)
(* client is not part of the repository: it is any program that sends      *)
(* commands, reads answers and hangs up.                                   *)
(***************************************************************************)
EXTENDS Integers, Sequences, SequencesExt

CONSTANTS
    Size,     \* the cells of code
    Breakable,\* the addresses that the client names in BREAK and CLEAR
    Edit,     \* its SET commands
    MaxSent,  \* the bound on the commands that the client sends
    Window    \* the bound on those that are on their way at a time

VARIABLES
    phase,       \* where the CPU is in step, checkBreakpoint or halt
    at,          \* the local variable pc of step
    ram,         \* data_ of RAM
    breakpoints, \* breakpoints_
    stepMode,    \* stepMode_
    dump,        \* the address that the loop of STATE sends next
    toServer,    \* lines on their way to the server
    toClient,    \* lines on their way to the client
    client       \* what the client did and knows

vars == <<phase, at, ram, breakpoints, stepMode, dump, toServer, toClient, client>>

PC   == 0
Code == 1 .. Size
Cell == {PC} \cup Code

Instruction == {"next", "first", "halt"}

ASSUME DebuggerConstants ==
    /\ Size \in Nat /\ MaxSent \in Nat /\ Window \in Nat
    /\ Breakable \subseteq Nat
    /\ \A e \in Edit : IF e.a = PC THEN e \in [cmd : {"SET"}, a : {PC}, v : Nat]
                      ELSE e \in [cmd : {"SET"}, a : Code, v : Instruction]

Resumes == {"CONTINUE", "STEP"}

Command ==
    [cmd : Resumes \cup {"STATE", "QUIT", "", "?"}]
        \cup [cmd : {"BREAK", "CLEAR"}, a : Breakable]
        \cup Edit

-----------------------------------------------------------------------------
(* The server *)

Waiting == phase \in {"paused", "halted"}

\* sendLine gives up on a broken connection
Say(m) == toClient' = IF client.open THEN Append(toClient, m) ELSE toClient

\* waitForClient
Accept ==
    /\ phase = "listening"
    /\ client.open
    /\ Say([msg |-> "READY"])
    /\ stepMode' = TRUE
    /\ phase' = "next"
    /\ UNCHANGED <<at, ram, breakpoints, dump, toServer, client>>

\* The head of step, and checkBreakpoint up to its loop
CheckBreakpoint ==
    /\ phase = "next"
    /\ at' = ram[PC] + 1
    /\ ram' = [ram EXCEPT ![PC] = @ + 1]
    /\ IF at' \in breakpoints \/ stepMode
       THEN Say([msg |-> "PAUSED", a |-> at']) /\ phase' = "paused"
       ELSE phase' = "execute" /\ UNCHANGED toClient
    /\ UNCHANGED <<breakpoints, stepMode, dump, toServer, client>>

\* readLine finds the next command, which has one of these names
Receives(names) ==
    /\ toServer # <<>>
    /\ Head(toServer).cmd \in names
    /\ toServer' = Tail(toServer)
    /\ UNCHANGED <<at, client>>

\* Mutant of Resume: the mode is set once and never cleared
ResumeStepping ==
    /\ Waiting
    /\ Receives(Resumes)
    /\ stepMode' = (stepMode \/ Head(toServer).cmd = "STEP")
    /\ phase' = IF phase = "paused" THEN "execute" ELSE phase
    /\ UNCHANGED <<ram, breakpoints, dump, toClient>>

\* A CPU that has halted does not resume
Resume ==
    /\ Waiting
    /\ Receives(Resumes)
    /\ stepMode' = (Head(toServer).cmd = "STEP")
    /\ phase' = IF phase = "paused" THEN "execute" ELSE phase
    /\ UNCHANGED <<ram, breakpoints, dump, toClient>>

SetBreakpoint ==
    /\ Waiting
    /\ Receives({"BREAK", "CLEAR"})
    /\ LET c == Head(toServer)
       IN  breakpoints' = IF c.cmd = "BREAK" THEN breakpoints \cup {c.a}
                                             ELSE breakpoints \ {c.a}
    /\ UNCHANGED <<phase, ram, stepMode, dump, toClient>>

\* Mutant of Set: the CPU goes on
SetResumes ==
    /\ Waiting
    /\ Receives({"SET"})
    /\ ram' = [ram EXCEPT ![Head(toServer).a] = Head(toServer).v]
    /\ phase' = IF phase = "paused" THEN "execute" ELSE phase
    /\ UNCHANGED <<breakpoints, stepMode, dump, toClient>>

Set ==
    /\ Waiting
    /\ Receives({"SET"})
    /\ ram' = [ram EXCEPT ![Head(toServer).a] = Head(toServer).v]
    /\ UNCHANGED <<phase, breakpoints, stepMode, dump, toClient>>

Unknown ==
    /\ Waiting
    /\ Receives({"?"})
    /\ UNCHANGED <<phase, ram, breakpoints, stepMode, dump, toClient>>

\* The loop of STATE, of the CPU in the state s
Dumping == [paused |-> "dump paused", halted |-> "dump halted"]

State ==
    /\ Waiting
    /\ Receives({"STATE"})
    /\ phase' = Dumping[phase]
    /\ dump' = PC
    /\ UNCHANGED <<ram, breakpoints, stepMode, toClient>>

\* Mutant of SendCell: the last cell is not sent
SendCellBut ==
    \E s \in DOMAIN Dumping :
        /\ phase = Dumping[s]
        /\ IF dump < Size
           THEN /\ Say([msg |-> "RAM", a |-> dump, v |-> ram[dump]])
                /\ dump' = dump + 1
                /\ UNCHANGED phase
           ELSE /\ Say([msg |-> "END"])
                /\ phase' = s
                /\ UNCHANGED dump
        /\ UNCHANGED <<at, ram, breakpoints, stepMode, toServer, client>>

\* Mutant of SendCell: the end is not sent
SendCellEndless ==
    \E s \in DOMAIN Dumping :
        /\ phase = Dumping[s]
        /\ IF dump \in Cell
           THEN /\ Say([msg |-> "RAM", a |-> dump, v |-> ram[dump]])
                /\ dump' = dump + 1
                /\ UNCHANGED phase
           ELSE /\ phase' = s
                /\ UNCHANGED <<dump, toClient>>
        /\ UNCHANGED <<at, ram, breakpoints, stepMode, toServer, client>>

SendCell ==
    \E s \in DOMAIN Dumping :
        /\ phase = Dumping[s]
        /\ IF dump \in Cell
           THEN /\ Say([msg |-> "RAM", a |-> dump, v |-> ram[dump]])
                /\ dump' = dump + 1
                /\ UNCHANGED phase
           ELSE /\ Say([msg |-> "END"])
                /\ phase' = s
                /\ UNCHANGED dump
        /\ UNCHANGED <<at, ram, breakpoints, stepMode, toServer, client>>

\* Mutant of Quit: a lost connection is waited out
QuitInWords ==
    /\ Waiting
    /\ Receives({"QUIT", ""})
    /\ phase' = "ended"
    /\ UNCHANGED <<ram, breakpoints, stepMode, dump, toClient>>

\* QUIT, or an empty line, which readLine also returns for a lost connection
Quit ==
    /\ Waiting
    /\ \/ Receives({"QUIT", ""})
       \/ toServer = <<>> /\ ~client.open /\ UNCHANGED <<at, toServer, client>>
    /\ phase' = "ended"
    /\ UNCHANGED <<ram, breakpoints, stepMode, dump, toClient>>

\* A line to a client that has gone is lost, or SIGPIPE ends the emulator
BrokenPipe ==
    /\ ~client.open
    /\ \/ phase = "next" /\ (stepMode \/ ram[PC] + 1 \in breakpoints)
       \/ phase = "execute" /\ at \in Code /\ ram[at] = "halt"
       \/ phase \in {Dumping[s] : s \in DOMAIN Dumping}
    /\ phase' = "ended"
    /\ UNCHANGED <<at, ram, breakpoints, stepMode, dump, toServer, toClient, client>>

-----------------------------------------------------------------------------
(* The rest of step *)

\* The instruction is that of the address that was checked
Execute ==
    /\ phase = "execute"
    /\ at \in Code
    /\ ram[at] \in {"next", "first"}
    /\ phase' = "next"
    /\ ram' = [ram EXCEPT ![PC] = IF ram[at] = "first" THEN 0 ELSE @]
    /\ UNCHANGED <<at, breakpoints, stepMode, dump, toServer, toClient, client>>

Halt ==
    /\ phase = "execute"
    /\ at \in Code
    /\ ram[at] = "halt"
    /\ Say([msg |-> "HALTED"])
    /\ phase' = "halted"
    /\ UNCHANGED <<at, ram, breakpoints, stepMode, dump, toServer, client>>

\* No such address: the fetch throws and main returns
StopSilently ==
    /\ phase = "execute"
    /\ at \notin Code
    /\ phase' = "ended"
    /\ UNCHANGED <<at, ram, breakpoints, stepMode, dump, toServer, toClient, client>>

Server ==
    \/ Accept \/ CheckBreakpoint \/ Resume \/ SetBreakpoint \/ Set \/ Unknown
    \/ State \/ SendCell \/ Quit \/ BrokenPipe \/ Execute \/ Halt \/ StopSilently

-----------------------------------------------------------------------------
(* The client.  It counts the resumes it sent without having heard of the   *)
(* pause they were for, knows for each STATE whether it changed anything    *)
(* afterwards, and expects a stop when it resumes a CPU whose RAM it knows. *)

\* Stops that are no addresses
AtHalt   == -1
Nowhere  == -2
Anywhere == -3

\* The addresses where a CPU that executes the code c goes on to the next one,
\* and the end of the stretch of them that it walks from the address a on
Walked(c, breaks) == {b \in Code : c[b] = "next" /\ b \notin breaks}

WalkEnd(walked, a) ==
    CHOOSE b \in a .. a + Size : b \notin walked /\ \A x \in a .. b - 1 : x \in walked

\* Where it stops: it walks, and once more from the first cell when the walk
\* ends in a jump; a second jump repeats that walk for ever
Stops(c, breaks, a) ==
    LET end(b)   == WalkEnd(Walked(c, breaks), b)
        jumps(b) == b \in Code \ breaks /\ c[b] = "first"
        stop     == IF jumps(end(a)) THEN end(1) ELSE end(a)
    IN  IF stop \in breaks THEN stop
        ELSE IF stop \notin Code \/ jumps(stop) THEN Nowhere
        ELSE AtHalt

\* The instruction at the stop executes, whatever PROGRAM_COUNTER says
Expected(c) ==
    LET k == client.shown
        a == IF k[client.stop] = "first" THEN 1 ELSE k[PC] + 1
    IN  IF client.ahead # -1 \/ ~client.fresh THEN Anywhere
        ELSE IF client.stop \notin Code THEN Nowhere
        ELSE IF k[client.stop] = "halt" THEN AtHalt
        ELSE IF c = "STEP" THEN a
        ELSE Stops(k, client.breaks, a)

Connect ==
    /\ phase = "listening" /\ ~client.open
    /\ client' = [client EXCEPT !.open = TRUE]
    /\ UNCHANGED <<phase, at, ram, breakpoints, stepMode, dump, toServer, toClient>>

Changes(c) == c.cmd \in Resumes \cup {"SET"}

\* The connection ends with the server
Connected == client.open /\ phase # "ended"

Send(c) ==
    /\ Connected
    /\ client.sent < MaxSent /\ Len(toServer) < Window
    /\ toServer' = Append(toServer, c)
    /\ client' =
          [client EXCEPT
              !.sent   = @ + 1,
              !.ahead  = IF c.cmd \in Resumes THEN @ + 1 ELSE @,
              !.expect = IF c.cmd \in Resumes /\ client.ahead = -1
                         THEN Expected(c.cmd) ELSE @,
              !.breaks = IF c.cmd = "BREAK" THEN @ \cup {c.a}
                         ELSE IF c.cmd = "CLEAR" THEN @ \ {c.a} ELSE @,
              !.asked  = IF c.cmd = "STATE" THEN Append(@, TRUE)
                         ELSE IF Changes(c) THEN [i \in DOMAIN @ |-> FALSE] ELSE @,
              !.fresh  = @ /\ ~Changes(c)]
    /\ UNCHANGED <<phase, at, ram, breakpoints, stepMode, dump, toClient>>

Receive ==
    /\ client.open
    /\ toClient # <<>>
    /\ toClient' = Tail(toClient)
    /\ LET m == Head(toClient)
       IN  client' =
             CASE m.msg = "READY"  -> client
               [] m.msg = "PAUSED" -> [client EXCEPT !.ahead = @ - 1, !.stop = m.a,
                                                     !.expect = Anywhere]
               [] m.msg = "HALTED" -> [client EXCEPT !.stop = AtHalt]
               [] m.msg = "RAM"    -> [client EXCEPT !.shown = [@ EXCEPT ![m.a] = m.v],
                                                     !.fresh = FALSE]
               [] m.msg = "END"    -> [client EXCEPT !.fresh = Head(client.asked), !.asked = Tail(@)]
    /\ UNCHANGED <<phase, at, ram, breakpoints, stepMode, dump, toServer>>

\* What was sent before still arrives
HangUp ==
    /\ Connected /\ phase # "listening"
    /\ client' = [client EXCEPT !.open = FALSE]
    /\ UNCHANGED <<phase, at, ram, breakpoints, stepMode, dump, toServer, toClient>>

Client == Connect \/ (\E c \in Command : Send(c)) \/ Receive \/ HangUp

-----------------------------------------------------------------------------
Init ==
    /\ phase = "listening" /\ at = 0
    /\ \E code \in [Code -> Instruction] :
          ram = [a \in Cell |-> IF a = PC THEN 0 ELSE code[a]]
    /\ breakpoints = {} /\ stepMode = FALSE /\ dump = PC
    /\ toServer = <<>> /\ toClient = <<>>
    /\ client = [open |-> FALSE, sent |-> 0, ahead |-> 0, stop |-> Nowhere,
                 expect |-> Anywhere, breaks |-> {}, asked |-> <<>>,
                 fresh |-> FALSE, shown |-> [a \in Cell |-> ""]]

Next == Server \/ Client
Spec == Init /\ [][Next]_vars

\* The CPU executes and the client reads; nobody has to send anything
FairSpec == Spec /\ WF_vars(Server /\ ~BrokenPipe) /\ WF_vars(Receive)

-----------------------------------------------------------------------------
Phase == {"listening", "next", "paused", "halted", "dump paused", "dump halted",
          "execute", "ended"}

\* Each PAUSED but the first answers one CONTINUE or STEP: no command of
\* another kind lets the CPU go on.
DebuggerTypeOK ==
    /\ phase \in Phase
    /\ at \in Nat /\ ram[PC] \in Nat /\ \A a \in Code : ram[a] \in Instruction
    /\ breakpoints \subseteq Breakable
    /\ stepMode \in BOOLEAN
    /\ dump \in 0 .. Size + 1
    /\ toServer \in Seq(Command)
    /\ client.sent \in 0 .. MaxSent
    /\ client.ahead \in -1 .. MaxSent

\* What the client has been told is so as long as it says nothing that changes
\* it: the CPU stands at the address of the last PAUSED, and RAM is what the
\* last STATE showed, line by line as it was sent (debug_server.hpp, "PAUSED
\* <pc>  stopped at a breakpoint or after STEP").
ViewIsCurrent ==
    client.open =>
        /\ client.ahead = -1 =>
              /\ phase \in {"paused", "dump paused", "ended"}
              /\ client.stop = at
        /\ client.fresh => client.shown = ram

\* A client that knows RAM and its breakpoints knows where the next stop is:
\* STEP executes one instruction and CONTINUE all up to a breakpoint, whatever
\* else is on its way.
StopsAsExpected ==
    \A i \in DOMAIN toClient :
        /\ client.expect # Anywhere
        /\ \A j \in 1 .. i - 1 : toClient[j].msg \notin {"PAUSED", "HALTED"}
        => /\ toClient[i].msg = "PAUSED" => client.expect = toClient[i].a
           /\ toClient[i].msg = "HALTED" => client.expect = AtHalt

\* A client that asks while the CPU is paused gets its answer, unless it goes on
\* or away meanwhile.
Answered ==
    (client.asked # <<>> /\ client.ahead = -1)
        ~> (client.asked = <<>> \/ client.ahead # -1 \/ ~client.open \/ phase = "ended")

\* The CPU does not wait for a client that has gone (debug_server.cpp, "client
\* disconnected -> stop CPU").
NobodyLeftPaused == <>[](~client.open => phase \notin {"paused", "halted"})
=============================================================================
