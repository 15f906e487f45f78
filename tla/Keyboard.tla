------------------------------ MODULE Keyboard ------------------------------
(***************************************************************************)
(* What is typed or piped into the emulator and who gets it: the poll that *)
(* each CPU step makes (cpu.cpp:129-135), OP_READ_INPUT with its two kinds *)
(* of reads (input.cpp), and the register and the cell they end up in.     *)
(*                                                                         *)
(* Lines are read through the buffer of std::cin, characters and keys past *)
(* it, straight from the host.  No source ever writes a mode to            *)
(* KEYBOARD_BUFFER before OP_READ_INPUT (09_kernel_base.kga:78-80 and      *)
(* 03_syscalls.kga:131-136 write it to REG_A), so the mode of a read is    *)
(* the text that the read before it left there.                            *)
(*                                                                         *)
(* There is one program, which calls the kernel and returns from it; the   *)
(* shell is the kernel that has not returned yet.  Echo is left out.       *)
(***************************************************************************)
EXTENDS Integers, Sequences, FiniteSets, SequencesExt

CONSTANTS
    Char,     \* the characters
    NewLine,  \* the one that ends a line
    Null,     \* '\0', which readCharPlatform returns at the end of the input
    CharWord, \* the text "KeyboardReadChar"
    MaxTyped  \* the bound on the length of the input

ASSUME KeyboardConstants ==
    /\ MaxTyped \in Nat
    /\ NewLine \in Char /\ Null \notin Char
    /\ CharWord \in Seq(Char \ {NewLine}) \ {<<>>}

VARIABLES
    terminal,\* isatty(STDIN_FILENO), which never changes
    typed,   \* history: the whole input so far
    closed,  \* the end of the input: Ctrl+D, or the writer of the pipe ended
    host,    \* what the host has for the next read(2)
    cin,     \* what std::cin has read ahead
    eof,     \* eofReached_
    running, \* running_ of the CPU
    mode,    \* kernelMode_ of RAM
    reading, \* the read that OP_READ_INPUT waits for
    buffer,  \* KEYBOARD_BUFFER
    lastKey, \* REG_LAST_KEY
    saved,   \* its copy in the save area of the program
    lines,   \* history: the lines that reads of lines returned
    taken,   \* history: the characters that polls and reads consumed
    pressed  \* history: the last key that a poll saw

input == <<terminal, typed, closed>>
vars  == <<input, host, cin, eof, running, mode, reading, buffer, lastKey,
           saved, lines, taken, pressed>>

-----------------------------------------------------------------------------
\* Mutant of Polled: the poll does not ask isatty
PolledAnywhere == IF host # <<>> THEN <<Head(host)>> ELSE <<>>

\* pollKeyPlatform: a CPU step polls one character, and on a terminal only
Polled == IF terminal /\ host # <<>> THEN <<Head(host)>> ELSE <<>>

\* Poll: the key goes to REG_LAST_KEY, in both modes
Poll ==
    /\ host' = SubSeq(host, 1 + Len(Polled), Len(host))
    /\ taken' = taken \o Polled
    /\ pressed' = IF Polled = <<>> THEN pressed ELSE Polled[1]

KeyAfterPoll == IF Polled = <<>> THEN lastKey ELSE Polled[1]

\* parseKeyboardMode: whatever is not the name of a mode means a line
Mode == IF buffer = CharWord THEN "char" ELSE "line"

-----------------------------------------------------------------------------
(* The host *)

Type ==
    /\ ~closed /\ Len(typed) < MaxTyped
    /\ \E c \in Char : typed' = Append(typed, c) /\ host' = Append(host, c)
    /\ UNCHANGED <<terminal, closed, cin, eof, running, mode, reading, buffer, lastKey,
                   saved, lines, taken, pressed>>

Close ==
    /\ ~closed /\ closed' = TRUE
    /\ UNCHANGED <<terminal, typed, host, cin, eof, running, mode, reading, buffer,
                   lastKey, saved, lines, taken, pressed>>

-----------------------------------------------------------------------------
(* The steps of the CPU *)

Steps == running /\ reading = "-"

\* Any other instruction, of the program or of the kernel
Execute ==
    /\ Steps
    /\ Poll /\ lastKey' = KeyAfterPoll
    /\ UNCHANGED <<input, cin, eof, running, mode, reading, buffer, saved, lines>>

\* execSysCall copies the register, with what this step polled, to the block
SysCall ==
    /\ Steps /\ mode = "user"
    /\ Poll /\ lastKey' = KeyAfterPoll
    /\ saved' = lastKey'
    /\ mode' = "kernel"
    /\ UNCHANGED <<input, cin, eof, running, reading, buffer, lines>>

\* execSysReturn copies it back, over what the kernel's steps polled
SysReturn ==
    /\ Steps /\ mode = "kernel"
    /\ Poll /\ lastKey' = saved
    /\ mode' = "user"
    /\ UNCHANGED <<input, cin, eof, running, reading, buffer, saved, lines>>

\* execReadInput up to the read that blocks
ReadInput ==
    /\ Steps /\ mode = "kernel"
    /\ Poll /\ lastKey' = KeyAfterPoll
    /\ reading' = Mode
    /\ UNCHANGED <<input, cin, eof, running, mode, buffer, saved, lines>>

\* The end of execReadInput
Returns(text) ==
    /\ reading' = "-"
    /\ buffer' = text

AtCpuRest == UNCHANGED <<mode, lastKey, saved, pressed>>

HasLine == NewLine \in ToSet(cin)

\* std::getline takes more from the host while cin holds no end of a line;
\* the host gives some of what it has
Refill ==
    /\ running /\ reading = "line" /\ ~HasLine
    /\ \E n \in 1 .. Len(host) :
        /\ cin' = cin \o SubSeq(host, 1, n)
        /\ host' = SubSeq(host, n + 1, Len(host))
    /\ UNCHANGED <<input, eof, running, reading, buffer, lines, taken>>
    /\ AtCpuRest

\* Mutant of Rest: a new stream, with an empty buffer, for each read
NoRest(n) == <<>>

\* What stays in the buffer behind the n characters of a line
Rest(n) == SubSeq(cin, n + 1, Len(cin))

\* readLine
GetLine ==
    /\ running /\ reading = "line" /\ HasLine
    /\ LET n == SelectInSeq(cin, LAMBDA c : c = NewLine)
       IN  /\ Returns(SubSeq(cin, 1, n - 1))
           /\ cin' = Rest(n)
           /\ taken' = taken \o SubSeq(cin, 1, n)
    /\ lines' = Append(lines, buffer')
    /\ UNCHANGED <<input, host, eof, running>>
    /\ AtCpuRest

\* Mutant of NoMoreLines: the end is looked for before the buffer
NoMoreInput == closed /\ host = <<>>

\* std::cin.eof() after std::getline: the input ended within the line
NoMoreLines == closed /\ host = <<>> /\ ~HasLine

\* Mutant of GetEnd: execReadInput does not stop the CPU
GetEndRunsOn ==
    /\ running /\ reading = "line" /\ NoMoreLines
    /\ eof' = TRUE
    /\ cin' = <<>> /\ taken' = taken \o cin
    /\ UNCHANGED <<input, host, running, reading, buffer, lines>>
    /\ AtCpuRest

\* Mutant of GetEnd: readLine does not look at the state of the stream
GetEndUnseen ==
    /\ running /\ reading = "line" /\ NoMoreLines
    /\ Returns(cin)
    /\ cin' = <<>> /\ taken' = taken \o cin
    /\ UNCHANGED <<input, host, eof, running, lines>>
    /\ AtCpuRest

\* readLine at the end of the input: what there was of a line is dropped, and
\* execReadInput stops the CPU
GetEnd ==
    /\ running /\ reading = "line" /\ NoMoreLines
    /\ eof' = TRUE /\ running' = FALSE
    /\ cin' = <<>> /\ taken' = taken \o cin
    /\ UNCHANGED <<input, host, reading, buffer, lines>>
    /\ AtCpuRest

\* readCharPlatform: past the buffer of cin, and never the end of the input
GetChar ==
    /\ running /\ reading = "char"
    /\ \/ /\ host # <<>>
          /\ Returns(<<Head(host)>>)
          /\ host' = Tail(host) /\ taken' = Append(taken, Head(host))
       \/ /\ host = <<>> /\ closed
          /\ Returns(<<Null>>)
          /\ UNCHANGED <<host, taken>>
    /\ UNCHANGED <<input, cin, eof, running, lines>>
    /\ AtCpuRest

-----------------------------------------------------------------------------
Init ==
    /\ terminal \in BOOLEAN
    /\ typed = <<>> /\ closed = FALSE /\ host = <<>> /\ cin = <<>>
    /\ eof = FALSE /\ running = TRUE /\ mode = "kernel" /\ reading = "-"
    /\ buffer = <<>> /\ lastKey = Null /\ saved = Null
    /\ lines = <<>> /\ taken = <<>> /\ pressed = Null

Waits == Refill \/ GetLine \/ GetEnd \/ GetChar

Next ==
    \/ Type \/ Close
    \/ Execute \/ SysCall \/ SysReturn \/ ReadInput \/ Waits

Spec == Init /\ [][Next]_vars

\* Programs call the kernel, the kernel keeps reading commands, a read that
\* can go on does
FairSpec == Spec /\ WF_vars(SysCall) /\ SF_vars(ReadInput) /\ WF_vars(Waits)

-----------------------------------------------------------------------------
\* The state of the keyboard; only a read of a line at the end of the input
\* stops the CPU, only the kernel reads.
KeyboardTypeOK ==
    /\ terminal \in BOOLEAN /\ typed \in Seq(Char) /\ closed \in BOOLEAN
    /\ host \in Seq(Char) /\ cin \in Seq(Char)
    /\ eof \in BOOLEAN /\ running = ~eof
    /\ mode \in {"user", "kernel"}
    /\ reading \in {"-", "line", "char"}
    /\ reading # "-" => mode = "kernel"
    /\ buffer \in Seq(Char \cup {Null})
    /\ NewLine \in ToSet(buffer) => Len(buffer) = 1
    /\ lastKey \in Char \cup {Null} /\ saved \in Char \cup {Null}
    /\ eof => closed /\ host = <<>>

\* Nobody has asked for a character, which only a line with the text does
LinesOnly == CharWord \notin ToSet(lines)

Count(c, s) == Cardinality({i \in DOMAIN s : s[i] = c})

\* The lines of a text, the unfinished one at its end left out: the reference
\* for what a reader of lines gets
LinesOf(s) ==
    LET end(k) == IF k = 0 THEN 0 \* where line k ends
                  ELSE CHOOSE i \in DOMAIN s :
                           s[i] = NewLine /\ Count(NewLine, SubSeq(s, 1, i)) = k
    IN  [k \in 1 .. Count(NewLine, s) |-> SubSeq(s, end(k - 1) + 1, end(k) - 1)]

\* A script that is piped in is read line by line, each line whole and in its
\* place: the polls between the reads take nothing of it (input.cpp:212-217),
\* and no character is read past std::cin unless a line of the script itself
\* happens to be the name of a mode.
ScriptIsRead ==
    ~terminal /\ LinesOnly => IsPrefix(lines, LinesOf(typed))

\* The emulator stops at the end of the input only: every line that was
\* finished has been executed by then.
StopsAtTheEnd ==
    ~terminal /\ LinesOnly /\ ~running => lines = LinesOf(typed)

\* Keys, lines and characters share one input: whatever the steps of the CPU
\* and the typing do in between, each character is consumed once, by one of
\* them, or is still to come.
EachOnce ==
    LET all == taken \o cin \o host
    IN  \A c \in Char : Count(c, all) = Count(c, typed)

\* REG_LAST_KEY holds the last key pressed (README.md:187) that the program's
\* poll or the kernel's has seen.
LastKeyPressed == mode = "user" => lastKey = pressed

\* When the input has ended the emulator stops in the end, even if characters
\* are read, which never see the end.
StopsAtEof == closed ~> ~running
=============================================================================
