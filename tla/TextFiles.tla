----------------------------- MODULE TextFiles -----------------------------
(***************************************************************************)
(* What the file system promises to programs: a file is a fixed number of  *)
(* lines; a line that is written is read back until it is written again,   *)
(* whatever else is opened, read or written; a stop of the machine in the  *)
(* middle of a write may lose lines of any file, but it never puts the     *)
(* text of one line into another.  Files implements it.                    *)
(***************************************************************************)
EXTENDS Integers, Sequences

CONSTANTS
    File,   \* the files of a partition
    Size,   \* the number of lines of each
    Data,   \* what programs write
    MaxFd,  \* the number of descriptors
    Blank,  \* the empty line
    Torn,   \* a line of which a stopped write left only a part
    Lost,   \* a line that cannot be read any more
    NoFile  \* what a free descriptor stands for

VARIABLES
    text,   \* the lines of each file
    handle, \* the file of each descriptor
    result  \* the answer to the last call

vars == <<text, handle, result>>

Fd      == 0 .. MaxFd - 1
Line(f) == 1 .. Size[f]
AllLines == UNION {{<<f, n>> : n \in Line(f)} : f \in File}

Ok(v) == [ok |-> TRUE, val |-> v]
Error == [ok |-> FALSE, val |-> <<>>]

Unreadable(f) == \A n \in Line(f) : text[f][n] = Lost

\* The lines of f before the first one that cannot be read
UpToLost(f) ==
    LET lost == {n \in Line(f) : text[f][n] = Lost}
        end  == CHOOSE m \in 0 .. Size[f] :
                    /\ \A n \in 1 .. m : n \notin lost
                    /\ m = Size[f] \/ m + 1 \in lost
    IN  [n \in 1 .. end |-> text[f][n]]

AllUsed == \A fd \in Fd : handle[fd] # NoFile

Open(f) ==
    /\ \/ \E fd \in Fd :
             /\ handle[fd] = NoFile
             /\ handle' = [handle EXCEPT ![fd] = f]
             /\ result' = Ok(<<fd>>)
       \/ /\ AllUsed \/ Unreadable(f)
          /\ result' = Error
          /\ UNCHANGED handle
    /\ UNCHANGED text

Close(fd) ==
    /\ handle' = [handle EXCEPT ![fd] = NoFile]
    /\ result' = Ok(<<>>)
    /\ UNCHANGED text

Read(fd, n) ==
    LET line == text[handle[fd]][n]
    IN  /\ result' = IF line # Lost THEN Ok(<<line>>) ELSE Error
        /\ UNCHANGED <<handle, text>>

\* A program, or the configuration, is read line by line to its end
ReadAll(f) ==
    /\ \/ ~AllUsed /\ result' = Ok(UpToLost(f))
       \/ (AllUsed \/ Unreadable(f)) /\ result' = Error
    /\ UNCHANGED <<handle, text>>

\* Line n of the file becomes v; a line lost before may come back, empty
Write(fd, n, v) ==
    /\ result' = Ok(<<>>)
    /\ UNCHANGED handle
    /\ LET old == text  new == text'
       IN  \A f \in File : \A m \in Line(f) :
              IF f = handle[fd] /\ m = n THEN new[f][m] = v
              ELSE \/ new[f][m] = old[f][m]
                   \/ new[f][m] = Blank /\ old[f][m] = Lost

Refuse ==
    /\ result' = Error
    /\ UNCHANGED <<handle, text>>

AtMostOne(S) == \A a, b \in S : a = b

\* The machine stops, perhaps during a write: lines are lost, one may be
\* torn, one that an open file has may be written, and nothing stays open
Stop ==
    /\ handle' = [fd \in Fd |-> NoFile]
    /\ result' = Error
    /\ LET old  == text
           new  == text'
           torn    == {l \in AllLines : /\ new[l[1]][l[2]] = Torn
                                        /\ old[l[1]][l[2]] # Torn}
           written == {l \in AllLines : /\ new[l[1]][l[2]] \in Data \ {Blank}
                                        /\ new[l[1]][l[2]] # old[l[1]][l[2]]}
       IN  /\ \A f \in File : \A n \in Line(f) :
                 \/ new[f][n] \in {old[f][n], Lost, Torn} \cup Data
                 \/ new[f][n] = Blank /\ old[f][n] = Lost
           /\ AtMostOne(torn)
           /\ AtMostOne(written)
           /\ \A l \in written : \E fd \in Fd : handle[fd] = l[1]

Init ==
    /\ \A f \in File : text[f] \in [Line(f) -> Data]
    /\ handle = [fd \in Fd |-> NoFile]
    /\ result = Error

Next ==
    \/ \E f \in File : Open(f) \/ ReadAll(f)
    \/ \E fd \in Fd :
          \/ Close(fd)
          \/ /\ handle[fd] # NoFile
             /\ \E n \in Line(handle[fd]) :
                   Read(fd, n) \/ \E v \in Data : Write(fd, n, v)
    \/ Refuse \/ Stop

Spec == Init /\ [][Next]_vars
=============================================================================
