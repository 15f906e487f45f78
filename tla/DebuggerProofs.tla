--------------------------- MODULE DebuggerProofs ---------------------------
(***************************************************************************)
(* Proofs about the debug server and what a client knows of the CPU, for   *)
(* every program, every set of breakpoints and edits and every number of   *)
(* commands on their way.                                                  *)
(***************************************************************************)
EXTENDS Debugger, Lemmas

-----------------------------------------------------------------------------
(* Types *)

\* The lines of each direction, by what the client has to know of them
Resumer == [cmd : Resumes]
Asker   == [cmd : {"STATE"}]
Changer == Resumer \cup Edit
Pause   == [msg : {"PAUSED"}, a : Nat]
Stop    == Pause \cup [msg : {"HALTED"}]
End     == [msg : {"END"}]
Value   == Nat \cup Instruction
Cells   == [msg : {"RAM"}, a : Cell, v : Value]
Message == Stop \cup End \cup Cells \cup [msg : {"READY"}]

Fields == {"open", "sent", "ahead", "stop", "expect", "breaks", "asked", "fresh", "shown"}

Types ==
    /\ DebuggerTypeOK
    /\ ram \in [Cell -> Value]
    /\ toClient \in Seq(Message)
    /\ client = [f \in Fields |-> client[f]]
    /\ client.open \in BOOLEAN /\ client.fresh \in BOOLEAN
    /\ client.ahead <= client.sent
    /\ client.asked \in Seq(BOOLEAN)
    /\ client.shown = [a \in Cell |-> client.shown[a]]

\* The server's side of the connection while it hears the client, or will
Hears == client.open \/ phase = "listening"

\* The bounds
LEMMA Sizes ==
    Size \in Nat /\ MaxSent \in Nat /\ Breakable \subseteq Nat /\ PC \in Cell /\ PC \notin Code
BY DebuggerConstants DEF PC, Cell, Code

\* The states of the loop of STATE
LEMMA DumpingStates ==
    /\ DOMAIN Dumping = {"paused", "halted"}
    /\ Dumping["paused"] = "dump paused" /\ Dumping["halted"] = "dump halted"
BY DEF Dumping

\* What the server says next
LEMMA SayStep ==
    ASSUME Types, NEW m \in Message, Say(m)
    PROVE  /\ toClient' \in Seq(Message)
           /\ ~client.open => toClient' = toClient
           /\ client.open => 
                 /\ toClient' = Append(toClient, m)
                 /\ Len(toClient') = Len(toClient) + 1
                 /\ \A i \in 1 .. Len(toClient) : toClient'[i] = toClient[i]
                 /\ toClient'[Len(toClient) + 1] = m
BY AppendProperties DEF Types, Say

\* What the server reads next
LEMMA ReceivesStep ==
    ASSUME Types, NEW names, Receives(names)
    PROVE  /\ toServer \in Seq(Command) /\ toServer # <<>>
           /\ Head(toServer) \in Command /\ Head(toServer) = toServer[1]
           /\ Head(toServer).cmd \in names
           /\ toServer' = Tail(toServer)
           /\ toServer' \in Seq(Command)
           /\ Len(toServer) \in Nat \ {0} /\ Len(toServer') = Len(toServer) - 1
           /\ \A i \in 1 .. Len(toServer') : toServer'[i] = toServer[i + 1]
           /\ at' = at /\ client' = client
BY HeadTailProperties DEF Types, DebuggerTypeOK, Receives

\* The commands are told apart by their names
LEMMA CommandNames ==
    ASSUME NEW c \in Command
    PROVE  /\ c.cmd \in Resumes \cup {"STATE", "QUIT", "", "?", "BREAK", "CLEAR", "SET"}
           /\ c.cmd \in Resumes <=> c \in Resumer
           /\ c.cmd = "STATE" <=> c \in Asker
           /\ c.cmd = "SET" <=> c \in Edit
           /\ c.cmd \in {"BREAK", "CLEAR"} => c.a \in Breakable /\ c = [cmd |-> c.cmd, a |-> c.a]
           /\ c.cmd = "SET" => /\ c.a \in Cell
                               /\ c.a = PC => c.v \in Nat
                               /\ c.a \in Code => c.v \in Instruction
           /\ Changes(c) <=> c \in Changer
<1>1. \A e \in Edit : e.cmd = "SET" /\ e.a \in Cell
                      /\ (e.a = PC => e.v \in Nat) /\ (e.a \in Code => e.v \in Instruction)
  BY DebuggerConstants DEF Cell, Code, PC
<1> QED BY <1>1 DEF Command, Resumer, Asker, Changer, Changes, Resumes

\* The types hold in the initial state
LEMMA InitTypes == Init => Types
<1> SUFFICES ASSUME Init PROVE Types
  OBVIOUS
<1>1. PICK code \in [Code -> Instruction] : ram = [a \in Cell |-> IF a = PC THEN 0 ELSE code[a]]
  BY DEF Init
<1>2. ram \in [Cell -> Value] /\ ram[PC] = 0 /\ \A a \in Code : ram[a] \in Instruction
  BY <1>1, DebuggerConstants DEF Cell, Code, PC, Value
<1>3. client = [f \in Fields |-> client[f]]
  BY DEF Init, Fields
<1>4. /\ client.open = FALSE /\ client.fresh = FALSE /\ client.ahead = 0
      /\ client.sent = 0 /\ client.asked = <<>>
      /\ client.shown = [a \in Cell |-> client.shown[a]]
  BY DEF Init
<1>5. toServer \in Seq(Command) /\ toClient \in Seq(Message) /\ client.asked \in Seq(BOOLEAN)
  BY <1>4, EmptySeq DEF Init
<1>6. /\ phase \in Phase /\ at \in Nat /\ breakpoints \subseteq Breakable
      /\ stepMode \in BOOLEAN
  BY DEF Init, Phase
<1>8. dump \in 0 .. Size + 1
  <2>1. dump = 0
    BY DEF Init, PC
  <2> QED BY <2>1, Sizes
<1>9. client.sent \in 0 .. MaxSent /\ client.ahead \in -1 .. MaxSent
  BY <1>4, Sizes
<1>7. DebuggerTypeOK
  BY <1>2, <1>5, <1>6, <1>8, <1>9 DEF DebuggerTypeOK
<1>10. client.open \in BOOLEAN /\ client.fresh \in BOOLEAN
  BY <1>4, Zenon
<1>11. client.ahead <= client.sent
  BY <1>4
<1> QED BY <1>2, <1>3, <1>4, <1>5, <1>7, <1>10, <1>11 DEF Types

-----------------------------------------------------------------------------
(* The steps of the client, field by field *)

SameExcept(fields) == \A f \in Fields \ fields : client'[f] = client[f]
Record == client' = [f \in Fields |-> client'[f]]

\* A record with new values is a record
LEMMA SendStep ==
    ASSUME Types, NEW c \in Command, Send(c)
    PROVE  /\ Record
           /\ SameExcept({"sent", "ahead", "expect", "breaks", "asked", "fresh"})
           /\ client'.sent = client.sent + 1
           /\ client'.ahead = IF c \in Resumer THEN client.ahead + 1 ELSE client.ahead
           /\ client'.expect = IF c \in Resumer /\ client.ahead = -1
                               THEN Expected(c.cmd) ELSE client.expect
           /\ client'.breaks = IF c.cmd = "BREAK" THEN client.breaks \cup {c.a}
                               ELSE IF c.cmd = "CLEAR" THEN client.breaks \ {c.a}
                               ELSE client.breaks
           /\ client'.asked = IF c \in Asker THEN Append(client.asked, TRUE)
                              ELSE IF c \in Changer THEN [i \in DOMAIN client.asked |-> FALSE]
                              ELSE client.asked
           /\ client'.fresh = (client.fresh /\ c \notin Changer)
<1> DEFINE fresh == client.fresh /\ ~Changes(c)
<1>1. /\ client = [f \in Fields |-> client[f]]
      /\ c.cmd \in Resumes <=> c \in Resumer
      /\ c.cmd = "STATE" <=> c \in Asker
      /\ Changes(c) <=> c \in Changer
  BY CommandNames DEF Types
<1>2. client' =
          [client EXCEPT
              !.sent   = @ + 1,
              !.ahead  = IF c.cmd \in Resumes THEN @ + 1 ELSE @,
              !.expect = IF c.cmd \in Resumes /\ client.ahead = -1
                         THEN Expected(c.cmd) ELSE @,
              !.breaks = IF c.cmd = "BREAK" THEN @ \cup {c.a}
                         ELSE IF c.cmd = "CLEAR" THEN @ \ {c.a} ELSE @,
              !.asked  = IF c.cmd = "STATE" THEN Append(@, TRUE)
                         ELSE IF Changes(c) THEN [i \in DOMAIN @ |-> FALSE] ELSE @,
              !.fresh  = fresh]
  BY DEF Send
<1>3. fresh = (client.fresh /\ c \notin Changer)
  BY <1>1
<1> HIDE DEF fresh
<1> QED BY <1>1, <1>2, <1>3 DEF Fields, Record, SameExcept

\* What the client does with the first message
LEMMA ReceiveStep ==
    ASSUME Types, Receive
    PROVE  /\ toClient \in Seq(Message) /\ toClient # <<>> /\ toClient' = Tail(toClient)
           /\ Head(toClient) \in Message /\ Head(toClient) = toClient[1]
           /\ toClient' \in Seq(Message)
           /\ Len(toClient) \in Nat \ {0} /\ Len(toClient') = Len(toClient) - 1
           /\ \A i \in 1 .. Len(toClient') : toClient'[i] = toClient[i + 1]
           /\ Record
           /\ LET m == Head(toClient)
              IN  \/ m \in [msg : {"READY"}] /\ client' = client
                  \/ /\ m \in Pause /\ SameExcept({"ahead", "stop", "expect"})
                     /\ client'.ahead = client.ahead - 1 /\ client'.stop = m.a
                     /\ client'.expect = Anywhere
                  \/ /\ m \in [msg : {"HALTED"}] /\ SameExcept({"stop"})
                     /\ client'.stop = AtHalt
                  \/ /\ m \in Cells /\ SameExcept({"shown", "fresh"})
                     /\ client'.shown = [client.shown EXCEPT ![m.a] = m.v]
                     /\ client'.fresh = FALSE
                  \/ /\ m \in End /\ SameExcept({"fresh", "asked"})
                     /\ client'.fresh = Head(client.asked)
                     /\ client'.asked = Tail(client.asked)
<1> DEFINE m == Head(toClient)
<1>1. /\ toClient \in Seq(Message) /\ toClient # <<>> /\ toClient' = Tail(toClient)
      /\ Head(toClient) \in Message /\ Head(toClient) = toClient[1]
      /\ toClient' \in Seq(Message)
      /\ Len(toClient) \in Nat \ {0} /\ Len(toClient') = Len(toClient) - 1
      /\ \A i \in 1 .. Len(toClient') : toClient'[i] = toClient[i + 1]
  BY HeadTailProperties DEF Types, Receive
<1>2. client = [f \in Fields |-> client[f]]
  BY DEF Types
<1>3. CASE m \in [msg : {"READY"}]
  <2>1. client' = client
    BY <1>3 DEF Receive
  <2> QED BY <1>1, <1>2, <1>3, <2>1 DEF Record
<1>4. CASE m \in Pause
  <2>1. client' = [client EXCEPT !.ahead = @ - 1, !.stop = m.a, !.expect = Anywhere]
    BY <1>4 DEF Receive, Pause
  <2> HIDE DEF m
  <2>2. Record /\ SameExcept({"ahead", "stop", "expect"}) /\ client'.ahead = client.ahead - 1
        /\ client'.stop = m.a /\ client'.expect = Anywhere
    BY <1>2, <2>1 DEF Fields, Record, SameExcept
  <2> QED BY <1>1, <1>4, <2>2 DEF m
<1>5. CASE m \in [msg : {"HALTED"}]
  <2>1. client' = [client EXCEPT !.stop = AtHalt]
    BY <1>5 DEF Receive
  <2>2. Record /\ SameExcept({"stop"}) /\ client'.stop = AtHalt
    BY <1>2, <2>1 DEF Fields, Record, SameExcept
  <2> QED BY <1>1, <1>5, <2>2
<1>6. CASE m \in Cells
  <2>1. client' = [client EXCEPT !.shown = [@ EXCEPT ![m.a] = m.v], !.fresh = FALSE]
    BY <1>6 DEF Receive, Cells
  <2> HIDE DEF m
  <2>2. Record /\ SameExcept({"shown", "fresh"})
        /\ client'.shown = [client.shown EXCEPT ![m.a] = m.v] /\ client'.fresh = FALSE
    BY <1>2, <2>1 DEF Fields, Record, SameExcept
  <2> QED BY <1>1, <1>6, <2>2 DEF m
<1>7. CASE m \in End
  <2>1. client' = [client EXCEPT !.fresh = Head(client.asked), !.asked = Tail(@)]
    BY <1>7 DEF Receive, End
  <2>2. Record /\ SameExcept({"fresh", "asked"})
        /\ client'.fresh = Head(client.asked) /\ client'.asked = Tail(client.asked)
    BY <1>2, <2>1 DEF Fields, Record, SameExcept
  <2> QED BY <1>1, <1>7, <2>2
<1> QED BY <1>1, <1>3, <1>4, <1>5, <1>6, <1>7 DEF Message, Stop, Pause

-----------------------------------------------------------------------------
(* The types, given that the client owes no answer that is on its way        *)

Bounded ==
    client.open =>
        /\ client.ahead >= Num(toClient, Pause, Len(toClient)) - 1
        /\ toClient # <<>> /\ Head(toClient) \in End => client.asked # <<>>

\* Every action of the server keeps the types
LEMMA ServerTypes == Types /\ Server => Types'
<1> SUFFICES ASSUME Types, Server PROVE Types'
  OBVIOUS
<1> DEFINE SameClient == client' = client
           Tables == /\ phase' \in Phase /\ at' \in Nat /\ ram'[PC] \in Nat
                     /\ \A a \in Code : ram'[a] \in Instruction
                     /\ breakpoints' \subseteq Breakable /\ stepMode' \in BOOLEAN
                     /\ dump' \in 0 .. Size + 1 /\ ram' \in [Cell -> Value]
           Lines  == toServer' \in Seq(Command) /\ toClient' \in Seq(Message)
<1>1. Tables /\ Lines /\ SameClient => Types'
  BY DEF Types, DebuggerTypeOK
<1> USE DEF Types, DebuggerTypeOK
<1>2. CASE Accept
  <2>1. [msg |-> "READY"] \in Message
    BY DEF Message
  <2> QED BY <1>1, <1>2, <2>1, SayStep DEF Accept, Phase
<1>3. CASE CheckBreakpoint
  <2>1. at' \in Nat /\ ram'[PC] \in Nat /\ ram' \in [Cell -> Value]
        /\ \A a \in Code : ram'[a] \in Instruction
    BY <1>3, Sizes DEF CheckBreakpoint, Value
  <2>2. [msg |-> "PAUSED", a |-> at'] \in Message
    BY <2>1 DEF Message, Stop, Pause
  <2> QED BY <1>1, <1>3, <2>1, <2>2, SayStep DEF CheckBreakpoint, Phase
<1>4. CASE Resume
  <2>1. toServer' \in Seq(Command) /\ at' = at /\ client' = client
    BY <1>4, ReceivesStep DEF Resume
  <2> QED BY <1>1, <1>4, <2>1 DEF Resume, Phase
<1>5. CASE SetBreakpoint
  <2>1. toServer' \in Seq(Command) /\ at' = at /\ client' = client
        /\ Head(toServer).a \in Breakable
    BY <1>5, ReceivesStep, CommandNames DEF SetBreakpoint
  <2> QED BY <1>1, <1>5, <2>1 DEF SetBreakpoint
<1>6. CASE Set
  <2> DEFINE c == Head(toServer)
  <2>1. toServer' \in Seq(Command) /\ at' = at /\ client' = client
        /\ c \in Command /\ c.cmd = "SET"
    BY <1>6, ReceivesStep DEF Set
  <2>2. ram' = [ram EXCEPT ![c.a] = c.v]
    BY <1>6 DEF Set
  <2> HIDE DEF c
  <2>4. c.a \in Cell /\ (c.a = PC => c.v \in Nat) /\ (c.a \in Code => c.v \in Instruction)
    BY <2>1, CommandNames
  <2>3. ram'[PC] \in Nat /\ ram' \in [Cell -> Value] /\ \A a \in Code : ram'[a] \in Instruction
    BY <2>2, <2>4, Sizes DEF Value, Cell
  <2> QED BY <1>1, <1>6, <2>1, <2>3 DEF Set
<1>7. CASE Unknown
  <2>1. toServer' \in Seq(Command) /\ at' = at /\ client' = client
    BY <1>7, ReceivesStep DEF Unknown
  <2> QED BY <1>1, <1>7, <2>1 DEF Unknown
<1>8. CASE State
  <2>1. toServer' \in Seq(Command) /\ at' = at /\ client' = client
    BY <1>8, ReceivesStep DEF State
  <2>2. phase' \in Phase
    BY <1>8, DumpingStates DEF State, Waiting, Phase
  <2>3. dump' \in 0 .. Size + 1
    <3>1. dump' = 0
      BY <1>8 DEF State, PC
    <3> QED BY <3>1, Sizes
  <2> QED BY <1>1, <1>8, <2>1, <2>2, <2>3 DEF State
<1>9. CASE SendCell
  <2>1. PICK s \in DOMAIN Dumping :
          /\ phase = Dumping[s]
          /\ IF dump \in Cell
             THEN /\ Say([msg |-> "RAM", a |-> dump, v |-> ram[dump]])
                  /\ dump' = dump + 1
                  /\ UNCHANGED phase
             ELSE /\ Say([msg |-> "END"])
                  /\ phase' = s
                  /\ UNCHANGED dump
          /\ UNCHANGED <<at, ram, breakpoints, stepMode, toServer, client>>
    BY <1>9 DEF SendCell
  <2>2. CASE dump \in Cell
    <3>1. [msg |-> "RAM", a |-> dump, v |-> ram[dump]] \in Message
      BY <2>2 DEF Message, Cells
    <3>2. toClient' \in Seq(Message)
      BY <2>1, <2>2, <3>1, SayStep
    <3>3. dump' \in 0 .. Size + 1
      BY <2>1, <2>2, Sizes DEF Cell, Code, PC
    <3> QED BY <1>1, <2>1, <2>2, <3>2, <3>3
  <2>3. CASE dump \notin Cell
    <3>1. [msg |-> "END"] \in Message
      BY DEF Message, End
    <3>2. toClient' \in Seq(Message)
      BY <2>1, <2>3, <3>1, SayStep
    <3>3. phase' \in Phase
      BY <2>1, <2>3, DumpingStates DEF Phase
    <3> QED BY <1>1, <2>1, <2>3, <3>2, <3>3
  <2> QED BY <2>2, <2>3
<1>10. CASE Quit
  <2>1. toServer' \in Seq(Command) /\ at' = at /\ client' = client
    BY <1>10, ReceivesStep DEF Quit
  <2> QED BY <1>1, <1>10, <2>1 DEF Quit, Phase
<1>11. CASE BrokenPipe
  BY <1>1, <1>11 DEF BrokenPipe, Phase
<1>12. CASE Execute
  <2>1. ram'[PC] \in Nat /\ ram' \in [Cell -> Value] /\ \A a \in Code : ram'[a] \in Instruction
    BY <1>12, Sizes DEF Execute, Value
  <2> QED BY <1>1, <1>12, <2>1 DEF Execute, Phase
<1>13. CASE Halt
  <2>1. [msg |-> "HALTED"] \in Message
    BY DEF Message, Stop
  <2> QED BY <1>1, <1>13, <2>1, SayStep DEF Halt, Phase
<1>14. CASE StopSilently
  BY <1>1, <1>14 DEF StopSilently, Phase
<1> QED BY <1>2, <1>3, <1>4, <1>5, <1>6, <1>7, <1>8, <1>9, <1>10, <1>11, <1>12,
           <1>13, <1>14 DEF Server

\* and so does every action of the client
LEMMA ClientTypes == Types /\ Bounded /\ Client => Types'
<1> SUFFICES ASSUME Types, Bounded, Client PROVE Types'
  OBVIOUS
<1> DEFINE Tables == UNCHANGED <<phase, at, ram, breakpoints, stepMode, dump>>
           Lines  == toServer' \in Seq(Command) /\ toClient' \in Seq(Message)
           Know   == /\ Record /\ client'.open \in BOOLEAN /\ client'.fresh \in BOOLEAN
                     /\ client'.sent \in 0 .. MaxSent /\ client'.ahead \in -1 .. MaxSent
                     /\ client'.ahead <= client'.sent
                     /\ client'.asked \in Seq(BOOLEAN)
                     /\ client'.shown = [a \in Cell |-> client'.shown[a]]
<1>1. Tables /\ Lines /\ Know => Types'
  BY DEF Types, DebuggerTypeOK, Record
<1>2. /\ client = [f \in Fields |-> client[f]] /\ client.open \in BOOLEAN
      /\ client.fresh \in BOOLEAN /\ client.sent \in 0 .. MaxSent
      /\ client.ahead \in -1 .. MaxSent /\ client.ahead <= client.sent
      /\ client.asked \in Seq(BOOLEAN) /\ client.shown = [a \in Cell |-> client.shown[a]]
      /\ toServer \in Seq(Command) /\ toClient \in Seq(Message)
  BY DEF Types, DebuggerTypeOK
<1>3. ASSUME NEW open \in BOOLEAN, client' = [client EXCEPT !.open = open]
      PROVE  Know
  <2>1. /\ Record /\ client'.open = open
        /\ client'.fresh = client.fresh /\ client'.sent = client.sent
        /\ client'.ahead = client.ahead /\ client'.asked = client.asked
        /\ client'.shown = client.shown
    BY <1>2, <1>3 DEF Fields, Record
  <2> QED BY <1>2, <2>1
<1>4. CASE Connect
  BY <1>1, <1>2, <1>3, <1>4 DEF Connect
<1>5. CASE HangUp
  BY <1>1, <1>2, <1>3, <1>5 DEF HangUp
<1>6. ASSUME NEW c \in Command, Send(c) PROVE Types'
  <2>1. toServer' \in Seq(Command) /\ toClient' = toClient /\ Tables
        /\ client.sent < MaxSent
    BY <1>2, <1>6, AppendProperties DEF Send
  <2>2. Record /\ client'.open = client.open /\ client'.shown = client.shown
    BY <1>6, SendStep DEF SameExcept, Fields
  <2>3. client'.fresh \in BOOLEAN
    <3>1. client'.fresh = (client.fresh /\ c \notin Changer)
      BY <1>6, SendStep
    <3> QED BY <3>1, Zenon
  <2>4. client'.sent \in 0 .. MaxSent /\ client'.ahead \in -1 .. MaxSent
        /\ client'.ahead <= client'.sent
    <3>1. client'.sent = client.sent + 1
          /\ (client'.ahead = client.ahead + 1 \/ client'.ahead = client.ahead)
      BY <1>6, SendStep
    <3> DEFINE s == client.sent
               a == client.ahead
               t == client'.sent
               b == client'.ahead
    <3>2. /\ MaxSent \in Nat /\ s \in 0 .. MaxSent /\ s < MaxSent
          /\ a \in -1 .. MaxSent /\ a <= s /\ t = s + 1 /\ (b = a + 1 \/ b = a)
      BY <1>2, <2>1, <3>1, Sizes
    <3> HIDE DEF s, a, t, b
    <3>3. t \in 0 .. MaxSent /\ b \in -1 .. MaxSent /\ b <= t
      BY <3>2
    <3> QED BY <3>3 DEF t, b
  <2>5. client'.asked \in Seq(BOOLEAN)
    <3>1. \/ client'.asked = Append(client.asked, TRUE)
          \/ client'.asked = [i \in DOMAIN client.asked |-> FALSE]
          \/ client'.asked = client.asked
      BY <1>6, SendStep
    <3>2. [i \in DOMAIN client.asked |-> FALSE] \in Seq(BOOLEAN)
      <4>1. DOMAIN client.asked = 1 .. Len(client.asked) /\ Len(client.asked) \in Nat
        BY <1>2
      <4>2. [i \in 1 .. Len(client.asked) |-> FALSE] \in Seq(BOOLEAN)
        BY <4>1, IsASeq
      <4> QED BY <4>1, <4>2
    <3>3. Append(client.asked, TRUE) \in Seq(BOOLEAN)
      BY <1>2, AppendProperties
    <3> QED BY <1>2, <3>1, <3>2, <3>3, Zenon
  <2> QED BY <1>1, <1>2, <2>1, <2>2, <2>3, <2>4, <2>5
<1>7. CASE Receive
  <2> DEFINE m == Head(toClient)
  <2>1. toClient' \in Seq(Message) /\ toServer' = toServer /\ Tables /\ Record
        /\ client.open /\ toClient # <<>> /\ m = toClient[1] /\ Len(toClient) \in Nat \ {0}
    BY <1>7, ReceiveStep DEF Receive
  <2>2. client'.open = client.open /\ client'.sent = client.sent
    BY <1>7, ReceiveStep DEF SameExcept, Fields
  <2>3. CASE m \in Pause
    <3>1. Num(toClient, Pause, Len(toClient)) >= 1
      <4>1. 1 \in 1 .. Len(toClient) /\ toClient[1] \in Pause
        BY <2>1, <2>3
      <4>2. Num(toClient, Pause, 1 - 1) + 1 = Num(toClient, Pause, 1)
            /\ Num(toClient, Pause, 1) <= Num(toClient, Pause, Len(toClient))
        BY <2>1, <4>1, NumAt
      <4>3. Num(toClient, Pause, 0) \in Nat /\ Num(toClient, Pause, Len(toClient)) \in Nat
            /\ Num(toClient, Pause, 1) \in Nat
        BY <2>1, NumIsFinite
      <4> QED BY <4>2, <4>3
    <3>2. client.ahead >= 0
      <4>1. Num(toClient, Pause, Len(toClient)) \in Nat
        BY <2>1, NumIsFinite
      <4> QED BY <1>2, <2>1, <3>1, <4>1 DEF Bounded
    <3>3. SameExcept({"ahead", "stop", "expect"}) /\ client'.ahead = client.ahead - 1
      BY <1>7, <2>3, ReceiveStep DEF Pause, End, Cells
    <3>4. client'.fresh = client.fresh /\ client'.asked = client.asked
          /\ client'.shown = client.shown
      BY <3>3 DEF SameExcept, Fields
    <3>5. client'.ahead \in -1 .. MaxSent /\ client'.ahead <= client'.sent
      BY <1>2, <2>2, <3>2, <3>3, Sizes
    <3> QED BY <1>1, <1>2, <2>1, <2>2, <3>4, <3>5
  <2>4. CASE m \in Cells
    <3>1. SameExcept({"shown", "fresh"}) /\ client'.fresh = FALSE
          /\ client'.shown = [client.shown EXCEPT ![m.a] = m.v]
      BY <1>7, <2>4, ReceiveStep DEF Pause, End, Cells
    <3>2. client'.ahead = client.ahead /\ client'.asked = client.asked
      BY <3>1 DEF SameExcept, Fields
    <3>3. client'.fresh \in BOOLEAN
      BY <3>1, Zenon
    <3>4. client'.shown = [a \in Cell |-> client'.shown[a]]
      <4> HIDE DEF m
      <4> QED BY <1>2, <3>1
    <3> QED BY <1>1, <1>2, <2>1, <2>2, <3>2, <3>3, <3>4
  <2>5. CASE m \in End
    <3>1. SameExcept({"fresh", "asked"}) /\ client'.fresh = Head(client.asked)
          /\ client'.asked = Tail(client.asked)
      BY <1>7, <2>5, ReceiveStep DEF Pause, End, Cells
    <3>2. client.asked # <<>>
      BY <2>1, <2>5 DEF Bounded
    <3>3. Head(client.asked) \in BOOLEAN /\ Tail(client.asked) \in Seq(BOOLEAN)
      BY <1>2, <3>2, HeadTailProperties
    <3>4. client'.ahead = client.ahead /\ client'.shown = client.shown
      BY <3>1 DEF SameExcept, Fields
    <3>5. client'.fresh \in BOOLEAN /\ client'.asked \in Seq(BOOLEAN)
      BY <3>1, <3>3, Zenon
    <3> QED BY <1>1, <1>2, <2>1, <2>2, <3>4, <3>5
  <2>6. CASE client' = client \/ SameExcept({"stop"})
    <3>1. /\ client'.fresh = client.fresh /\ client'.ahead = client.ahead
          /\ client'.asked = client.asked /\ client'.shown = client.shown
      BY <2>6 DEF SameExcept, Fields
    <3> QED BY <1>1, <1>2, <2>1, <2>2, <3>1
  <2> QED BY <1>7, <2>3, <2>4, <2>5, <2>6, ReceiveStep
<1> QED BY <1>4, <1>5, <1>6, <1>7 DEF Client

-----------------------------------------------------------------------------
(* Counting the lines on their way *)

\* A message of the server is counted once, at the end of its queue
LEMMA SaidNum ==
    ASSUME Types, NEW m \in Message, Say(m), client.open, NEW S
    PROVE  /\ \A i \in 0 .. Len(toClient) : Num(toClient', S, i) = Num(toClient, S, i)
           /\ Num(toClient', S, Len(toClient'))
                 = Num(toClient, S, Len(toClient)) + IF m \in S THEN 1 ELSE 0
           /\ Num(toClient, S, Len(toClient)) \in Nat
<1>1. toClient \in Seq(Message) /\ toClient' = Append(toClient, m) /\ Len(toClient) \in Nat
  BY SayStep DEF Types
<1>2. Num(toClient, S, Len(toClient)) \in Nat
  BY <1>1, NumIsFinite
<1> QED BY <1>1, <1>2, NumAppend

\* A request that the server reads is no longer counted
LEMMA ReadNum ==
    ASSUME Types, NEW names, Receives(names), NEW S
    PROVE  /\ \A i \in 0 .. Len(toServer') : Num(toServer, S, i + 1)
                 = Num(toServer', S, i) + IF Head(toServer) \in S THEN 1 ELSE 0
           /\ Num(toServer, S, Len(toServer))
                 = Num(toServer', S, Len(toServer')) + IF Head(toServer) \in S THEN 1 ELSE 0
           /\ Num(toServer', S, Len(toServer')) \in Nat
<1>1. /\ toServer \in Seq(Command) /\ toServer # <<>> /\ toServer' = Tail(toServer)
      /\ Len(toServer) \in Nat \ {0} /\ Len(toServer') = Len(toServer) - 1
      /\ toServer' \in Seq(Command)
  BY ReceivesStep
<1>2. Num(toServer', S, Len(toServer')) \in Nat
  <2>1. Len(toServer') \in Nat
    BY <1>1
  <2> QED BY <2>1, NumIsFinite
<1>3. \A i \in 0 .. Len(toServer') : Num(toServer, S, i + 1)
          = Num(toServer', S, i) + IF Head(toServer) \in S THEN 1 ELSE 0
  BY <1>1, NumTail
<1>4. Len(toServer') \in 0 .. Len(toServer') /\ Len(toServer') + 1 = Len(toServer)
  BY <1>1
<1> QED BY <1>2, <1>3, <1>4

\* A request that is sent is counted once, at the end of its queue
LEMMA SentNum ==
    ASSUME Types, NEW c \in Command, Send(c), NEW S
    PROVE  /\ toServer' = Append(toServer, c)
           /\ Len(toServer') = Len(toServer) + 1 /\ Len(toServer) \in Nat
           /\ \A i \in 1 .. Len(toServer) : toServer'[i] = toServer[i]
           /\ toServer'[Len(toServer) + 1] = c
           /\ \A i \in 0 .. Len(toServer) : Num(toServer', S, i) = Num(toServer, S, i)
           /\ Num(toServer', S, Len(toServer'))
                 = Num(toServer, S, Len(toServer)) + IF c \in S THEN 1 ELSE 0
           /\ Num(toServer, S, Len(toServer)) \in Nat
<1>1. toServer \in Seq(Command) /\ toServer' = Append(toServer, c) /\ Len(toServer) \in Nat
  BY DEF Types, DebuggerTypeOK, Send
<1>2. Num(toServer, S, Len(toServer)) \in Nat
  BY <1>1, NumIsFinite
<1> QED BY <1>1, <1>2, NumAppend, AppendProperties

\* A message that the client reads is no longer counted
LEMMA HeardNum ==
    ASSUME Types, Receive, NEW S
    PROVE  /\ \A i \in 0 .. Len(toClient') : Num(toClient, S, i + 1)
                 = Num(toClient', S, i) + IF Head(toClient) \in S THEN 1 ELSE 0
           /\ Num(toClient, S, Len(toClient))
                 = Num(toClient', S, Len(toClient')) + IF Head(toClient) \in S THEN 1 ELSE 0
           /\ Num(toClient', S, Len(toClient')) \in Nat
<1>1. /\ toClient \in Seq(Message) /\ toClient # <<>> /\ toClient' = Tail(toClient)
      /\ Len(toClient) \in Nat \ {0} /\ Len(toClient') = Len(toClient) - 1
      /\ toClient' \in Seq(Message)
  BY ReceiveStep
<1>2. Num(toClient', S, Len(toClient')) \in Nat
  <2>1. Len(toClient') \in Nat
    BY <1>1
  <2> QED BY <2>1, NumIsFinite
<1>3. \A i \in 0 .. Len(toClient') : Num(toClient, S, i + 1)
          = Num(toClient', S, i) + IF Head(toClient) \in S THEN 1 ELSE 0
  BY <1>1, NumTail
<1>4. Len(toClient') \in 0 .. Len(toClient') /\ Len(toClient') + 1 = Len(toClient)
  BY <1>1
<1> QED BY <1>2, <1>3, <1>4

\* The client hears the server from its connection on until it hangs up
LEMMA ServerHears ==
    ASSUME Types, Server, Hears'
    PROVE  client' = client /\ client.open /\ Hears
<1>1. client' = client /\ phase' # "listening"
  BY DumpingStates
     DEF Server, Accept, CheckBreakpoint, Resume, SetBreakpoint, Set, Unknown, State,
         SendCell, Quit, BrokenPipe, Execute, Halt, StopSilently, Waiting, Receives
<1> QED BY <1>1 DEF Hears

\* A client that hangs up hears nothing more
LEMMA HangUpEnds == Types /\ HangUp => ~Hears'
<1> SUFFICES ASSUME Types, HangUp PROVE ~Hears'
  OBVIOUS
<1>1. client = [f \in Fields |-> client[f]]
  BY DEF Types
<1>2. client'.open = FALSE /\ phase' # "listening"
  BY <1>1 DEF HangUp, Fields
<1> QED BY <1>2 DEF Hears

\* A client that connects starts with empty queues
LEMMA ConnectStep == Types /\ Connect =>
    /\ SameExcept({"open"})
    /\ UNCHANGED <<phase, at, ram, breakpoints, stepMode, dump, toServer, toClient>>
    /\ Hears
<1> SUFFICES ASSUME Types, Connect
             PROVE  SameExcept({"open"}) /\ Hears
  BY DEF Connect
<1>1. client = [f \in Fields |-> client[f]]
  BY DEF Types
<1> QED BY <1>1 DEF Connect, Fields, SameExcept, Hears

-----------------------------------------------------------------------------
(* Resumes and pauses: client.ahead = -1 means that the CPU stands where the *)
(* client was told                                                           *)

Paused == phase \in {"paused", "dump paused"}

Owed == Num(toServer, Resumer, Len(toServer)) + Num(toClient, Pause, Len(toClient))

LastStopIsAt ==
    /\ (\A i \in DOMAIN toClient : toClient[i] \notin Stop) => client.stop = at
    /\ \A i \in DOMAIN toClient :
          toClient[i] \in Stop /\ (\A j \in i + 1 .. Len(toClient) : toClient[j] \notin Stop)
             => toClient[i] \in Pause /\ toClient[i].a = at

\* There is a PAUSED for each resume, or there will be, or the CPU did not stop
PausesCounted ==
    \/ client.ahead >= Owed
    \/ (Paused \/ phase = "ended") /\ client.ahead = Owed - 1 /\ LastStopIsAt

\* What is owed is a number
LEMMA OwedType ==
    /\ Types => /\ Owed \in Nat /\ client.ahead \in Int
                /\ Num(toServer, Resumer, Len(toServer)) \in Nat
                /\ Num(toClient, Pause, Len(toClient)) \in Nat
    /\ Types' => Owed' \in Nat /\ client'.ahead \in Int
<1>1. ASSUME NEW q, NEW r, NEW m \in Nat, NEW n \in Nat
      PROVE  /\ Num(q, Resumer, m) \in Nat /\ Num(r, Pause, n) \in Nat
             /\ Num(q, Resumer, m) + Num(r, Pause, n) \in Nat
  <2>1. Num(q, Resumer, m) \in Nat
    BY NumIsFinite
  <2>2. Num(r, Pause, n) \in Nat
    BY NumIsFinite
  <2> QED BY <2>1, <2>2
<1>2. ASSUME Types
      PROVE  Len(toServer) \in Nat /\ Len(toClient) \in Nat /\ client.ahead \in Int
  BY <1>2, Sizes DEF Types, DebuggerTypeOK
<1>3. ASSUME Types'
      PROVE  Len(toServer') \in Nat /\ Len(toClient') \in Nat /\ client'.ahead \in Int
  BY <1>3, Sizes DEF Types, DebuggerTypeOK
<1> QED BY <1>1, <1>2, <1>3 DEF Owed

\* A line that is no stop changes nothing
LEMMA LastStopSaid ==
    ASSUME Types, NEW m \in Message, Say(m), client.open, m \notin Stop,
           LastStopIsAt, at' = at, client' = client
    PROVE  LastStopIsAt'
<1>1. /\ toClient \in Seq(Message) /\ toClient' \in Seq(Message) /\ Len(toClient) \in Nat
      /\ Len(toClient') = Len(toClient) + 1
      /\ \A i \in 1 .. Len(toClient) : toClient'[i] = toClient[i]
      /\ toClient'[Len(toClient) + 1] \notin Stop
      /\ DOMAIN toClient = 1 .. Len(toClient) /\ DOMAIN toClient' = 1 .. Len(toClient')
  BY SayStep DEF Types
<1> QED BY <1>1 DEF LastStopIsAt

\* The steps of the server keep the counts
LEMMA ServerCounts ==
    ASSUME Types, Types', Hears', PausesCounted, Server
    PROVE  PausesCounted'
<1>1. client' = client /\ client.open
  BY ServerHears
<1>2. /\ Owed \in Nat /\ client.ahead \in Int
      /\ Num(toServer, Resumer, Len(toServer)) \in Nat
      /\ Num(toClient, Pause, Len(toClient)) \in Nat
  BY OwedType
\* a line is said, and nothing read
<1>3. ASSUME NEW m \in Message, Say(m), toServer' = toServer
      PROVE  Owed' = Owed + IF m \in Pause THEN 1 ELSE 0
  <2>1. Num(toClient', Pause, Len(toClient'))
           = Num(toClient, Pause, Len(toClient)) + IF m \in Pause THEN 1 ELSE 0
    BY <1>1, <1>3, SaidNum
  <2> QED BY <1>2, <1>3, <2>1 DEF Owed
\* a line is read, and nothing said
<1>4. ASSUME NEW names, Receives(names), toClient' = toClient
      PROVE  Owed = Owed' + IF Head(toServer).cmd \in Resumes THEN 1 ELSE 0
  <2>1. Num(toServer, Resumer, Len(toServer))
           = Num(toServer', Resumer, Len(toServer')) + IF Head(toServer) \in Resumer THEN 1 ELSE 0
    BY <1>4, ReadNum
  <2>2. Head(toServer) \in Resumer <=> Head(toServer).cmd \in Resumes
    BY <1>4, ReceivesStep, CommandNames
  <2>3. Num(toServer', Resumer, Len(toServer')) \in Nat
    BY <1>4, ReadNum
  <2> QED BY <1>2, <1>4, <2>1, <2>2, <2>3 DEF Owed
<1>5. CASE Accept
  <2>1. [msg |-> "READY"] \in Message /\ [msg |-> "READY"] \notin Pause
    BY DEF Message, Pause
  <2>2. Owed' = Owed
    BY <1>2, <1>3, <1>5, <2>1 DEF Accept
  <2> QED BY <1>1, <1>5, <2>2 DEF PausesCounted, Paused, Accept
<1>6. CASE CheckBreakpoint
  <2>1. client.ahead >= Owed
    BY <1>6 DEF PausesCounted, Paused, CheckBreakpoint
  <2>2. CASE Say([msg |-> "PAUSED", a |-> at']) /\ phase' = "paused"
    <3> DEFINE m == [msg |-> "PAUSED", a |-> at']
    <3>1. at' \in Nat
      BY DEF Types, DebuggerTypeOK
    <3>2. m \in Message /\ m \in Pause /\ m.a = at' /\ m \in Stop
      BY <3>1 DEF Message, Stop, Pause
    <3> HIDE DEF m
    <3>3. Say(m)
      BY <2>2 DEF m
    <3>4. Owed' = Owed + 1
      BY <1>2, <1>3, <1>6, <3>2, <3>3 DEF CheckBreakpoint
    <3>5. LastStopIsAt'
      <4>1. /\ Len(toClient) \in Nat
            /\ Len(toClient') = Len(toClient) + 1
            /\ toClient'[Len(toClient) + 1] = m
            /\ DOMAIN toClient' = 1 .. Len(toClient')
        BY <1>1, <3>2, <3>3, SayStep DEF Types
      <4> QED BY <3>2, <4>1 DEF LastStopIsAt
    <3>6. client'.ahead >= Owed' \/ client'.ahead = Owed' - 1
      BY <1>1, <1>2, <2>1, <3>4
    <3>7. Paused'
      BY <2>2 DEF Paused
    <3> QED BY <3>5, <3>6, <3>7 DEF PausesCounted
  <2>3. CASE phase' = "execute" /\ UNCHANGED toClient
    <3>1. Owed' = Owed
      BY <1>6, <2>3 DEF CheckBreakpoint, Owed
    <3> QED BY <1>1, <2>1, <3>1 DEF PausesCounted
  <2> QED BY <1>6, <2>2, <2>3 DEF CheckBreakpoint
<1>7. CASE Resume
  <2>1. Head(toServer).cmd \in Resumes /\ Owed = Owed' + 1
    BY <1>2, <1>4, <1>7, ReceivesStep DEF Resume
  <2>2. Owed' \in Nat
    BY OwedType
  <2> QED BY <1>1, <1>2, <2>1, <2>2 DEF PausesCounted
<1>8. ASSUME NEW names, Receives(names), toClient' = toClient, names \cap Resumes = {},
             Paused => Paused' \/ phase' = "ended", phase # "ended"
      PROVE  PausesCounted'
  <2>1. Head(toServer).cmd \in names /\ at' = at
    BY <1>8, ReceivesStep
  <2>2. Owed' = Owed
    BY <1>4, <1>8, <2>1, OwedType
  <2>3. LastStopIsAt => LastStopIsAt'
    BY <1>1, <1>8, <2>1 DEF LastStopIsAt
  <2> QED BY <1>1, <1>8, <2>2, <2>3 DEF PausesCounted
<1>9. CASE SetBreakpoint \/ Set \/ Unknown
  BY <1>8, <1>9 DEF SetBreakpoint, Set, Unknown, Resumes, Waiting, Paused
<1>10. CASE State
  BY <1>8, <1>10, DumpingStates DEF State, Resumes, Waiting, Paused
<1>11. CASE SendCell
  <2>1. PICK m \in Message : Say(m) /\ m \notin Stop
    <3>1. CASE dump \in Cell
      <4>1. [msg |-> "RAM", a |-> dump, v |-> ram[dump]] \in Message \ Stop
        BY <3>1 DEF Types, Message, Cells, Stop, Pause
      <4> QED BY <1>11, <3>1, <4>1 DEF SendCell
    <3>2. CASE dump \notin Cell
      <4>1. [msg |-> "END"] \in Message \ Stop
        BY DEF Message, End, Stop, Pause
      <4> QED BY <1>11, <3>2, <4>1 DEF SendCell
    <3> QED BY <3>1, <3>2
  <2>2. Owed' = Owed
    BY <1>2, <1>3, <1>11, <2>1 DEF SendCell, Stop
  <2>3. LastStopIsAt => LastStopIsAt'
    BY <1>1, <1>11, <2>1, LastStopSaid DEF SendCell
  <2>4. Paused => Paused'
    BY <1>11, DumpingStates DEF SendCell, Paused
  <2>5. phase # "ended"
    BY <1>11, DumpingStates DEF SendCell
  <2> QED BY <1>1, <2>2, <2>3, <2>4, <2>5 DEF PausesCounted
<1>12. CASE Quit
  BY <1>1, <1>8, <1>12 DEF Quit, Waiting, Resumes
<1>13. CASE Execute \/ StopSilently
  <2>1. Owed' = Owed
    BY <1>13 DEF Execute, StopSilently, Owed
  <2> QED BY <1>1, <1>13, <2>1 DEF Execute, StopSilently, PausesCounted, Paused
<1>14. CASE Halt
  <2>1. [msg |-> "HALTED"] \in Message /\ [msg |-> "HALTED"] \notin Pause
    BY DEF Message, Stop, Pause
  <2>2. Owed' = Owed
    BY <1>2, <1>3, <1>14, <2>1 DEF Halt
  <2> QED BY <1>1, <1>14, <2>2 DEF PausesCounted, Paused, Halt
<1>15. CASE BrokenPipe
  BY <1>1, <1>15 DEF BrokenPipe
<1> QED BY <1>5, <1>6, <1>7, <1>9, <1>10, <1>11, <1>12, <1>13, <1>14, <1>15 DEF Server

\* A message that is read leaves the last stop where it was
LEMMA LastStopHeard ==
    ASSUME Types, Receive, LastStopIsAt
    PROVE  LastStopIsAt'
<1>1. /\ toClient \in Seq(Message) /\ toClient' \in Seq(Message)
      /\ Len(toClient) \in Nat \ {0} /\ Len(toClient') = Len(toClient) - 1
      /\ \A i \in 1 .. Len(toClient') : toClient'[i] = toClient[i + 1]
      /\ DOMAIN toClient = 1 .. Len(toClient) /\ DOMAIN toClient' = 1 .. Len(toClient')
      /\ Head(toClient) = toClient[1] /\ at' = at
  BY ReceiveStep DEF Receive
<1>2. \A i \in DOMAIN toClient' :
         toClient'[i] \in Stop /\ (\A j \in i + 1 .. Len(toClient') : toClient'[j] \notin Stop)
            => toClient'[i] \in Pause /\ toClient'[i].a = at'
  <2> SUFFICES ASSUME NEW i \in DOMAIN toClient', toClient'[i] \in Stop,
                      \A j \in i + 1 .. Len(toClient') : toClient'[j] \notin Stop
               PROVE  toClient'[i] \in Pause /\ toClient'[i].a = at'
    OBVIOUS
  <2>1. i + 1 \in DOMAIN toClient /\ toClient[i + 1] = toClient'[i]
    BY <1>1
  <2>2. ASSUME NEW j \in (i + 1) + 1 .. Len(toClient) PROVE toClient[j] \notin Stop
    <3>1. j - 1 \in i + 1 .. Len(toClient') /\ j - 1 \in 1 .. Len(toClient')
      BY <1>1
    <3>2. toClient'[j - 1] = toClient[(j - 1) + 1]
      BY <1>1, <3>1
    <3> QED BY <3>1, <3>2
  <2> QED BY <1>1, <2>1, <2>2 DEF LastStopIsAt
<1>3. ASSUME \A i \in DOMAIN toClient' : toClient'[i] \notin Stop
      PROVE  client'.stop = at'
  <2>1. ASSUME NEW j \in 2 .. Len(toClient) PROVE toClient[j] \notin Stop
    <3>1. j - 1 \in 1 .. Len(toClient') /\ (j - 1) + 1 = j
      BY <1>1
    <3> QED BY <1>1, <1>3, <3>1
  <2>2. CASE toClient[1] \in Stop
    <3>1. 1 \in DOMAIN toClient /\ \A j \in 1 + 1 .. Len(toClient) : toClient[j] \notin Stop
      BY <1>1, <2>1
    <3>2. toClient[1] \in Pause /\ toClient[1].a = at
      BY <2>2, <3>1 DEF LastStopIsAt
    <3>3. client'.stop = toClient[1].a
      BY <1>1, <3>2, ReceiveStep DEF Pause, End, Cells
    <3> QED BY <1>1, <3>2, <3>3
  <2>3. CASE toClient[1] \notin Stop
    <3>1. \A j \in DOMAIN toClient : toClient[j] \notin Stop
      BY <1>1, <2>1, <2>3
    <3>2. client.stop = at
      BY <3>1 DEF LastStopIsAt
    <3>3. client'.stop = client.stop
      BY <1>1, <2>3, ReceiveStep DEF Stop, SameExcept, Fields
    <3> QED BY <1>1, <3>2, <3>3
  <2> QED BY <2>2, <2>3
<1> QED BY <1>2, <1>3 DEF LastStopIsAt

\* The steps of the client keep the counts
LEMMA ClientCounts ==
    ASSUME Types, Types', Hears', PausesCounted, Client
    PROVE  PausesCounted'
<1>2. /\ Owed \in Nat /\ client.ahead \in Int /\ Owed' \in Nat
      /\ Num(toServer, Resumer, Len(toServer)) \in Nat
      /\ Num(toClient, Pause, Len(toClient)) \in Nat
  BY OwedType
<1>3. CASE Connect
  <2>1. /\ client'.ahead = client.ahead /\ client'.stop = client.stop
        /\ toServer' = toServer /\ toClient' = toClient /\ phase' = phase /\ at' = at
    BY <1>3, ConnectStep DEF SameExcept, Fields
  <2> QED BY <2>1 DEF PausesCounted, Paused, Owed, LastStopIsAt
<1>4. CASE HangUp
  BY <1>4, HangUpEnds
<1>5. ASSUME NEW c \in Command, Send(c) PROVE PausesCounted'
  <2>1. Num(toServer', Resumer, Len(toServer'))
           = Num(toServer, Resumer, Len(toServer)) + IF c \in Resumer THEN 1 ELSE 0
    BY <1>5, SentNum
  <2>2. toClient' = toClient /\ phase' = phase /\ at' = at
    BY <1>5 DEF Send
  <2>3. Owed' = Owed + IF c \in Resumer THEN 1 ELSE 0
    BY <1>2, <2>1, <2>2 DEF Owed
  <2>4. /\ client'.stop = client.stop
        /\ client'.ahead = client.ahead + IF c \in Resumer THEN 1 ELSE 0
    <3>1. /\ SameExcept({"sent", "ahead", "expect", "breaks", "asked", "fresh"})
          /\ client'.ahead = IF c \in Resumer THEN client.ahead + 1 ELSE client.ahead
      BY <1>5, SendStep
    <3> QED BY <1>2, <3>1 DEF SameExcept, Fields
  <2>5. LastStopIsAt => LastStopIsAt'
    BY <2>2, <2>4 DEF LastStopIsAt
  <2>6. Paused => Paused'
    BY <2>2 DEF Paused
  <2> QED BY <1>2, <2>2, <2>3, <2>4, <2>5, <2>6 DEF PausesCounted
<1>6. CASE Receive
  <2>1. /\ Num(toClient', Pause, Len(toClient')) \in Nat
        /\ Num(toClient, Pause, Len(toClient))
              = Num(toClient', Pause, Len(toClient')) + IF Head(toClient) \in Pause THEN 1 ELSE 0
    BY <1>6, HeardNum
  <2>2. toServer' = toServer /\ phase' = phase
    BY <1>6 DEF Receive
  <2>3. Owed = Owed' + IF Head(toClient) \in Pause THEN 1 ELSE 0
    BY <1>2, <2>1, <2>2 DEF Owed
  <2>4. client.ahead = client'.ahead + IF Head(toClient) \in Pause THEN 1 ELSE 0
    <3>1. CASE Head(toClient) \in Pause
      <4>1. client'.ahead = client.ahead - 1
        BY <1>6, <3>1, ReceiveStep DEF Pause, End, Cells
      <4> QED BY <1>2, <3>1, <4>1
    <3>2. CASE Head(toClient) \notin Pause
      <4>1. client'.ahead = client.ahead
        BY <1>6, <3>2, ReceiveStep DEF SameExcept, Fields
      <4> QED BY <1>2, <3>2, <4>1
    <3> QED BY <3>1, <3>2
  <2>5. LastStopIsAt => LastStopIsAt'
    BY <1>6, LastStopHeard
  <2>6. Paused => Paused'
    BY <2>2 DEF Paused
  <2>7. client'.ahead \in Int
    BY OwedType
  <2> QED BY <1>2, <2>2, <2>3, <2>4, <2>5, <2>6, <2>7 DEF PausesCounted
<1> QED BY <1>3, <1>4, <1>5, <1>6 DEF Client

-----------------------------------------------------------------------------
(* What STATE showed.  The k-th answer that is outstanding is clean as long  *)
(* as the client sent nothing after its STATE that changes the CPU's state   *)

Dumps == phase \in {"dump paused", "dump halted"}
Still == phase \in {"paused", "dump paused", "halted", "dump halted", "ended"}

Clean(k) == k \in DOMAIN client.asked /\ client.asked[k] = TRUE
Fresh    == client.fresh = TRUE

\* The answers that are complete and on their way, and those that are begun
Ends  == Num(toClient, End, Len(toClient))
Begun == Ends + IF Dumps THEN 1 ELSE 0

\* No command that changes anything is on its way behind the first n
NoChange(n) == \A i \in n + 1 .. Len(toServer) : toServer[i] \notin Changer

\* The lines of answer k, with those that the client has read already, show
\* what is in the cells up to bound
LineOf(k, a, j) ==
    /\ toClient[j] \in Cells /\ toClient[j].a = a /\ toClient[j].v = ram[a]
    /\ Num(toClient, End, j) + 1 = k

Complete(k, bound) ==
    \A a \in Cell : a < bound =>
        \/ k = 1 /\ client.shown[a] = ram[a]
        \/ \E j \in DOMAIN toClient : LineOf(k, a, j)

AnswersCounted == Len(client.asked) = Begun + Num(toServer, Asker, Len(toServer))

FreshKept == Fresh => Still /\ NoChange(0) /\ client.shown = ram
BegunKept == \A k \in 1 .. Begun : Clean(k) => Still /\ NoChange(0)
AskedKept ==
    \A i \in DOMAIN toServer :
        toServer[i] \in Asker /\ Clean(Begun + Num(toServer, Asker, i)) => NoChange(i)
CellsKept ==
    \A i \in DOMAIN toClient : toClient[i] \in Cells =>
        /\ Num(toClient, End, i) + 1 <= Begun
        /\ Clean(Num(toClient, End, i) + 1) => toClient[i].v = ram[toClient[i].a]
EndsKept == \A k \in 1 .. Ends : Clean(k) => Complete(k, Size + 1)
DumpKept == Dumps /\ Clean(Begun) => Complete(Begun, dump)

ViewKept ==
    /\ AnswersCounted
    /\ FreshKept /\ BegunKept /\ AskedKept /\ CellsKept /\ EndsKept /\ DumpKept

\* The counts and the lengths of the queues are numbers
LEMMA EndsType ==
    /\ Types => Ends \in Nat /\ Begun \in Nat /\ Len(toClient) \in Nat /\ Len(toServer) \in Nat
                /\ DOMAIN toClient = 1 .. Len(toClient) /\ DOMAIN toServer = 1 .. Len(toServer)
    /\ Types' => Ends' \in Nat /\ Begun' \in Nat /\ Len(toClient') \in Nat /\ Len(toServer') \in Nat
                /\ DOMAIN toClient' = 1 .. Len(toClient') /\ DOMAIN toServer' = 1 .. Len(toServer')
<1>1. Types => /\ Len(toClient) \in Nat /\ Len(toServer) \in Nat
               /\ DOMAIN toClient = 1 .. Len(toClient) /\ DOMAIN toServer = 1 .. Len(toServer)
  BY DEF Types, DebuggerTypeOK
<1>2. Types' => /\ Len(toClient') \in Nat /\ Len(toServer') \in Nat
                /\ DOMAIN toClient' = 1 .. Len(toClient') /\ DOMAIN toServer' = 1 .. Len(toServer')
  BY DEF Types, DebuggerTypeOK
<1>3. \A n \in Nat : Num(toClient, End, n) \in Nat /\ Num(toClient', End, n) \in Nat
  BY NumIsFinite
<1>4. Types => Ends \in Nat
  BY <1>1, <1>3 DEF Ends
<1>5. Types' => Ends' \in Nat
  BY <1>2, <1>3 DEF Ends
<1>6. (Types => Begun \in Nat) /\ (Types' => Begun' \in Nat)
  BY <1>4, <1>5 DEF Begun
<1> QED BY <1>1, <1>2, <1>4, <1>5, <1>6

\* While the CPU moves, or when a change is on its way, the client knows nothing
LEMMA NothingKnown ==
    ASSUME ViewKept, ~Still \/ ~NoChange(0)
    PROVE  ~Fresh /\ \A k \in 1 .. Begun : ~Clean(k)
BY DEF ViewKept, FreshKept, BegunKept

\* A step of the CPU: it may say that it stops
LEMMA MoveKeepsView ==
    ASSUME Types, Types', ViewKept, ~Still, ~Dumps', client' = client, client.open,
           toServer' = toServer,
           \/ toClient' = toClient
           \/ \E m \in Message \ (End \cup Cells) : Say(m)
    PROVE  ViewKept'
<1>0. ~Fresh /\ (\A k \in 1 .. Begun : ~Clean(k)) /\ ~Dumps
  BY NothingKnown DEF Still, Dumps
<1>1. Ends \in Nat /\ Begun = Ends
  BY <1>0, EndsType DEF Begun
<1>2. /\ Ends' = Ends
      /\ \A i \in DOMAIN toClient' : toClient'[i] \in Cells =>
            /\ i \in DOMAIN toClient /\ toClient[i] \in Cells
            /\ Num(toClient', End, i) = Num(toClient, End, i)
  <2>1. CASE toClient' = toClient
    BY <2>1 DEF Ends
  <2>2. ASSUME NEW m \in Message \ (End \cup Cells), Say(m)
        PROVE  /\ Ends' = Ends
               /\ \A i \in DOMAIN toClient' : toClient'[i] \in Cells =>
                     /\ i \in DOMAIN toClient /\ toClient[i] \in Cells
                     /\ Num(toClient', End, i) = Num(toClient, End, i)
    <3>1. Ends' = Ends
      BY <2>2, SaidNum, <1>1 DEF Ends
    <3>2. /\ Len(toClient') = Len(toClient) + 1 /\ toClient'[Len(toClient) + 1] \notin Cells
          /\ \A i \in 1 .. Len(toClient) : toClient'[i] = toClient[i]
          /\ \A i \in 0 .. Len(toClient) : Num(toClient', End, i) = Num(toClient, End, i)
      BY <2>2, SayStep, SaidNum
    <3> QED BY <3>1, <3>2, EndsType
  <2> QED BY <2>1, <2>2
<1>3. Begun' = Begun
  BY <1>0, <1>1, <1>2 DEF Begun
<1>4. \A k : Clean(k)' <=> Clean(k)
  BY DEF Clean
<1>5. AnswersCounted'
  BY <1>3 DEF ViewKept, AnswersCounted
<1>6. FreshKept' /\ BegunKept' /\ EndsKept' /\ DumpKept'
  BY <1>0, <1>1, <1>2, <1>3, <1>4 DEF FreshKept, BegunKept, EndsKept, DumpKept, Fresh
<1>7. AskedKept'
  BY <1>3, <1>4 DEF ViewKept, AskedKept, NoChange
<1>8. CellsKept'
  <2> SUFFICES ASSUME NEW i \in DOMAIN toClient', toClient'[i] \in Cells
               PROVE  /\ Num(toClient', End, i) + 1 <= Begun
                      /\ ~Clean(Num(toClient, End, i) + 1)
    BY <1>2, <1>3, <1>4 DEF CellsKept
  <2>1. i \in DOMAIN toClient /\ Num(toClient', End, i) = Num(toClient, End, i)
        /\ Num(toClient, End, i) + 1 <= Begun
    BY <1>2 DEF ViewKept, CellsKept
  <2>2. Num(toClient, End, i) \in Nat
    <3>1. i \in Nat
      BY <2>1, EndsType
    <3> QED BY <3>1, NumIsFinite
  <2> QED BY <1>0, <1>1, <2>1, <2>2
<1> QED BY <1>5, <1>6, <1>7, <1>8 DEF ViewKept

\* The commands that wait move up by one
LEMMA ReadShift ==
    ASSUME Types, Types', NEW names, Receives(names), ViewKept,
           Begun' = Begun + IF Head(toServer) \in Asker THEN 1 ELSE 0
    PROVE  /\ AnswersCounted' /\ AskedKept'
           /\ \A k : Clean(k)' <=> Clean(k)
           /\ Fresh' <=> Fresh
           /\ NoChange(0) => Head(toServer) \notin Changer /\ NoChange(0)'
           /\ NoChange(1) => NoChange(0)'
<1>1. /\ toServer \in Seq(Command) /\ Head(toServer) = toServer[1]
      /\ Len(toServer) \in Nat \ {0} /\ Len(toServer') = Len(toServer) - 1
      /\ \A i \in 1 .. Len(toServer') : toServer'[i] = toServer[i + 1]
      /\ client' = client
      /\ DOMAIN toServer = 1 .. Len(toServer) /\ DOMAIN toServer' = 1 .. Len(toServer')
  BY ReceivesStep, EndsType
<1>2. /\ Begun \in Nat /\ Begun' \in Nat
  BY EndsType
<1>3. /\ \A i \in 0 .. Len(toServer') : Num(toServer, Asker, i + 1)
            = Num(toServer', Asker, i) + IF Head(toServer) \in Asker THEN 1 ELSE 0
      /\ Num(toServer, Asker, Len(toServer))
            = Num(toServer', Asker, Len(toServer')) + IF Head(toServer) \in Asker THEN 1 ELSE 0
      /\ Num(toServer', Asker, Len(toServer')) \in Nat
  BY ReadNum
<1>4. \A k : Clean(k)' <=> Clean(k)
  BY <1>1 DEF Clean
<1>5. Fresh' <=> Fresh
  BY <1>1 DEF Fresh
<1>6. ASSUME NEW n \in Nat, NoChange(n + 1) PROVE NoChange(n)'
  <2> SUFFICES ASSUME NEW i \in n + 1 .. Len(toServer') PROVE toServer'[i] \notin Changer
    BY DEF NoChange
  <2>1. i + 1 \in (n + 1) + 1 .. Len(toServer) /\ toServer'[i] = toServer[i + 1]
    BY <1>1
  <2> QED BY <1>6, <2>1 DEF NoChange
<1>7. NoChange(0) => Head(toServer) \notin Changer /\ NoChange(1)
  <2>1. 1 \in 0 + 1 .. Len(toServer) /\ 1 + 1 .. Len(toServer) \subseteq 0 + 1 .. Len(toServer)
    BY <1>1
  <2> QED BY <1>1, <2>1 DEF NoChange
<1>8. NoChange(1) => NoChange(0)'
  <2>1. NoChange(0 + 1) => NoChange(0)'
    BY <1>6
  <2> QED BY <2>1
<1>9. AnswersCounted'
  BY <1>1, <1>2, <1>3 DEF ViewKept, AnswersCounted
<1>10. AskedKept'
  <2> SUFFICES ASSUME NEW i \in DOMAIN toServer', toServer'[i] \in Asker,
                      Clean(Begun' + Num(toServer', Asker, i))
               PROVE  NoChange(i)'
    BY <1>4 DEF AskedKept
  <2>1. i + 1 \in DOMAIN toServer /\ toServer[i + 1] \in Asker /\ i \in Nat
        /\ i \in 0 .. Len(toServer')
    BY <1>1
  <2>2. Num(toServer', Asker, i) \in Nat
    BY <2>1, NumIsFinite
  <2>3. Begun + Num(toServer, Asker, i + 1) = Begun' + Num(toServer', Asker, i)
    BY <1>2, <1>3, <2>1, <2>2
  <2>4. NoChange(i + 1)
    BY <2>1, <2>3 DEF ViewKept, AskedKept
  <2> QED BY <1>6, <2>1, <2>4
<1> QED BY <1>4, <1>5, <1>7, <1>8, <1>9, <1>10

\* A command that neither changes nor asks anything
LEMMA ReadKeepsView ==
    ASSUME Types, Types', NEW names, Receives(names), ViewKept,
           Head(toServer) \notin Asker \cup Changer,
           UNCHANGED <<toClient, ram, dump>>, ~Dumps, ~Dumps', Still'
    PROVE  ViewKept'
<1>1. Ends' = Ends /\ Begun' = Begun /\ Ends \in Nat /\ Begun \in Nat
  <2>1. Ends' = Ends
    BY DEF Ends
  <2> QED BY <2>1, EndsType DEF Begun
<1>2. /\ AnswersCounted' /\ AskedKept' /\ (\A k : Clean(k)' <=> Clean(k)) /\ (Fresh' <=> Fresh)
      /\ NoChange(0) => NoChange(0)'
  BY <1>1, ReadShift
<1>3. client' = client
  BY ReceivesStep
<1>4. FreshKept' /\ BegunKept' /\ CellsKept' /\ EndsKept' /\ DumpKept'
  BY <1>1, <1>2, <1>3
     DEF ViewKept, FreshKept, BegunKept, CellsKept, EndsKept, DumpKept, Complete, LineOf
<1> QED BY <1>2, <1>4 DEF ViewKept

\* A command that changes something
LEMMA ChangeKeepsView ==
    ASSUME Types, Types', NEW names, Receives(names), ViewKept,
           Head(toServer) \in Changer, Head(toServer) \notin Asker,
           UNCHANGED <<toClient, dump>>, ~Dumps, ~Dumps'
    PROVE  ViewKept'
<1>1. Ends' = Ends /\ Begun' = Begun /\ Ends \in Nat /\ Begun \in Nat /\ Begun = Ends
  <2>1. Ends' = Ends
    BY DEF Ends
  <2> QED BY <2>1, EndsType DEF Begun
<1>2. /\ AnswersCounted' /\ AskedKept' /\ (\A k : Clean(k)' <=> Clean(k)) /\ (Fresh' <=> Fresh)
      /\ ~NoChange(0)
  BY <1>1, ReadShift
<1>3. ~Fresh /\ \A k \in 1 .. Begun : ~Clean(k)
  BY <1>2, NothingKnown
<1>4. CellsKept'
  <2> SUFFICES ASSUME NEW i \in DOMAIN toClient, toClient[i] \in Cells
               PROVE  /\ Num(toClient, End, i) + 1 <= Begun
                      /\ ~Clean(Num(toClient, End, i) + 1)
    BY <1>1, <1>2 DEF CellsKept
  <2>1. Num(toClient, End, i) + 1 <= Begun
    BY DEF ViewKept, CellsKept
  <2>2. Num(toClient, End, i) \in Nat
    <3>1. i \in Nat
      BY EndsType
    <3> QED BY <3>1, NumIsFinite
  <2> QED BY <1>1, <1>3, <2>1, <2>2
<1>5. FreshKept' /\ BegunKept' /\ EndsKept' /\ DumpKept'
  BY <1>1, <1>2, <1>3 DEF FreshKept, BegunKept, EndsKept, DumpKept
<1> QED BY <1>2, <1>4, <1>5 DEF ViewKept

\* The beginning of an answer
LEMMA AskKeepsView ==
    ASSUME Types, Types', ViewKept, State
    PROVE  ViewKept'
<1>1. /\ Receives({"STATE"}) /\ UNCHANGED <<toClient, ram>> /\ dump' = 0
      /\ ~Dumps /\ Dumps' /\ Still /\ Still'
  BY DumpingStates DEF State, Waiting, Dumps, Still, PC
<1>2. /\ Ends' = Ends /\ Begun' = Begun + 1 /\ Ends \in Nat /\ Begun \in Nat /\ Begun = Ends
  <2>1. Ends' = Ends
    BY <1>1 DEF Ends
  <2> QED BY <1>1, <2>1, EndsType DEF Begun
<1>3. Head(toServer) \in Asker /\ Head(toServer) = toServer[1] /\ client' = client
      /\ 1 \in DOMAIN toServer
  <2>1. /\ Head(toServer) \in Command /\ Head(toServer).cmd = "STATE"
        /\ Head(toServer) = toServer[1] /\ client' = client
        /\ Len(toServer) \in Nat \ {0}
    BY <1>1, ReceivesStep
  <2>2. 1 \in DOMAIN toServer
    BY <2>1, EndsType
  <2> QED BY <2>1, <2>2, CommandNames
<1>4. /\ AnswersCounted' /\ AskedKept' /\ (\A k : Clean(k)' <=> Clean(k)) /\ (Fresh' <=> Fresh)
      /\ NoChange(0) => NoChange(0)'
      /\ NoChange(1) => NoChange(0)'
  BY <1>1, <1>2, <1>3, ReadShift
<1>5. Clean(Begun + 1) => NoChange(1)
  <2>1. Num(toServer, Asker, 1) = 1
    <3>1. Num(toServer, Asker, 0) = 0
          /\ Num(toServer, Asker, 0 + 1) = Num(toServer, Asker, 0) + IF toServer[0 + 1] \in Asker THEN 1 ELSE 0
      BY NumStep
    <3> QED BY <1>3, <3>1
  <2> QED BY <1>3, <2>1 DEF ViewKept, AskedKept
<1>6. BegunKept'
  <2> SUFFICES ASSUME NEW k \in 1 .. Begun + 1, Clean(k) PROVE NoChange(0)'
    BY <1>1, <1>2, <1>4 DEF BegunKept
  <2>1. CASE k \in 1 .. Begun
    BY <1>4, <2>1 DEF ViewKept, BegunKept
  <2>2. CASE k = Begun + 1
    BY <1>4, <1>5, <2>2
  <2> QED BY <1>2, <2>1, <2>2
<1>7. FreshKept'
  BY <1>1, <1>3, <1>4 DEF ViewKept, FreshKept
<1>8. CellsKept'
  <2> SUFFICES ASSUME NEW i \in DOMAIN toClient, toClient[i] \in Cells
               PROVE  /\ Num(toClient, End, i) + 1 <= Begun + 1
                      /\ Clean(Num(toClient, End, i) + 1) => toClient[i].v = ram[toClient[i].a]
    BY <1>1, <1>2, <1>4 DEF CellsKept
  <2>1. Num(toClient, End, i) + 1 <= Begun
        /\ (Clean(Num(toClient, End, i) + 1) => toClient[i].v = ram[toClient[i].a])
    BY DEF ViewKept, CellsKept
  <2>2. Num(toClient, End, i) \in Nat
    <3>1. i \in Nat
      BY EndsType
    <3> QED BY <3>1, NumIsFinite
  <2> QED BY <1>2, <2>1, <2>2
<1>9. EndsKept'
  BY <1>1, <1>2, <1>3, <1>4 DEF ViewKept, EndsKept, Complete, LineOf
<1>10. DumpKept'
  <2>1. \A a \in Cell : ~(a < dump')
    BY <1>1, Sizes DEF Cell, Code, PC
  <2> QED BY <2>1 DEF DumpKept, Complete
<1> QED BY <1>4, <1>6, <1>7, <1>8, <1>9, <1>10 DEF ViewKept

\* A line of an answer, and its end
LEMMA SendCellKeepsView ==
    ASSUME Types, Types', ViewKept, SendCell, client.open
    PROVE  ViewKept'
<1>1. /\ Dumps /\ Still /\ UNCHANGED <<at, ram, toServer, client>>
  BY DumpingStates DEF SendCell, Dumps, Still
<1>2. /\ Ends \in Nat /\ Begun \in Nat /\ Begun = Ends + 1
      /\ Len(toClient) \in Nat /\ DOMAIN toClient = 1 .. Len(toClient)
      /\ DOMAIN toClient' = 1 .. Len(toClient')
  BY <1>1, EndsType DEF Begun
<1>3. (\A k : Clean(k)' <=> Clean(k)) /\ (Fresh' <=> Fresh) /\ (\A n : NoChange(n)' <=> NoChange(n))
  BY <1>1 DEF Clean, Fresh, NoChange
<1>4. ASSUME NEW m \in Message, Say(m)
      PROVE  /\ Len(toClient') = Len(toClient) + 1
             /\ toClient'[Len(toClient) + 1] = m
             /\ \A i \in 1 .. Len(toClient) : toClient'[i] = toClient[i]
             /\ \A i \in 1 .. Len(toClient) : Num(toClient', End, i) = Num(toClient, End, i)
             /\ Ends' = Ends + IF m \in End THEN 1 ELSE 0
             /\ Num(toClient', End, Len(toClient) + 1) = Ends + IF m \in End THEN 1 ELSE 0
             /\ \A k, b : Complete(k, b) => Complete(k, b)'
  <2>1. /\ Len(toClient') = Len(toClient) + 1
        /\ toClient'[Len(toClient) + 1] = m
        /\ \A i \in 1 .. Len(toClient) : toClient'[i] = toClient[i]
    BY <1>4, SayStep
  <2>2. /\ \A i \in 0 .. Len(toClient) : Num(toClient', End, i) = Num(toClient, End, i)
        /\ Num(toClient', End, Len(toClient')) = Ends + IF m \in End THEN 1 ELSE 0
    BY <1>4, SaidNum DEF Ends
  <2>3. \A i \in 1 .. Len(toClient) : Num(toClient', End, i) = Num(toClient, End, i)
    BY <1>2, <2>2
  <2>4. \A j \in DOMAIN toClient : \A k, a : j \in DOMAIN toClient' /\ (LineOf(k, a, j) => LineOf(k, a, j)')
    BY <1>1, <1>2, <2>1, <2>3 DEF LineOf
  <2>5. \A k, b : Complete(k, b) => Complete(k, b)'
    BY <1>1, <2>4 DEF Complete
  <2> QED BY <2>1, <2>2, <2>3, <2>5 DEF Ends
<1>5. PICK m \in Message :
         /\ Say(m)
         /\ \/ /\ m \in Cells /\ m \notin End /\ dump \in Cell /\ m.a = dump /\ m.v = ram[dump]
               /\ Dumps' /\ Still' /\ dump' = dump + 1
            \/ /\ m \in End /\ m \notin Cells /\ dump \notin Cell
               /\ ~Dumps' /\ Still' /\ dump' = dump
  <2>1. CASE dump \in Cell
    <3> DEFINE m == [msg |-> "RAM", a |-> dump, v |-> ram[dump]]
    <3>1. m \in Message /\ m \in Cells /\ m \notin End /\ m.a = dump /\ m.v = ram[dump]
      BY <2>1 DEF Types, Message, Cells, End
    <3>2. Say(m) /\ Dumps' /\ Still' /\ dump' = dump + 1
      BY <1>1, <2>1 DEF SendCell, Dumps, Still
    <3> QED BY <2>1, <3>1, <3>2
  <2>2. CASE dump \notin Cell
    <3> DEFINE m == [msg |-> "END"]
    <3>1. m \in Message /\ m \in End /\ m \notin Cells
      BY DEF Message, Cells, End
    <3>2. Say(m) /\ ~Dumps' /\ Still' /\ dump' = dump
      BY <2>2, DumpingStates DEF SendCell, Dumps, Still
    <3> QED BY <2>2, <3>1, <3>2
  <2> QED BY <2>1, <2>2
<1>6. /\ Len(toClient') = Len(toClient) + 1
      /\ toClient'[Len(toClient) + 1] = m
      /\ \A i \in 1 .. Len(toClient) : toClient'[i] = toClient[i]
      /\ \A i \in 1 .. Len(toClient) : Num(toClient', End, i) = Num(toClient, End, i)
      /\ Ends' = Ends + IF m \in End THEN 1 ELSE 0
  BY <1>4, <1>5
<1>7. Num(toClient', End, Len(toClient) + 1) = Ends + IF m \in End THEN 1 ELSE 0
  BY <1>4, <1>5
<1>8. \A k, b : Complete(k, b) => Complete(k, b)'
  BY <1>4, <1>5
<1>9. Begun' = Begun
  BY <1>2, <1>5, <1>6, EndsType DEF Begun
<1>10. AnswersCounted' /\ AskedKept'
  BY <1>1, <1>3, <1>9 DEF ViewKept, AnswersCounted, AskedKept
<1>11. FreshKept' /\ BegunKept'
  BY <1>1, <1>3, <1>5, <1>9 DEF ViewKept, FreshKept, BegunKept
<1>12. CellsKept'
  <2> SUFFICES ASSUME NEW i \in DOMAIN toClient', toClient'[i] \in Cells
               PROVE  /\ Num(toClient', End, i) + 1 <= Begun
                      /\ Clean(Num(toClient', End, i) + 1) => toClient'[i].v = ram[toClient'[i].a]
    BY <1>1, <1>3, <1>9 DEF CellsKept
  <2>1. CASE i \in 1 .. Len(toClient)
    BY <1>2, <1>6, <2>1 DEF ViewKept, CellsKept
  <2>2. CASE i = Len(toClient) + 1
    <3>1. toClient'[i] = m
      BY <1>6, <2>2
    <3>2. m \in Cells /\ m \notin End /\ m.a = dump /\ m.v = ram[dump]
      BY <1>5, <2>2, <3>1
    <3>3. Num(toClient', End, i) = Ends
      BY <1>2, <1>7, <2>2, <3>2
    <3> QED BY <1>2, <3>1, <3>2, <3>3
  <2>3. i \in 1 .. Len(toClient) \/ i = Len(toClient) + 1
    BY <1>2, <1>6
  <2> QED BY <2>1, <2>2, <2>3
<1>13. CASE m \in Cells
  <2>1. Ends' = Ends /\ Dumps' /\ dump' = dump + 1 /\ m.a = dump /\ m.v = ram[dump] /\ dump \in Cell
        /\ m \notin End
    BY <1>2, <1>5, <1>6, <1>13
  <2>2. EndsKept'
    BY <1>3, <1>8, <2>1 DEF ViewKept, EndsKept
  <2>3. DumpKept'
    <3> SUFFICES ASSUME Clean(Begun), NEW a \in Cell, a < dump + 1
                 PROVE  \/ Begun = 1 /\ client.shown[a] = ram[a]
                        \/ \E j \in DOMAIN toClient' : LineOf(Begun, a, j)'
      BY <1>1, <1>3, <1>9, <2>1 DEF DumpKept, Complete
    <3>1. CASE a = dump
      <4>1. Len(toClient) + 1 \in DOMAIN toClient'
        BY <1>2, <1>6
      <4>2. ASSUME NEW j, j = Len(toClient) + 1 PROVE LineOf(Begun, a, j)'
        <5>1. toClient'[j] = m /\ Num(toClient', End, j) = Ends
          BY <1>2, <1>6, <1>7, <2>1, <4>2
        <5> QED BY <1>1, <1>2, <1>9, <1>13, <2>1, <3>1, <5>1 DEF LineOf
      <4> QED BY <4>1, <4>2
    <3>2. CASE a # dump
      <4>1. a < dump
        BY <2>1, <3>2, Sizes DEF Cell, Code, PC
      <4>2. Complete(Begun, dump)
        BY <1>1 DEF ViewKept, DumpKept
      <4>3. \/ Begun = 1 /\ client.shown[a] = ram[a]
            \/ \E j \in DOMAIN toClient : LineOf(Begun, a, j)
        BY <4>1, <4>2 DEF Complete
      <4>4. ASSUME NEW j \in DOMAIN toClient, LineOf(Begun, a, j)
            PROVE  j \in DOMAIN toClient' /\ LineOf(Begun, a, j)'
        BY <1>1, <1>2, <1>6, <1>9, <4>4 DEF LineOf
      <4> QED BY <4>3, <4>4
    <3> QED BY <3>1, <3>2
  <2> QED BY <1>10, <1>11, <1>12, <2>2, <2>3 DEF ViewKept
<1>14. CASE m \in End
  <2>1. Ends' = Ends + 1 /\ ~Dumps' /\ dump \notin Cell
    BY <1>5, <1>6, <1>14
  <2>3. Complete(Begun, dump) => Complete(Begun, Size + 1)
    <3>1. dump \in 0 .. Size + 1
      BY DEF Types, DebuggerTypeOK
    <3>2. dump = Size + 1
      BY <2>1, <3>1, Sizes DEF Cell, Code, PC
    <3> QED BY <3>2
  <2>4. EndsKept'
    <3> SUFFICES ASSUME NEW k \in 1 .. Ends + 1, Clean(k) PROVE Complete(k, Size + 1)
      BY <1>3, <1>8, <2>1 DEF EndsKept
    <3>1. CASE k \in 1 .. Ends
      BY <3>1 DEF ViewKept, EndsKept
    <3>2. CASE k = Begun
      BY <1>1, <2>3, <3>2 DEF ViewKept, DumpKept
    <3> QED BY <1>2, <3>1, <3>2
  <2>5. DumpKept'
    BY <2>1 DEF DumpKept
  <2> QED BY <1>10, <1>11, <1>12, <2>4, <2>5 DEF ViewKept
<1> QED BY <1>5, <1>13, <1>14

\* The steps of the server keep what the client will know
LEMMA ServerKeepsView ==
    ASSUME Types, Types', Hears', ViewKept, Server
    PROVE  ViewKept'
<1>1. client' = client /\ client.open
  BY ServerHears
<1>2. CASE Accept
  <2>1. [msg |-> "READY"] \in Message \ (End \cup Cells)
    BY DEF Message, End, Cells
  <2> QED BY <1>1, <1>2, <2>1, MoveKeepsView DEF Accept, Still, Dumps
<1>3. CASE CheckBreakpoint
  <2>1. ASSUME NEW m, m = [msg |-> "PAUSED", a |-> at']
        PROVE  m \in Message \ (End \cup Cells)
    BY <2>1 DEF Types, DebuggerTypeOK, Message, Stop, Pause, End, Cells
  <2>2. /\ ~Still /\ ~Dumps' /\ toServer' = toServer
        /\ toClient' = toClient \/ Say([msg |-> "PAUSED", a |-> at'])
    BY <1>3 DEF CheckBreakpoint, Still, Dumps
  <2> QED BY <1>1, <2>1, <2>2, MoveKeepsView
<1>4. CASE Resume
  <2>1. Head(toServer) \in Command /\ Head(toServer).cmd \in Resumes
    BY <1>4, ReceivesStep DEF Resume
  <2>2. Head(toServer) \in Changer /\ Head(toServer) \notin Asker
    BY <2>1, CommandNames DEF Changer, Resumes
  <2> QED BY <1>4, <2>2, ChangeKeepsView DEF Resume, Waiting, Dumps
<1>5. CASE Set
  <2>1. Head(toServer) \in Command /\ Head(toServer).cmd = "SET"
    BY <1>5, ReceivesStep DEF Set
  <2>2. Head(toServer) \in Changer /\ Head(toServer) \notin Asker
    BY <2>1, CommandNames DEF Changer
  <2> QED BY <1>5, <2>2, ChangeKeepsView DEF Set, Waiting, Dumps
<1>6. ASSUME NEW names, Receives(names), names \cap (Resumes \cup {"SET", "STATE"}) = {},
             UNCHANGED <<toClient, ram, dump>>, Waiting, phase' \in {phase, "ended"}
      PROVE  ViewKept'
  <2>1. Head(toServer) \notin Asker \cup Changer
    BY <1>6, ReceivesStep, CommandNames DEF Changer
  <2>2. ~Dumps /\ ~Dumps' /\ Still'
    BY <1>6 DEF Waiting, Dumps, Still
  <2> QED BY <1>6, <2>1, <2>2, ReadKeepsView
<1>7. CASE SetBreakpoint
  BY <1>6, <1>7 DEF SetBreakpoint, Resumes
<1>8. CASE Unknown
  BY <1>6, <1>8 DEF Unknown, Resumes
<1>9. CASE Quit
  BY <1>1, <1>6, <1>9 DEF Quit, Resumes
<1>10. CASE State
  BY <1>10, AskKeepsView
<1>11. CASE SendCell
  BY <1>1, <1>11, SendCellKeepsView
<1>12. CASE BrokenPipe
  BY <1>1, <1>12 DEF BrokenPipe
<1>13. CASE Execute \/ StopSilently
  BY <1>1, <1>13, MoveKeepsView DEF Execute, StopSilently, Still, Dumps
<1>14. CASE Halt
  <2>1. [msg |-> "HALTED"] \in Message \ (End \cup Cells)
    BY DEF Message, Stop, End, Cells
  <2> QED BY <1>1, <1>14, <2>1, MoveKeepsView DEF Halt, Still, Dumps
<1> QED BY <1>2, <1>3, <1>4, <1>5, <1>7, <1>8, <1>9, <1>10, <1>11, <1>12, <1>13, <1>14 DEF Server

\* One more element leaves the others as they are
LEMMA AppendTrue ==
    ASSUME NEW q \in Seq(BOOLEAN)
    PROVE  /\ Len(Append(q, TRUE)) = Len(q) + 1 /\ Len(q) \in Nat
           /\ \A k \in 1 .. Len(q) : Append(q, TRUE)[k] = q[k]
<1>1. ASSUME NEW S, NEW r \in Seq(S), NEW x \in S
      PROVE  /\ Len(Append(r, x)) = Len(r) + 1 /\ Len(r) \in Nat
             /\ \A k \in 1 .. Len(r) : Append(r, x)[k] = r[k]
  BY AppendProperties
<1>2. TRUE \in BOOLEAN
  OBVIOUS
<1> QED BY <1>1, <1>2, Zenon

\* A command that the client sends goes behind those that wait
LEMMA SendKeepsView ==
    ASSUME Types, Types', ViewKept, NEW c \in Command, Send(c)
    PROVE  ViewKept'
<1>1. UNCHANGED <<phase, at, ram, dump, toClient>> /\ client'.shown = client.shown
  <2>1. client'.shown = client.shown
    BY SendStep DEF SameExcept, Fields
  <2> QED BY <2>1 DEF Send
<1>2. /\ Ends' = Ends /\ Begun' = Begun /\ Ends \in Nat /\ Begun \in Nat /\ Ends <= Begun
      /\ Begun <= Begun + Num(toServer, Asker, Len(toServer))
      /\ DOMAIN toClient = 1 .. Len(toClient) /\ DOMAIN toServer = 1 .. Len(toServer)
      /\ DOMAIN toServer' = 1 .. Len(toServer') /\ Len(toServer) \in Nat
  <2>1. Ends' = Ends /\ Begun' = Begun
    BY <1>1 DEF Ends, Begun, Dumps
  <2>2. Num(toServer, Asker, Len(toServer)) \in Nat
    BY SentNum
  <2> QED BY <2>1, <2>2, EndsType DEF Begun
<1>3. /\ Len(toServer') = Len(toServer) + 1 /\ toServer'[Len(toServer) + 1] = c
      /\ \A i \in 1 .. Len(toServer) : toServer'[i] = toServer[i]
      /\ \A i \in 0 .. Len(toServer) : Num(toServer', Asker, i) = Num(toServer, Asker, i)
      /\ Num(toServer', Asker, Len(toServer'))
            = Num(toServer, Asker, Len(toServer)) + IF c \in Asker THEN 1 ELSE 0
      /\ Num(toServer, Asker, Len(toServer)) \in Nat
  BY SentNum
<1>4. client.asked \in Seq(BOOLEAN) /\ Len(client.asked) \in Nat
      /\ DOMAIN client.asked = 1 .. Len(client.asked)
  BY DEF Types
<1>5. client'.asked = IF c \in Asker THEN Append(client.asked, TRUE)
                      ELSE IF c \in Changer THEN [i \in DOMAIN client.asked |-> FALSE]
                      ELSE client.asked
  BY SendStep
<1>6. c \in Asker => c \notin Changer
  BY CommandNames DEF Changer, Resumes
<1>7. AnswersCounted'
  <2>1. Len(client'.asked) = Len(client.asked) + IF c \in Asker THEN 1 ELSE 0
    <3>1. Len([i \in 1 .. Len(client.asked) |-> FALSE]) = Len(client.asked)
      BY <1>4
    <3>2. CASE c \in Asker
      <4>1. client'.asked = Append(client.asked, TRUE)
        BY <1>5, <3>2
      <4>2. Len(Append(client.asked, TRUE)) = Len(client.asked) + 1
        BY <1>4, AppendTrue
      <4> QED BY <3>2, <4>1, <4>2
    <3>3. CASE c \notin Asker
      <4>1. \/ client'.asked = [i \in 1 .. Len(client.asked) |-> FALSE]
            \/ client'.asked = client.asked
        BY <1>4, <1>5, <3>3
      <4> QED BY <1>4, <3>1, <3>3, <4>1
    <3> QED BY <3>2, <3>3
  <2> QED BY <1>2, <1>3, <2>1 DEF ViewKept, AnswersCounted
<1>8. CASE c \in Changer
  <2>1. \A k : ~Clean(k)'
    <3>1. client'.asked = [i \in 1 .. Len(client.asked) |-> FALSE]
      BY <1>4, <1>5, <1>6, <1>8
    <3> QED BY <3>1 DEF Clean
  <2>2. ~Fresh'
    <3>1. client'.fresh = (client.fresh /\ c \notin Changer)
      BY SendStep
    <3> QED BY <1>8, <3>1 DEF Fresh
  <2>3. FreshKept' /\ BegunKept' /\ AskedKept' /\ EndsKept' /\ DumpKept'
    BY <2>1, <2>2 DEF FreshKept, BegunKept, AskedKept, EndsKept, DumpKept
  <2>4. CellsKept'
    BY <1>1, <1>2, <2>1 DEF ViewKept, CellsKept
  <2> QED BY <1>7, <2>3, <2>4 DEF ViewKept
<1>9. CASE c \notin Changer
  <2>1. \A k \in 1 .. Len(client.asked) : Clean(k)' => Clean(k)
    <3>1. CASE c \in Asker
      <4>1. client'.asked = Append(client.asked, TRUE)
        BY <1>5, <3>1
      <4>2. \A k \in 1 .. Len(client.asked) : client'.asked[k] = client.asked[k]
        BY <1>4, <4>1, AppendTrue
      <4> QED BY <1>4, <4>2 DEF Clean
    <3>2. CASE c \notin Asker
      BY <1>5, <1>9, <3>2 DEF Clean
    <3> QED BY <3>1, <3>2
  <2>2. Len(client.asked) = Begun + Num(toServer, Asker, Len(toServer))
    BY DEF ViewKept, AnswersCounted
  <2>3. \A k \in 1 .. Begun : Clean(k)' => Clean(k)
    BY <1>2, <1>3, <2>1, <2>2
  <2>4. \A n \in Nat : NoChange(n) => NoChange(n)'
    <3> SUFFICES ASSUME NEW n \in Nat, NoChange(n), NEW i \in n + 1 .. Len(toServer')
                 PROVE  toServer'[i] \notin Changer
      BY DEF NoChange
    <3>1. (i \in n + 1 .. Len(toServer) /\ i \in 1 .. Len(toServer)) \/ i = Len(toServer) + 1
      BY <1>2, <1>3
    <3> QED BY <1>3, <1>9, <3>1 DEF NoChange
  <2>5. FreshKept'
    <3>1. Fresh' => Fresh
      <4>1. client'.fresh = (client.fresh /\ c \notin Changer) /\ client.fresh \in BOOLEAN
        BY SendStep DEF Types
      <4> QED BY <4>1, Zenon DEF Fresh
    <3>2. Still' <=> Still
      BY <1>1 DEF Still
    <3> QED BY <1>1, <2>4, <3>1, <3>2 DEF ViewKept, FreshKept
  <2>6. BegunKept'
    <3>1. Still' <=> Still
      BY <1>1 DEF Still
    <3> QED BY <1>2, <2>3, <2>4, <3>1 DEF ViewKept, BegunKept
  <2>7. AskedKept'
    <3> SUFFICES ASSUME NEW i \in DOMAIN toServer', toServer'[i] \in Asker,
                        NEW k, k = Begun + Num(toServer', Asker, i), Clean(k)'
                 PROVE  NoChange(i)'
      BY <1>2 DEF AskedKept
    <3>1. CASE i = Len(toServer) + 1
      BY <1>2, <1>3, <3>1 DEF NoChange
    <3>2. CASE i \in 1 .. Len(toServer)
      <4>1. /\ toServer[i] \in Asker /\ Num(toServer', Asker, i) = Num(toServer, Asker, i)
        BY <1>3, <3>2
      <4>2. /\ Num(toServer, Asker, i) <= Num(toServer, Asker, Len(toServer))
            /\ Num(toServer, Asker, i) \in Nat /\ Num(toServer, Asker, i) > 0
        <5>1. i \in Nat /\ i - 1 \in Nat
          BY <3>2
        <5>2. /\ Num(toServer, Asker, i - 1) + 1 = Num(toServer, Asker, i)
              /\ Num(toServer, Asker, i) <= Num(toServer, Asker, Len(toServer))
          BY <1>2, <3>2, <4>1, NumAt
        <5>3. Num(toServer, Asker, i - 1) \in Nat
          BY <5>1, NumIsFinite
        <5> QED BY <5>2, <5>3
      <4>3. Clean(Begun + Num(toServer, Asker, i))
        <5>1. Begun + Num(toServer, Asker, i) \in 1 .. Len(client.asked)
          BY <1>2, <1>3, <2>2, <4>2
        <5> QED BY <2>1, <4>1, <5>1
      <4> QED BY <1>2, <2>4, <3>2, <4>1, <4>3 DEF ViewKept, AskedKept
    <3> QED BY <1>2, <1>3, <3>1, <3>2
  <2>8. CellsKept'
    <3> SUFFICES ASSUME NEW i \in DOMAIN toClient, toClient[i] \in Cells
                 PROVE  /\ Num(toClient, End, i) + 1 <= Begun
                        /\ Clean(Num(toClient, End, i) + 1)' => toClient[i].v = ram[toClient[i].a]
      BY <1>1, <1>2 DEF CellsKept
    <3>1. /\ Num(toClient, End, i) + 1 <= Begun
          /\ Clean(Num(toClient, End, i) + 1) => toClient[i].v = ram[toClient[i].a]
      BY DEF ViewKept, CellsKept
    <3>2. Num(toClient, End, i) \in Nat
      <4>1. i \in Nat
        BY <1>2
      <4> QED BY <4>1, NumIsFinite
    <3>3. Num(toClient, End, i) + 1 \in 1 .. Begun
      BY <1>2, <3>1, <3>2
    <3> QED BY <1>1, <2>3, <3>1, <3>3
  <2>9. \A k, b : Complete(k, b)' <=> Complete(k, b)
    BY <1>1 DEF Complete, LineOf
  <2>10. EndsKept'
    BY <1>2, <2>3, <2>9 DEF ViewKept, EndsKept
  <2>11. DumpKept'
    <3>1. Dumps' <=> Dumps
      BY <1>1 DEF Dumps
    <3>2. Dumps => Begun \in 1 .. Begun
      BY <1>2 DEF Begun
    <3>3. \A k : k = Begun /\ Clean(k)' /\ Dumps => Clean(k)
      BY <2>3, <3>2
    <3> QED BY <1>1, <1>2, <2>9, <3>1, <3>3 DEF ViewKept, DumpKept
  <2> QED BY <1>7, <2>5, <2>6, <2>7, <2>8, <2>10, <2>11 DEF ViewKept
<1> QED BY <1>8, <1>9

\* The client reads a line: the answers move up by one when it is the end of one
LEMMA HeardShift ==
    ASSUME Types, Types', Receive, AnswersCounted,
           NEW d, d = IF Head(toClient) \in End THEN 1 ELSE 0
    PROVE  /\ Ends = Ends' + d /\ Begun = Begun' + d /\ Ends' \in Nat /\ Begun' \in Nat
           /\ \A i \in 0 .. Len(toClient') :
                 Num(toClient, End, i + 1) = Num(toClient', End, i) + d
           /\ Len(client.asked) = Len(client'.asked) + d
           /\ \A k \in Nat \ {0} : Clean(k)' <=> Clean(k + d)
<1>1. /\ \A i \in 0 .. Len(toClient') : Num(toClient, End, i + 1) = Num(toClient', End, i) + d
      /\ Ends = Ends' + d
  <2>1. /\ \A i \in 0 .. Len(toClient') : Num(toClient, End, i + 1)
             = Num(toClient', End, i) + IF Head(toClient) \in End THEN 1 ELSE 0
        /\ Num(toClient, End, Len(toClient))
             = Num(toClient', End, Len(toClient')) + IF Head(toClient) \in End THEN 1 ELSE 0
    BY HeardNum
  <2> QED BY <2>1 DEF Ends
<1>2. Ends \in Nat /\ Ends' \in Nat /\ Begun \in Nat /\ Begun' \in Nat
  BY EndsType
<1>3. Begun = Begun' + d
  <2>1. Dumps' <=> Dumps
    BY DEF Receive, Dumps
  <2> QED BY <1>1, <1>2, <2>1 DEF Begun
<1>4. client.asked \in Seq(BOOLEAN) /\ Len(client.asked) \in Nat
      /\ DOMAIN client.asked = 1 .. Len(client.asked)
  BY DEF Types
<1>5. CASE Head(toClient) \in End
  <2>1. client'.asked = Tail(client.asked)
    BY <1>5, ReceiveStep DEF Pause, End, Cells
  <2>2. client.asked # <<>>
    <3>1. Num(toServer, Asker, Len(toServer)) \in Nat
      <4>1. Len(toServer) \in Nat
        BY EndsType
      <4> QED BY <4>1, NumIsFinite
    <3>2. Len(client.asked) >= 1
      BY <1>2, <1>3, <1>5, <3>1 DEF AnswersCounted
    <3> QED BY <3>2
  <2>3. /\ Len(client'.asked) = Len(client.asked) - 1
        /\ DOMAIN client'.asked = 1 .. Len(client'.asked)
        /\ \A k \in 1 .. Len(client'.asked) : client'.asked[k] = client.asked[k + 1]
    BY <1>4, <2>1, <2>2, HeadTailProperties
  <2>4. \A k \in Nat \ {0} : Clean(k)' <=> Clean(k + 1)
    BY <1>4, <2>3 DEF Clean
  <2> QED BY <1>1, <1>2, <1>3, <1>4, <1>5, <2>3, <2>4
<1>6. CASE Head(toClient) \notin End
  <2>1. client'.asked = client.asked
    BY <1>6, ReceiveStep DEF SameExcept, Fields
  <2>2. \A k \in Nat \ {0} : Clean(k)' <=> Clean(k + 0)
    BY <2>1 DEF Clean
  <2> QED BY <1>1, <1>2, <1>3, <1>4, <1>6, <2>1, <2>2
<1> QED BY <1>5, <1>6

\* A line of a clean answer that the client reads shows it what it says
LEMMA HeardComplete ==
    ASSUME Types, Types', Receive, ViewKept,
           NEW d, d = IF Head(toClient) \in End THEN 1 ELSE 0,
           NEW k \in Nat \ {0}, NEW b, Clean(k + d), Complete(k + d, b)
    PROVE  Complete(k, b)'
<1>1. /\ \A i \in 0 .. Len(toClient') : Num(toClient, End, i + 1) = Num(toClient', End, i) + d
      /\ Begun \in Nat
  BY HeardShift, EndsType DEF ViewKept
<1>2. /\ Len(toClient) \in Nat \ {0} /\ Len(toClient') = Len(toClient) - 1
      /\ \A i \in 1 .. Len(toClient') : toClient'[i] = toClient[i + 1]
      /\ DOMAIN toClient = 1 .. Len(toClient) /\ DOMAIN toClient' = 1 .. Len(toClient')
      /\ Head(toClient) = toClient[1] /\ ram' = ram
  BY ReceiveStep, EndsType DEF Receive
<1>3. Num(toClient, End, 1) = d
  <2>1. /\ Num(toClient, End, 0) = 0
        /\ Num(toClient, End, 0 + 1) = Num(toClient, End, 0) + IF toClient[0 + 1] \in End THEN 1 ELSE 0
    BY NumStep
  <2> QED BY <1>2, <2>1
<1>4. ASSUME NEW j \in 2 .. Len(toClient), NEW a, LineOf(k + d, a, j)
      PROVE  \E i \in DOMAIN toClient' : LineOf(k, a, i)'
  <2>1. j - 1 \in DOMAIN toClient' /\ j - 1 \in 0 .. Len(toClient') /\ (j - 1) + 1 = j
        /\ j - 1 \in Nat
    BY <1>2
  <2>2. Num(toClient, End, j) = Num(toClient', End, j - 1) + d /\ toClient'[j - 1] = toClient[j]
    BY <1>1, <1>2, <2>1
  <2>3. Num(toClient', End, j - 1) \in Nat
    BY <2>1, NumIsFinite
  <2>4. Num(toClient', End, j - 1) + 1 = k
    BY <1>4, <2>2, <2>3 DEF LineOf
  <2>5. \A i : i = j - 1 => LineOf(k, a, i)'
    BY <1>2, <1>4, <2>2, <2>4 DEF LineOf
  <2> QED BY <2>1, <2>5
<1>5. ASSUME NEW a \in Cell, k + d = 1, client.shown[a] = ram[a] \/ LineOf(k + d, a, 1)
      PROVE  k = 1 /\ client'.shown[a] = ram[a]
  <2>1. k = 1 /\ d = 0 /\ toClient[1] \notin End
    BY <1>2, <1>5
  <2>2. CASE toClient[1] \in Cells
    <3> DEFINE m == toClient[1]
    <3>1. client'.shown = [client.shown EXCEPT ![m.a] = m.v]
          /\ client.shown = [x \in Cell |-> client.shown[x]]
      BY <1>2, <2>2, ReceiveStep DEF Pause, End, Cells, Types
    <3>2. m.v = ram[m.a]
      <4>1. 1 \in DOMAIN toClient /\ Num(toClient, End, 1) + 1 = 1
        BY <1>2, <1>3, <2>1
      <4>2. Clean(1)
        BY <2>1
      <4> QED BY <2>2, <4>1, <4>2 DEF ViewKept, CellsKept
    <3>3. client.shown[a] = ram[a] \/ a = m.a
      BY <1>5 DEF LineOf
    <3> HIDE DEF m
    <3> QED BY <2>1, <3>1, <3>2, <3>3
  <2>3. CASE toClient[1] \notin Cells
    <3>1. client'.shown = client.shown
      BY <1>2, <2>3, ReceiveStep DEF SameExcept, Fields
    <3> QED BY <1>5, <2>1, <2>3, <3>1 DEF LineOf
  <2> QED BY <2>2, <2>3
<1>6. ASSUME NEW a \in Cell, LineOf(k + d, a, 1) PROVE k + d = 1
  <2>1. toClient[1] \notin End
    BY <1>6 DEF LineOf, Cells, End
  <2> QED BY <1>2, <1>3, <1>6, <2>1 DEF LineOf
<1> SUFFICES ASSUME NEW a \in Cell, a < b
             PROVE  \/ k = 1 /\ client'.shown[a] = ram[a]
                    \/ \E i \in DOMAIN toClient' : LineOf(k, a, i)'
  BY <1>2 DEF Complete
<1>7. \/ k + d = 1 /\ client.shown[a] = ram[a]
      \/ \E j \in DOMAIN toClient : LineOf(k + d, a, j)
  BY DEF Complete
<1>8. CASE k + d = 1 /\ client.shown[a] = ram[a]
  BY <1>5, <1>8
<1>9. ASSUME NEW j \in DOMAIN toClient, LineOf(k + d, a, j)
      PROVE  \/ k = 1 /\ client'.shown[a] = ram[a]
             \/ \E i \in DOMAIN toClient' : LineOf(k, a, i)'
  <2>1. j = 1 \/ j \in 2 .. Len(toClient)
    BY <1>2
  <2> QED BY <1>4, <1>5, <1>6, <1>9, <2>1
<1> QED BY <1>7, <1>8, <1>9

\* At the end of a clean answer the client has seen all of it
LEMMA EndHeard ==
    ASSUME Types, Receive, ViewKept, Head(toClient) \in End, Clean(1)
    PROVE  Still /\ NoChange(0) /\ client.shown = ram
<1>1. /\ Len(toClient) \in Nat \ {0} /\ Head(toClient) = toClient[1]
      /\ DOMAIN toClient = 1 .. Len(toClient)
      /\ Ends \in Nat /\ Begun \in Nat
  BY ReceiveStep, EndsType
<1>2. /\ Num(toClient, End, 1) = 1 /\ 1 <= Ends
  <2>1. /\ Num(toClient, End, 0) = 0
        /\ Num(toClient, End, 0 + 1) = Num(toClient, End, 0) + IF toClient[0 + 1] \in End THEN 1 ELSE 0
    BY NumStep
  <2>2. Num(toClient, End, 1) <= Num(toClient, End, Len(toClient))
    BY <1>1, NumMonotonic
  <2> QED BY <1>1, <2>1, <2>2 DEF Ends
<1>3. 1 \in 1 .. Ends /\ 1 \in 1 .. Begun
  BY <1>1, <1>2 DEF Begun
<1>4. Complete(1, Size + 1)
  BY <1>3 DEF ViewKept, EndsKept
<1>5. ASSUME NEW a \in Cell, NEW j \in DOMAIN toClient, LineOf(1, a, j)
      PROVE  FALSE
  <2>1. Num(toClient, End, 1) <= Num(toClient, End, j)
    BY <1>1, NumMonotonic
  <2>2. Num(toClient, End, j) \in Nat
    <3>1. j \in Nat
      BY <1>1
    <3> QED BY <3>1, NumIsFinite
  <2> QED BY <1>2, <1>5, <2>1, <2>2 DEF LineOf
<1>6. ASSUME NEW a \in Cell PROVE client.shown[a] = ram[a]
  <2>1. a < Size + 1
    BY Sizes DEF Cell, Code, PC
  <2> QED BY <1>4, <1>5, <2>1 DEF Complete
<1>7. client.shown = ram
  <2>1. client.shown = [a \in Cell |-> client.shown[a]] /\ ram = [a \in Cell |-> ram[a]]
    BY DEF Types
  <2> QED BY <1>6, <2>1
<1> QED BY <1>3, <1>7 DEF ViewKept, BegunKept

\* A message that is read leaves the client with what it said
LEMMA ReceiveKeepsView ==
    ASSUME Types, Types', ViewKept, Receive
    PROVE  ViewKept'
<1> DEFINE d == IF Head(toClient) \in End THEN 1 ELSE 0
<1>1. /\ Ends = Ends' + d /\ Begun = Begun' + d /\ Ends' \in Nat /\ Begun' \in Nat
      /\ Len(client.asked) = Len(client'.asked) + d
  BY HeardShift DEF ViewKept
<1>2. /\ \A i \in 0 .. Len(toClient') : Num(toClient, End, i + 1) = Num(toClient', End, i) + d
      /\ \A k \in Nat \ {0} : Clean(k)' <=> Clean(k + d)
  BY HeardShift DEF ViewKept
<1>3. \A k \in Nat \ {0} : \A b : Clean(k + d) /\ Complete(k + d, b) => Complete(k, b)'
  BY HeardComplete
<1>4. d \in {0, 1}
  OBVIOUS
<1>5. /\ Len(toClient) \in Nat \ {0} /\ Len(toClient') = Len(toClient) - 1
      /\ \A i \in 1 .. Len(toClient') : toClient'[i] = toClient[i + 1]
      /\ DOMAIN toClient = 1 .. Len(toClient) /\ DOMAIN toClient' = 1 .. Len(toClient')
      /\ UNCHANGED <<phase, ram, dump, toServer>>
      /\ Len(toServer) \in Nat /\ DOMAIN toServer = 1 .. Len(toServer)
  BY ReceiveStep, EndsType DEF Receive
<1>6. (Still' <=> Still) /\ (Dumps' <=> Dumps) /\ (\A n : NoChange(n)' <=> NoChange(n))
  BY <1>5 DEF Still, Dumps, NoChange
<1>7. AnswersCounted'
  <2>1. Num(toServer, Asker, Len(toServer)) \in Nat
    BY <1>5, NumIsFinite
  <2>2. Len(client.asked) = Begun + Num(toServer, Asker, Len(toServer))
    BY DEF ViewKept, AnswersCounted
  <2>3. Len(client'.asked) \in Nat
    BY DEF Types
  <2>4. AnswersCounted' <=> Len(client'.asked) = Begun' + Num(toServer, Asker, Len(toServer))
    <3>1. toServer' = toServer
      BY <1>5
    <3> QED BY <3>1 DEF AnswersCounted
  <2>5. /\ Begun = Begun' + d /\ Begun' \in Nat /\ d \in Nat
        /\ Len(client.asked) = Len(client'.asked) + d
    BY <1>1, <1>4
  <2>6. Len(client'.asked) = Begun' + Num(toServer, Asker, Len(toServer))
    <3> HIDE DEF d
    <3> QED BY <2>1, <2>2, <2>3, <2>5
  <2> QED BY <2>4, <2>6
<1>8. FreshKept'
  <2> SUFFICES ASSUME Fresh' PROVE Still /\ NoChange(0) /\ client'.shown = ram
    BY <1>5, <1>6 DEF FreshKept
  <2>1. CASE Head(toClient) \in End
    <3>1. /\ client'.fresh = Head(client.asked) /\ SameExcept({"fresh", "asked"})
          /\ client.asked \in Seq(BOOLEAN)
      BY <2>1, ReceiveStep DEF Pause, End, Cells, Types
    <3>2. client'.shown = client.shown
      BY <3>1 DEF SameExcept, Fields
    <3>3. Clean(1)
      <4>1. Len(client.asked) \in Nat \ {0}
        <5>1. Len(client'.asked) \in Nat
          BY DEF Types
        <5> QED BY <1>1, <2>1, <5>1
      <4>2. client.asked # <<>> /\ 1 \in DOMAIN client.asked /\ Head(client.asked) = client.asked[1]
        BY <3>1, <4>1
      <4>3. client.asked[1] = TRUE
        BY <3>1, <4>2 DEF Fresh
      <4> QED BY <4>2, <4>3 DEF Clean
    <3> QED BY <2>1, <3>2, <3>3, EndHeard
  <2>2. CASE Head(toClient) \in Cells
    <3>1. client'.fresh = FALSE
      BY <2>2, ReceiveStep DEF Pause, End, Cells
    <3> QED BY <3>1 DEF Fresh
  <2>3. CASE Head(toClient) \notin End \cup Cells
    <3>1. client'.fresh = client.fresh /\ client'.shown = client.shown
      BY <2>3, ReceiveStep DEF SameExcept, Fields
    <3> QED BY <3>1 DEF Fresh, ViewKept, FreshKept
  <2> QED BY <2>1, <2>2, <2>3
<1> HIDE DEF d
<1>9. PICK ends \in Nat, begun \in Nat :
          ends = Ends' /\ begun = Begun' /\ Ends = ends + d /\ Begun = begun + d
  BY <1>1
<1>10. Ends = ends + d /\ Begun = begun + d
  BY <1>9
<1>11. BegunKept'
  <2> SUFFICES ASSUME NEW k \in 1 .. begun, Clean(k)' PROVE Still /\ NoChange(0)
    BY <1>6, <1>9 DEF BegunKept
  <2>1. k + d \in 1 .. Begun /\ k \in Nat \ {0}
    BY <1>4, <1>10
  <2>2. Clean(k + d)
    BY <1>2, <2>1
  <2> QED BY <2>1, <2>2 DEF ViewKept, BegunKept
<1>12. AskedKept'
  <2> SUFFICES ASSUME NEW i \in DOMAIN toServer, toServer[i] \in Asker,
                      NEW k, k = Begun' + Num(toServer, Asker, i), Clean(k)'
               PROVE  NoChange(i)
    BY <1>5, <1>6 DEF AskedKept
  <2>1. Num(toServer, Asker, i) \in Nat \ {0}
    <3>1. i \in Nat /\ i - 1 \in Nat
      BY <1>5
    <3>2. Num(toServer, Asker, i - 1) + 1 = Num(toServer, Asker, i)
      BY <1>5, NumAt
    <3>3. Num(toServer, Asker, i - 1) \in Nat
      BY <3>1, NumIsFinite
    <3> QED BY <3>2, <3>3
  <2>2. k \in Nat \ {0} /\ k + d = Begun + Num(toServer, Asker, i)
    BY <1>1, <1>4, <2>1
  <2>3. Clean(Begun + Num(toServer, Asker, i))
    BY <1>2, <2>2
  <2> QED BY <2>3 DEF ViewKept, AskedKept
<1>13. CellsKept'
  <2> SUFFICES ASSUME NEW i \in DOMAIN toClient', toClient'[i] \in Cells
               PROVE  /\ Num(toClient', End, i) + 1 <= Begun'
                      /\ \A k : k = Num(toClient', End, i) + 1 /\ Clean(k)'
                                   => toClient'[i].v = ram[toClient'[i].a]
    BY <1>5 DEF CellsKept
  <2>1. i + 1 \in DOMAIN toClient /\ toClient[i + 1] = toClient'[i] /\ i \in 0 .. Len(toClient')
        /\ i \in Nat
    BY <1>5
  <2>2. Num(toClient, End, i + 1) = Num(toClient', End, i) + d /\ Num(toClient', End, i) \in Nat
    BY <1>2, <2>1, NumIsFinite
  <2>3. /\ Num(toClient, End, i + 1) + 1 <= Begun
        /\ Clean(Num(toClient, End, i + 1) + 1) => toClient[i + 1].v = ram[toClient[i + 1].a]
    BY <2>1 DEF ViewKept, CellsKept
  <2>4. Num(toClient', End, i) + 1 <= Begun'
    BY <1>1, <1>4, <2>2, <2>3
  <2>5. ASSUME NEW k, k = Num(toClient', End, i) + 1, Clean(k)'
        PROVE  toClient'[i].v = ram[toClient'[i].a]
    <3>1. k \in Nat \ {0} /\ k + d = Num(toClient, End, i + 1) + 1
      BY <1>4, <2>2, <2>5
    <3>2. Clean(k + d)
      BY <1>2, <2>5, <3>1
    <3> QED BY <2>1, <2>3, <3>1, <3>2
  <2> QED BY <2>4, <2>5
<1>14. EndsKept'
  <2> SUFFICES ASSUME NEW k \in 1 .. ends, Clean(k)' PROVE Complete(k, Size + 1)'
    BY <1>9 DEF EndsKept
  <2>1. k + d \in 1 .. Ends /\ k \in Nat \ {0}
    BY <1>4, <1>10
  <2>2. Clean(k + d)
    BY <1>2, <2>1
  <2>3. Complete(k + d, Size + 1)
    BY <2>1, <2>2 DEF ViewKept, EndsKept
  <2> QED BY <1>3, <2>1, <2>2, <2>3
<1>15. DumpKept'
  <2> SUFFICES ASSUME Dumps, NEW k, k = begun, Clean(k)', NEW b, b = dump
               PROVE  Complete(k, b)'
    BY <1>5, <1>6, <1>9 DEF DumpKept
  <2>1. k \in Nat \ {0}
    <3>1. Begun' = Ends' + 1
      BY <1>6 DEF Begun
    <3>2. begun = ends + 1
      BY <1>9, <3>1
    <3> QED BY <3>2
  <2>2. k + d = Begun
    BY <1>4, <1>10, <2>1
  <2>3. Clean(k + d)
    BY <1>2, <2>1
  <2>4. Complete(Begun, dump)
    BY <2>2, <2>3 DEF ViewKept, DumpKept
  <2> QED BY <1>3, <2>1, <2>2, <2>3, <2>4
<1> QED BY <1>7, <1>8, <1>11, <1>12, <1>13, <1>14, <1>15 DEF ViewKept

\* The steps of the client keep what it will know
LEMMA ClientKeepsView ==
    ASSUME Types, Types', Hears', ViewKept, Client
    PROVE  ViewKept'
<1>1. CASE Connect
  <2>1. /\ client'.asked = client.asked /\ client'.fresh = client.fresh
        /\ client'.shown = client.shown
        /\ UNCHANGED <<phase, at, ram, dump, toServer, toClient>>
    BY <1>1, ConnectStep DEF SameExcept, Fields
  <2>2. /\ Ends' = Ends /\ Begun' = Begun /\ (\A k : Clean(k)' <=> Clean(k))
        /\ (Fresh' <=> Fresh) /\ (Still' <=> Still) /\ (Dumps' <=> Dumps)
    BY <2>1 DEF Ends, Begun, Dumps, Clean, Fresh, Still
  <2>3. \A k, b : Complete(k, b)' <=> Complete(k, b)
    BY <2>1 DEF Complete, LineOf
  <2>4. AnswersCounted' /\ FreshKept' /\ BegunKept' /\ AskedKept'
    BY <2>1, <2>2 DEF ViewKept, AnswersCounted, FreshKept, BegunKept, AskedKept, NoChange
  <2>5. CellsKept' /\ EndsKept' /\ DumpKept'
    BY <2>1, <2>2, <2>3 DEF ViewKept, CellsKept, EndsKept, DumpKept
  <2> QED BY <2>4, <2>5 DEF ViewKept
<1>2. CASE HangUp
  BY <1>2, HangUpEnds
<1>3. CASE Receive
  BY <1>3, ReceiveKeepsView
<1>4. ASSUME NEW c \in Command, Send(c) PROVE ViewKept'
  BY <1>4, SendKeepsView
<1> QED BY <1>1, <1>2, <1>3, <1>4 DEF Client

-----------------------------------------------------------------------------
(* Where a CPU stops, one instruction at a time                              *)

IsEnd(walked, a, b) == b >= a /\ b \notin walked /\ \A x \in a .. b - 1 : x \in walked

\* There is an end, and only one: the first address from a on that is not walked
LEMMA WalkEndIs ==
    ASSUME NEW walked \in SUBSET Code, NEW a \in Nat
    PROVE  /\ WalkEnd(walked, a) \in Nat /\ IsEnd(walked, a, WalkEnd(walked, a))
           /\ \A b \in Nat : IsEnd(walked, a, b) => b = WalkEnd(walked, a)
<1> DEFINE S == {b \in Nat : b >= a /\ b \notin walked}
<1>1. ASSUME NEW b \in Nat, NEW e \in Nat, IsEnd(walked, a, b), IsEnd(walked, a, e)
      PROVE  b = e
  <2>1. ASSUME NEW x \in Nat, NEW y \in Nat, IsEnd(walked, a, x), IsEnd(walked, a, y), x < y
        PROVE  FALSE
    <3>1. x \in a .. y - 1 /\ x \notin walked
      BY <2>1 DEF IsEnd
    <3> QED BY <2>1, <3>1 DEF IsEnd
  <2> QED BY <1>1, <2>1
<1>2. \E b \in a .. a + Size : b \notin walked /\ \A x \in a .. b - 1 : x \in walked
  <2>1. a + Size \in S \/ a \in S
    BY Sizes DEF Code
  <2>2. PICK b \in S : \A y \in S : b <= y
    <3>1. S # {} /\ S \in SUBSET Nat
      BY <2>1
    <3> QED BY <3>1, LeastElement
  <2>3. b \in a .. a + Size
    BY <2>1, <2>2, Sizes
  <2>4. ASSUME NEW x \in a .. b - 1 PROVE x \in walked
    <3>1. x \in Nat /\ x >= a /\ x < b
      BY <2>2
    <3> QED BY <2>2, <3>1
  <2> QED BY <2>2, <2>3, <2>4
<1>3. /\ WalkEnd(walked, a) \in a .. a + Size
      /\ WalkEnd(walked, a) \notin walked
      /\ \A x \in a .. WalkEnd(walked, a) - 1 : x \in walked
  BY <1>2 DEF WalkEnd
<1>4. WalkEnd(walked, a) \in Nat /\ IsEnd(walked, a, WalkEnd(walked, a))
  BY <1>3, Sizes DEF IsEnd
<1> QED BY <1>1, <1>4

\* An address that is not walked is the end, and from one that is the walk goes on
LEMMA WalkEndStep ==
    ASSUME NEW walked \in SUBSET Code, NEW a \in Nat
    PROVE  /\ a \notin walked => WalkEnd(walked, a) = a
           /\ a \in walked => WalkEnd(walked, a) = WalkEnd(walked, a + 1)
<1>1. CASE a \notin walked
  <2>1. IsEnd(walked, a, a)
    BY <1>1 DEF IsEnd
  <2> QED BY <1>1, <2>1, WalkEndIs
<1>2. CASE a \in walked
  <2> DEFINE e == WalkEnd(walked, a + 1)
  <2>0. a + 1 \in Nat
    OBVIOUS
  <2>1. e \in Nat /\ IsEnd(walked, a + 1, e)
    BY <2>0, WalkEndIs
  <2> HIDE DEF e
  <2>2. IsEnd(walked, a, e)
    <3>1. \A x \in a .. e - 1 : x = a \/ x \in a + 1 .. e - 1
      OBVIOUS
    <3> QED BY <1>2, <2>1, <3>1 DEF IsEnd
  <2>3. e = WalkEnd(walked, a)
    BY <2>1, <2>2, WalkEndIs
  <2> QED BY <1>2, <2>3 DEF e
<1> QED BY <1>1, <1>2

\* Stops is what the instruction at a makes of it
LEMMA StopsStep ==
    ASSUME NEW c, NEW breaks, NEW a \in Nat, a \in Code => c[a] \in Instruction
    PROVE  /\ a \in breaks => Stops(c, breaks, a) = a
           /\ a \notin breaks =>
                 /\ a \notin Code => Stops(c, breaks, a) = Nowhere
                 /\ a \in Code /\ c[a] = "halt"  => Stops(c, breaks, a) = AtHalt
                 /\ a \in Code /\ c[a] = "next"  => Stops(c, breaks, a) = Stops(c, breaks, a + 1)
                 /\ a \in Code /\ c[a] = "first" => Stops(c, breaks, a) = Stops(c, breaks, 1)
<1> DEFINE walked == Walked(c, breaks)
           jumps(b) == b \in Code \ breaks /\ c[b] = "first"
           end(b)   == WalkEnd(walked, b)
           of(e)    == IF jumps(e) THEN end(1) ELSE e
           result(s) == IF s \in breaks THEN s
                        ELSE IF s \notin Code \/ jumps(s) THEN Nowhere ELSE AtHalt
<1>1. \A b : Stops(c, breaks, b) = result(of(end(b)))
  BY DEF Stops
<1>2. walked \in SUBSET Code
  BY DEF Walked
<1>3. a \in walked <=> a \in Code /\ c[a] = "next" /\ a \notin breaks
  BY DEF Walked
<1>4. /\ a \notin walked => end(a) = a
      /\ a \in walked => end(a) = end(a + 1)
  BY <1>2, WalkEndStep
<1>5. a \in breaks => result(of(end(a))) = a
  BY <1>3, <1>4
<1>6. a \notin breaks /\ a \notin Code => result(of(end(a))) = Nowhere
  BY <1>3, <1>4
<1>7. a \notin breaks /\ a \in Code /\ c[a] = "halt" => result(of(end(a))) = AtHalt
  BY <1>3, <1>4
<1>8. a \notin breaks /\ a \in Code /\ c[a] = "next" => result(of(end(a))) = result(of(end(a + 1)))
  BY <1>3, <1>4
<1>9. a \notin breaks /\ a \in Code /\ c[a] = "first" => result(of(end(a))) = result(of(end(1)))
  <2> SUFFICES ASSUME a \notin breaks, a \in Code, c[a] = "first"
               PROVE  of(end(a)) = of(end(1))
    OBVIOUS
  <2>1. end(a) = a /\ jumps(a)
    BY <1>3, <1>4
  <2> QED BY <2>1
<1> HIDE DEF result, of, end
<1> QED BY <1>1, <1>5, <1>6, <1>7, <1>8, <1>9

\* and of the cells it depends on the code alone
LEMMA StopsOfCode ==
    ASSUME NEW c, NEW d, \A a \in Code : c[a] = d[a], NEW breaks, NEW a
    PROVE  Stops(c, breaks, a) = Stops(d, breaks, a)
<1>1. Walked(c, breaks) = Walked(d, breaks)
  BY DEF Walked
<1>2. \A b : b \in Code \ breaks /\ c[b] = "first" <=> b \in Code \ breaks /\ d[b] = "first"
  OBVIOUS
<1> QED BY <1>1, <1>2 DEF Stops

-----------------------------------------------------------------------------
(* The breakpoints once the first n of the commands q have been read         *)

Clears(c, b) == c.cmd = "CLEAR" /\ c.a = b

After(q, set, n) ==
    {b \in Breakable :
       \/ b \in set /\ \A j \in 1 .. n : ~Clears(q[j], b)
       \/ \E i \in 1 .. n : /\ q[i].cmd = "BREAK" /\ q[i].a = b
                            /\ \A j \in i + 1 .. n : ~Clears(q[j], b)}

Applied(c, set) ==
    IF c.cmd = "BREAK" THEN set \cup {c.a} ELSE IF c.cmd = "CLEAR" THEN set \ {c.a} ELSE set

\* Without requests the breakpoints stay as they are
LEMMA AfterNone == \A q, set : set \subseteq Breakable => After(q, set, 0) = set
BY DEF After

\* The first request is carried out first
LEMMA AfterRead ==
    ASSUME NEW q \in Seq(Command), q # <<>>, NEW set \in SUBSET Breakable,
           NEW n \in 0 .. Len(q) - 1
    PROVE  After(q, set, n + 1) = After(Tail(q), Applied(Head(q), set), n)
<1> DEFINE c == Head(q)
           r == Tail(q)
           read == Applied(c, set)
<1>1. /\ c = q[1] /\ n \in Nat /\ \A i \in 1 .. n : r[i] = q[i + 1]
      /\ c \in Command
  BY HeadTailProperties
<1>2. c.cmd \in {"BREAK", "CLEAR"} => c.a \in Breakable
  BY <1>1, CommandNames
<1> HIDE DEF c, r
<1>3. ASSUME NEW b \in Breakable, NEW i \in 0 .. n
      PROVE  (\A j \in (i + 1) + 1 .. n + 1 : ~Clears(q[j], b)) <=> (\A j \in i + 1 .. n : ~Clears(r[j], b))
  <2>1. ASSUME \A j \in (i + 1) + 1 .. n + 1 : ~Clears(q[j], b), NEW j \in i + 1 .. n
        PROVE  ~Clears(r[j], b)
    <3>1. j + 1 \in (i + 1) + 1 .. n + 1 /\ j \in 1 .. n
      BY <1>1
    <3> QED BY <1>1, <2>1, <3>1
  <2>2. ASSUME \A j \in i + 1 .. n : ~Clears(r[j], b), NEW j \in (i + 1) + 1 .. n + 1
        PROVE  ~Clears(q[j], b)
    <3>1. j - 1 \in i + 1 .. n /\ j - 1 \in 1 .. n /\ (j - 1) + 1 = j
      BY <1>1
    <3>2. r[j - 1] = q[j]
      BY <1>1, <3>1
    <3> QED BY <2>2, <3>1, <3>2
  <2> QED BY <2>1, <2>2
<1>4. ASSUME NEW b \in Breakable
      PROVE  /\ (\A j \in 1 .. n + 1 : ~Clears(q[j], b))
                   <=> ~Clears(c, b) /\ (\A j \in 1 .. n : ~Clears(r[j], b))
             /\ (\A j \in 1 + 1 .. n + 1 : ~Clears(q[j], b)) <=> (\A j \in 1 .. n : ~Clears(r[j], b))
  <2>0. 0 \in 0 .. n
    BY <1>1
  <2>1. (\A j \in (0 + 1) + 1 .. n + 1 : ~Clears(q[j], b)) <=> (\A j \in 0 + 1 .. n : ~Clears(r[j], b))
    BY <1>3, <2>0, Zenon
  <2>2. \A j \in 1 .. n + 1 : j = 1 \/ j \in 1 + 1 .. n + 1
    BY <1>1
  <2>3. 1 \in 1 .. n + 1 /\ \A j \in 1 + 1 .. n + 1 : j \in 1 .. n + 1
    BY <1>1
  <2> QED BY <1>1, <2>1, <2>2, <2>3
<1>5. ASSUME NEW b \in Breakable
      PROVE  b \in After(q, set, n + 1) <=> b \in After(r, read, n)
  <2> DEFINE Kept == \A j \in 1 .. n : ~Clears(r[j], b)
             Later == \E i \in 1 .. n : /\ r[i].cmd = "BREAK" /\ r[i].a = b
                                        /\ \A j \in i + 1 .. n : ~Clears(r[j], b)
  <2>1. b \in After(r, read, n) <=> (b \in read /\ Kept) \/ Later
    BY DEF After
  <2>2. b \in After(q, set, n + 1) <=>
            \/ b \in set /\ ~Clears(c, b) /\ Kept
            \/ c.cmd = "BREAK" /\ c.a = b /\ Kept
            \/ Later
    <3> DEFINE SetAt(i) == /\ q[i].cmd = "BREAK" /\ q[i].a = b
                         /\ \A j \in i + 1 .. n + 1 : ~Clears(q[j], b)
    <3>1. b \in After(q, set, n + 1) <=>
              (b \in set /\ ~Clears(c, b) /\ Kept) \/ \E i \in 1 .. n + 1 : SetAt(i)
      BY <1>4 DEF After
    <3>2. SetAt(1) <=> c.cmd = "BREAK" /\ c.a = b /\ Kept
      BY <1>1, <1>4
    <3>3. \A i \in 1 .. n : SetAt(i + 1) <=>
             /\ r[i].cmd = "BREAK" /\ r[i].a = b
             /\ \A j \in i + 1 .. n : ~Clears(r[j], b)
      <4> SUFFICES ASSUME NEW i \in 1 .. n
                   PROVE  SetAt(i + 1) <=> /\ r[i].cmd = "BREAK" /\ r[i].a = b
                                         /\ \A j \in i + 1 .. n : ~Clears(r[j], b)
        OBVIOUS
      <4>1. i \in 0 .. n /\ r[i] = q[i + 1]
        BY <1>1
      <4>2. (\A j \in (i + 1) + 1 .. n + 1 : ~Clears(q[j], b)) <=> (\A j \in i + 1 .. n : ~Clears(r[j], b))
        BY <1>3, <4>1, Zenon
      <4> QED BY <4>1, <4>2, Zenon
    <3> HIDE DEF SetAt
    <3>4. (\E i \in 1 .. n + 1 : SetAt(i)) <=> SetAt(1) \/ \E i \in 1 .. n : SetAt(i + 1)
      <4>1. \A i \in 1 .. n + 1 : i = 1 \/ (i - 1 \in 1 .. n /\ (i - 1) + 1 = i)
        BY <1>1
      <4>2. 1 \in 1 .. n + 1 /\ \A i \in 1 .. n : i + 1 \in 1 .. n + 1
        BY <1>1
      <4> QED BY <4>1, <4>2
    <3> QED BY <3>1, <3>2, <3>3, <3>4
  <2> HIDE DEF Kept, Later
  <2> QED BY <2>1, <2>2 DEF Applied, Clears
<1> QED BY <1>5 DEF After, c, r

\* The last request is carried out last
LEMMA AfterSent ==
    ASSUME NEW q \in Seq(Command), NEW c \in Command, NEW set \in SUBSET Breakable
    PROVE  /\ \A n \in 0 .. Len(q) : After(Append(q, c), set, n) = After(q, set, n)
           /\ After(Append(q, c), set, Len(q) + 1) = Applied(c, After(q, set, Len(q)))
<1> DEFINE r == Append(q, c)
           n == Len(q)
<1>1. n \in Nat /\ r[n + 1] = c /\ \A i \in 1 .. n : r[i] = q[i]
  BY AppendProperties
<1>2. c.cmd \in {"BREAK", "CLEAR"} => c.a \in Breakable
  BY CommandNames
<1> HIDE DEF r, n
<1>3. ASSUME NEW m \in 0 .. n PROVE After(r, set, m) = After(q, set, m)
  BY <1>1 DEF After
<1>4. ASSUME NEW b \in Breakable
      PROVE  b \in After(r, set, n + 1) <=> b \in Applied(c, After(q, set, n))
  <2> DEFINE Kept(s, i, m) == \A j \in i .. m : ~Clears(s[j], b)
             Sets(s, i, m) == s[i].cmd = "BREAK" /\ s[i].a = b /\ Kept(s, i + 1, m)
  <2>1. \A i \in 1 .. n + 1 : Kept(r, i, n + 1) <=> Kept(q, i, n) /\ ~Clears(c, b)
    <3> SUFFICES ASSUME NEW i \in 1 .. n + 1
                 PROVE  Kept(r, i, n + 1) <=> Kept(q, i, n) /\ ~Clears(c, b)
      OBVIOUS
    <3>1. \A j \in i .. n + 1 : j = n + 1 \/ j \in i .. n
      BY <1>1
    <3>2. n + 1 \in i .. n + 1 /\ \A j \in i .. n : j \in i .. n + 1 /\ j \in 1 .. n
      BY <1>1
    <3> QED BY <1>1, <3>1, <3>2
  <2>2. Kept(r, (n + 1) + 1, n + 1)
    BY <1>1
  <2>3. /\ b \in After(r, set, n + 1) <=>
             (b \in set /\ Kept(r, 1, n + 1)) \/ \E i \in 1 .. n + 1 : Sets(r, i, n + 1)
        /\ b \in After(q, set, n) <=>
             (b \in set /\ Kept(q, 1, n)) \/ \E i \in 1 .. n : Sets(q, i, n)
    BY DEF After
  <2> HIDE DEF Kept
  <2>4. \A i \in 1 .. n : Sets(r, i, n + 1) <=> Sets(q, i, n) /\ ~Clears(c, b)
    <3>1. \A i \in 1 .. n : i + 1 \in 1 .. n + 1
      BY <1>1
    <3> QED BY <1>1, <2>1, <3>1
  <2>5. Sets(r, n + 1, n + 1) <=> c.cmd = "BREAK" /\ c.a = b
    BY <1>1, <2>2
  <2> HIDE DEF Sets
  <2>6. (\E i \in 1 .. n + 1 : Sets(r, i, n + 1)) <=>
            (\E i \in 1 .. n : Sets(r, i, n + 1)) \/ Sets(r, n + 1, n + 1)
    <3>1. n + 1 \in 1 .. n + 1 /\ \A i \in 1 .. n + 1 : i \in 1 .. n \/ i = n + 1
      BY <1>1
    <3>2. \A i \in 1 .. n : i \in 1 .. n + 1
      BY <1>1
    <3> QED BY <3>1, <3>2
  <2>7. Kept(r, 1, n + 1) <=> Kept(q, 1, n) /\ ~Clears(c, b)
    BY <1>1, <2>1
  <2> QED BY <2>3, <2>4, <2>5, <2>6, <2>7 DEF Applied, Clears
<1>5. \A b \in Applied(c, After(q, set, n)) : b \in Breakable
  BY <1>2 DEF Applied, After
<1>6. After(r, set, n + 1) = Applied(c, After(q, set, n))
  BY <1>4, <1>5 DEF After
<1> QED BY <1>3, <1>6 DEF r, n

-----------------------------------------------------------------------------
(* The stop that the client expects: a resume that is on its way leads to it, *)
(* or the CPU is running there, or stops and says so                          *)

Halted == [msg : {"HALTED"}]
Over   == phase \in {"halted", "dump halted", "ended"}
Mode   == IF stepMode THEN "STEP" ELSE "CONTINUE"

\* The next stop of a CPU that stands at p with the cells c and is told to resume
StopAfter(c, p, cmd, breaks) ==
    LET a == IF c[p] = "first" THEN 1 ELSE c[PC] + 1
    IN  IF p \notin Code THEN Nowhere
        ELSE IF c[p] = "halt" THEN AtHalt
        ELSE IF cmd = "STEP" THEN a
        ELSE Stops(c, breaks, a)

NoStops == \A i \in DOMAIN toClient : toClient[i] \notin Stop

Pending(r) ==
    /\ toServer[r] \in Resumer
    /\ \A i \in 1 .. r - 1 : toServer[i] \notin Changer
    /\ client.expect = StopAfter(ram, at, toServer[r].cmd, After(toServer, breakpoints, r - 1))

Running ==
    \/ phase = "execute" /\ client.expect = StopAfter(ram, at, Mode, breakpoints)
    \/ /\ phase = "next"
       /\ client.expect = IF stepMode THEN ram[PC] + 1 ELSE Stops(ram, breakpoints, ram[PC] + 1)

Meets(i) ==
    /\ \A j \in 1 .. i - 1 : toClient[j] \notin Stop
    /\ \/ toClient[i] \in Pause /\ toClient[i].a = client.expect
       \/ toClient[i] \in Halted /\ client.expect = AtHalt

Expects ==
    \/ client.expect = Anywhere
    \/ NoStops /\ Paused /\ \E r \in DOMAIN toServer : Pending(r)
    \/ NoStops /\ Running
    \/ NoStops /\ Over
    \/ \E i \in DOMAIN toClient : Meets(i)

HaltIsLast ==
    \A i \in DOMAIN toClient : toClient[i] \in Halted =>
        Over /\ \A j \in i + 1 .. Len(toClient) : toClient[j] \notin Stop

BreaksKnown == client.breaks = After(toServer, breakpoints, Len(toServer))

StopsKnown == BreaksKnown /\ Expects /\ HaltIsLast

\* A message keeps the stops that are on their way
LEMMA SaidStops ==
    ASSUME Types, NEW m \in Message, Say(m), client.open, client' = client, Over => Over'
    PROVE  /\ m \notin Stop /\ NoStops => NoStops'
           /\ (\E i \in DOMAIN toClient : Meets(i)) => (\E i \in DOMAIN toClient : Meets(i))'
           /\ m \notin Stop /\ HaltIsLast => HaltIsLast'
<1>1. /\ toClient \in Seq(Message) /\ toClient' \in Seq(Message) /\ Len(toClient) \in Nat
      /\ Len(toClient') = Len(toClient) + 1
      /\ \A i \in 1 .. Len(toClient) : toClient'[i] = toClient[i]
      /\ toClient'[Len(toClient) + 1] = m
      /\ DOMAIN toClient = 1 .. Len(toClient) /\ DOMAIN toClient' = 1 .. Len(toClient')
  BY SayStep DEF Types
<1>2. m \notin Stop /\ NoStops => NoStops'
  BY <1>1 DEF NoStops
<1>3. ASSUME NEW i \in DOMAIN toClient, Meets(i)
      PROVE  i \in DOMAIN toClient' /\ Meets(i)'
  <2>1. /\ toClient'[i] = toClient[i] /\ i \in DOMAIN toClient'
        /\ \A j \in 1 .. i - 1 : toClient'[j] = toClient[j]
    BY <1>1
  <2> QED BY <1>3, <2>1 DEF Meets
<1>4. m \notin Stop /\ HaltIsLast => HaltIsLast'
  BY <1>1 DEF HaltIsLast, Stop, Halted
<1> QED BY <1>2, <1>3, <1>4

\* A stop that is announced is the one that is expected
LEMMA SaysStop ==
    ASSUME Types, NEW m \in Message, Say(m), client.open, client' = client, m \in Stop,
           HaltIsLast, ~Over, m \in Halted => Over'
    PROVE  /\ HaltIsLast'
           /\ NoStops /\ ((m \in Pause /\ m.a = client.expect) \/ (m \in Halted /\ client.expect = AtHalt))
                 => (\E i \in DOMAIN toClient : Meets(i))'
<1>1. /\ toClient \in Seq(Message) /\ toClient' \in Seq(Message) /\ Len(toClient) \in Nat
      /\ Len(toClient') = Len(toClient) + 1
      /\ \A i \in 1 .. Len(toClient) : toClient'[i] = toClient[i]
      /\ toClient'[Len(toClient) + 1] = m
      /\ DOMAIN toClient = 1 .. Len(toClient) /\ DOMAIN toClient' = 1 .. Len(toClient')
  BY SayStep DEF Types
<1>2. HaltIsLast'
  <2>1. \A i \in 1 .. Len(toClient) : toClient[i] \notin Halted
    BY <1>1 DEF HaltIsLast
  <2> QED BY <1>1, <2>1 DEF HaltIsLast
<1>3. ASSUME NoStops, (m \in Pause /\ m.a = client.expect) \/ (m \in Halted /\ client.expect = AtHalt)
      PROVE  (\E i \in DOMAIN toClient : Meets(i))'
  <2>1. \A i : i = Len(toClient) + 1 => i \in DOMAIN toClient' /\ Meets(i)'
    BY <1>1, <1>3 DEF Meets, NoStops
  <2> QED BY <2>1
<1> QED BY <1>2, <1>3

\* The server reads a command: the breakpoints are what the client knows they will be
LEMMA ReadBreaks ==
    ASSUME Types, NEW names, Receives(names), breakpoints' = Applied(Head(toServer), breakpoints)
    PROVE  /\ \A n \in 0 .. Len(toServer') :
                 After(toServer', breakpoints', n) = After(toServer, breakpoints, n + 1)
           /\ BreaksKnown => BreaksKnown'
<1>1. /\ toServer \in Seq(Command) /\ toServer # <<>> /\ toServer' = Tail(toServer)
      /\ Len(toServer) \in Nat \ {0} /\ Len(toServer') = Len(toServer) - 1
      /\ client' = client /\ breakpoints \in SUBSET Breakable
  BY ReceivesStep DEF Types, DebuggerTypeOK
<1>2. ASSUME NEW n \in 0 .. Len(toServer')
      PROVE  After(toServer', breakpoints', n) = After(toServer, breakpoints, n + 1)
  <2>1. n \in 0 .. Len(toServer) - 1
    BY <1>1
  <2> QED BY <1>1, <2>1, AfterRead
<1>3. Len(toServer') \in 0 .. Len(toServer') /\ Len(toServer') + 1 = Len(toServer)
  BY <1>1
<1>4. After(toServer', breakpoints', Len(toServer')) = After(toServer, breakpoints, Len(toServer') + 1)
  BY <1>2, <1>3, Zenon
<1> QED BY <1>1, <1>2, <1>3, <1>4 DEF BreaksKnown

\* A command that changes nothing but the breakpoints
LEMMA ReadStops ==
    ASSUME Types, Types', NEW names, Receives(names), Waiting, StopsKnown,
           Head(toServer) \notin Changer, breakpoints' = Applied(Head(toServer), breakpoints),
           UNCHANGED <<ram, toClient>>, Paused => Paused' \/ Over', Over => Over'
    PROVE  StopsKnown'
<1>1. /\ toServer \in Seq(Command) /\ Head(toServer) = toServer[1]
      /\ Len(toServer) \in Nat \ {0} /\ Len(toServer') = Len(toServer) - 1
      /\ \A i \in 1 .. Len(toServer') : toServer'[i] = toServer[i + 1]
      /\ client' = client /\ at' = at
      /\ DOMAIN toServer = 1 .. Len(toServer) /\ DOMAIN toServer' = 1 .. Len(toServer')
  BY ReceivesStep, EndsType
<1>2. ASSUME NEW r \in DOMAIN toServer, Pending(r)
      PROVE  \E s \in DOMAIN toServer' : Pending(s)'
  <2>1. r # 1
    BY <1>1, <1>2 DEF Pending, Changer
  <2>2. r - 1 \in DOMAIN toServer' /\ toServer'[r - 1] = toServer[r]
        /\ (r - 1) - 1 \in 0 .. Len(toServer') /\ ((r - 1) - 1) + 1 = r - 1
    BY <1>1, <2>1
  <2>3. After(toServer', breakpoints', (r - 1) - 1) = After(toServer, breakpoints, r - 1)
    <3>1. After(toServer', breakpoints', (r - 1) - 1)
             = After(toServer, breakpoints, ((r - 1) - 1) + 1)
      BY <2>2, ReadBreaks, Zenon
    <3> QED BY <2>2, <3>1
  <2>4. \A i \in 1 .. (r - 1) - 1 : toServer'[i] \notin Changer
    <3> SUFFICES ASSUME NEW i \in 1 .. (r - 1) - 1 PROVE toServer'[i] \notin Changer
      OBVIOUS
    <3>1. i + 1 \in 1 .. r - 1 /\ i \in 1 .. Len(toServer')
      BY <1>1
    <3> QED BY <1>1, <1>2, <3>1 DEF Pending
  <2>5. \A s : s = r - 1 => Pending(s)'
    BY <1>1, <1>2, <2>2, <2>3, <2>4 DEF Pending
  <2> QED BY <2>2, <2>5
<1>3. NoStops' <=> NoStops
  BY DEF NoStops
<1>4. \A i : Meets(i)' <=> Meets(i)
  BY <1>1 DEF Meets
<1>5. ~Running
  BY DEF Running, Waiting
<1>6. Expects'
  BY <1>1, <1>2, <1>3, <1>4, <1>5 DEF StopsKnown, Expects
<1>7. HaltIsLast'
  BY DEF StopsKnown, HaltIsLast
<1>8. BreaksKnown'
  BY ReadBreaks DEF StopsKnown
<1> QED BY <1>6, <1>7, <1>8 DEF StopsKnown

\* The check and then the instruction, and the stop is the same
LEMMA StopAfterCheck ==
    ASSUME NEW c, NEW breaks, NEW p \in Nat, p \notin breaks, c[PC] = p,
           p \in Code => c[p] \in Instruction
    PROVE  StopAfter(c, p, "CONTINUE", breaks) = Stops(c, breaks, p)
<1>1. CASE p \notin Code
  BY <1>1, StopsStep DEF StopAfter
<1>2. CASE p \in Code
  <2>1. c[p] \in {"next", "first", "halt"}
    BY <1>2 DEF Instruction
  <2>2. /\ c[p] = "halt"  => Stops(c, breaks, p) = AtHalt
        /\ c[p] = "next"  => Stops(c, breaks, p) = Stops(c, breaks, c[PC] + 1)
        /\ c[p] = "first" => Stops(c, breaks, p) = Stops(c, breaks, 1)
    BY <1>2, <2>1, StopsStep
  <2> QED BY <1>2, <2>1, <2>2 DEF StopAfter
<1> QED BY <1>1, <1>2

\* The check before an instruction keeps the stops
LEMMA CheckKeepsStops ==
    ASSUME Types, Types', client.open, StopsKnown, CheckBreakpoint
    PROVE  StopsKnown'
<1>1. /\ phase = "next" /\ at' = ram[PC] + 1 /\ ram' = [ram EXCEPT ![PC] = @ + 1]
      /\ UNCHANGED <<breakpoints, stepMode, toServer, client>>
  BY DEF CheckBreakpoint
<1>2. /\ at' \in Nat /\ ram'[PC] = at' /\ \A a \in Code : ram'[a] = ram[a] /\ ram[a] \in Instruction
  BY <1>1, Sizes DEF Types, DebuggerTypeOK, Cell
<1>3. BreaksKnown'
  BY <1>1 DEF StopsKnown, BreaksKnown
<1>4. ~Over /\ ~Paused
  BY <1>1 DEF Over, Paused
<1>5. Expects <=> \/ client.expect = Anywhere
                  \/ NoStops /\ client.expect = IF stepMode THEN at' ELSE Stops(ram, breakpoints, at')
                  \/ \E i \in DOMAIN toClient : Meets(i)
  BY <1>1, <1>4 DEF Expects, Running
<1>6. CASE at' \in breakpoints \/ stepMode
  <2>1. PICK m \in Message : m = [msg |-> "PAUSED", a |-> at']
    BY <1>2 DEF Message, Stop, Pause
  <2>2. Say(m) /\ m \in Stop /\ m \in Pause /\ m \notin Halted
    BY <1>2, <1>6, <2>1 DEF CheckBreakpoint, Stop, Pause, Halted
  <2>3. (IF stepMode THEN at' ELSE Stops(ram, breakpoints, at')) = at'
    BY <1>2, <1>6, StopsStep
  <2>4. client' = client /\ HaltIsLast
    BY <1>1 DEF StopsKnown
  <2>5. HaltIsLast' /\ (NoStops /\ m.a = client.expect => (\E i \in DOMAIN toClient : Meets(i))')
    BY <1>4, <2>2, <2>4, SaysStop
  <2>6. (\E i \in DOMAIN toClient : Meets(i)) => (\E i \in DOMAIN toClient : Meets(i))'
    BY <1>1, <1>4, <2>2, SaidStops
  <2>7. Expects'
    BY <1>1, <1>5, <2>1, <2>3, <2>5, <2>6 DEF StopsKnown, Expects
  <2> QED BY <1>3, <2>5, <2>7 DEF StopsKnown
<1>7. CASE ~(at' \in breakpoints \/ stepMode)
  <2>1. phase' = "execute" /\ toClient' = toClient
    BY <1>7 DEF CheckBreakpoint
  <2>2. Stops(ram, breakpoints, at') = Stops(ram', breakpoints, at')
    BY <1>2, StopsOfCode
  <2>3. StopAfter(ram', at', "CONTINUE", breakpoints) = Stops(ram', breakpoints, at')
    <3> DEFINE p == at'
               c == ram'
    <3>1. p \in Nat /\ p \notin breakpoints /\ c[PC] = p /\ (p \in Code => c[p] \in Instruction)
      BY <1>2, <1>7
    <3> HIDE DEF p, c
    <3>2. StopAfter(c, p, "CONTINUE", breakpoints) = Stops(c, breakpoints, p)
      BY <3>1, StopAfterCheck
    <3> QED BY <3>2 DEF p, c
  <2>4. Mode' = "CONTINUE"
    BY <1>1, <1>7 DEF Mode
  <2>5. client.expect = Stops(ram, breakpoints, at') => Running'
    BY <1>1, <2>1, <2>2, <2>3, <2>4 DEF Running
  <2>6. (NoStops' <=> NoStops) /\ \A i : Meets(i)' <=> Meets(i)
    BY <1>1, <2>1 DEF NoStops, Meets
  <2>7. Expects'
    BY <1>1, <1>5, <1>7, <2>1, <2>5, <2>6 DEF StopsKnown, Expects
  <2>8. HaltIsLast'
    BY <1>4, <2>1 DEF StopsKnown, HaltIsLast
  <2> QED BY <1>3, <2>7, <2>8 DEF StopsKnown
<1> QED BY <1>6, <1>7

\* The steps of the server keep the stops
LEMMA ServerKeepsStops ==
    ASSUME Types, Types', Hears', StopsKnown, Server
    PROVE  StopsKnown'
<1>1. client' = client /\ client.open
  BY ServerHears
<1>2. CASE Accept
  <2>1. [msg |-> "READY"] \in Message \ Stop
    BY DEF Message, Stop, Pause
  <2>2. /\ phase = "listening" /\ Say([msg |-> "READY"])
        /\ UNCHANGED <<breakpoints, toServer>> /\ ~Over
    BY <1>2 DEF Accept, Over
  <2>3. HaltIsLast' /\ ((\E i \in DOMAIN toClient : Meets(i)) => (\E i \in DOMAIN toClient : Meets(i))')
    BY <1>1, <2>1, <2>2, SaidStops DEF StopsKnown
  <2>4. Expects'
    BY <1>1, <2>2, <2>3 DEF StopsKnown, Expects, Running, Paused
  <2> QED BY <1>1, <2>2, <2>3, <2>4 DEF StopsKnown, BreaksKnown
<1>3. CASE CheckBreakpoint
  BY <1>1, <1>3, CheckKeepsStops
<1>4. CASE Resume
  <2> DEFINE c == Head(toServer)
  <2>1. /\ c \in Resumer /\ c \in Command /\ c.cmd \in Resumes /\ c = toServer[1] /\ 1 \in DOMAIN toServer
        /\ at' = at /\ breakpoints' = Applied(c, breakpoints)
        /\ Receives(Resumes)
    <3>1. /\ c \in Command /\ c.cmd \in Resumes /\ c = toServer[1] /\ at' = at
          /\ Len(toServer) \in Nat \ {0} /\ Receives(Resumes)
      BY <1>4, ReceivesStep DEF Resume
    <3>2. 1 \in DOMAIN toServer
      BY <3>1, EndsType
    <3>3. breakpoints' = breakpoints
      BY <1>4 DEF Resume
    <3> QED BY <3>1, <3>2, <3>3, CommandNames DEF Applied, Resumes
  <2>2. UNCHANGED <<ram, breakpoints, toClient>> /\ Waiting
        /\ stepMode' = (c.cmd = "STEP") /\ phase' = IF phase = "paused" THEN "execute" ELSE phase
    BY <1>4 DEF Resume
  <2> HIDE DEF c
  <2>3. BreaksKnown'
    BY <2>1, ReadBreaks DEF StopsKnown, c
  <2>4. (NoStops' <=> NoStops) /\ \A i : Meets(i)' <=> Meets(i)
    BY <1>1, <2>2 DEF NoStops, Meets
  <2>5. Mode' = c.cmd
    BY <2>1, <2>2 DEF Mode, Resumes
  <2>6. ASSUME Paused, NEW r \in DOMAIN toServer, Pending(r) PROVE Running'
    <3>1. r = 1
      <4>1. r \in Nat /\ r >= 1
        BY EndsType
      <4>2. CASE r > 1
        <5>1. 1 \in 1 .. r - 1
          BY <4>1, <4>2
        <5> QED BY <2>1, <2>6, <5>1 DEF Pending, Changer
      <4> QED BY <4>1, <4>2
    <3>2. client.expect = StopAfter(ram, at, c.cmd, breakpoints)
      <4>1. After(toServer, breakpoints, 0) = breakpoints
        BY AfterNone DEF Types, DebuggerTypeOK
      <4>2. r - 1 = 0
        BY <3>1
      <4>3. client.expect = StopAfter(ram, at, toServer[r].cmd, After(toServer, breakpoints, r - 1))
        BY <2>6 DEF Pending
      <4> QED BY <2>1, <3>1, <4>1, <4>2, <4>3
    <3>3. phase' = "execute"
      BY <2>2, <2>6 DEF Paused, Waiting
    <3> QED BY <1>1, <2>1, <2>2, <2>5, <3>2, <3>3 DEF Running
  <2>7. ~Running /\ (Over => Over')
    BY <2>2 DEF Running, Waiting, Over
  <2>8. Expects'
    BY <1>1, <2>2, <2>4, <2>6, <2>7 DEF StopsKnown, Expects
  <2>9. HaltIsLast'
    BY <2>2, <2>7 DEF StopsKnown, HaltIsLast
  <2> QED BY <2>3, <2>8, <2>9 DEF StopsKnown
<1>5. CASE SetBreakpoint
  <2> DEFINE c == Head(toServer)
  <2>1. c \in Command /\ c.cmd \in {"BREAK", "CLEAR"} /\ Receives({"BREAK", "CLEAR"})
    BY <1>5, ReceivesStep DEF SetBreakpoint
  <2>2. /\ breakpoints' = IF c.cmd = "BREAK" THEN breakpoints \cup {c.a} ELSE breakpoints \ {c.a}
        /\ UNCHANGED <<phase, ram, toClient>> /\ Waiting
    BY <1>5 DEF SetBreakpoint
  <2> HIDE DEF c
  <2>3. breakpoints' = Applied(c, breakpoints)
    BY <2>1, <2>2 DEF Applied
  <2>4. c \notin Changer
    BY <2>1, CommandNames DEF Changer, Resumes
  <2> QED BY <2>1, <2>2, <2>3, <2>4, ReadStops DEF c, Paused, Over
<1>6. CASE Set
  <2> DEFINE c == Head(toServer)
  <2>1. /\ c \in Changer /\ c \notin Resumer /\ c = toServer[1] /\ 1 \in DOMAIN toServer
        /\ at' = at /\ breakpoints' = Applied(c, breakpoints) /\ Receives({"SET"})
    <3>1. /\ c \in Command /\ c.cmd = "SET" /\ c = toServer[1] /\ at' = at
          /\ Len(toServer) \in Nat \ {0} /\ Receives({"SET"})
      BY <1>6, ReceivesStep DEF Set
    <3>2. 1 \in DOMAIN toServer
      BY <3>1, EndsType
    <3>3. breakpoints' = breakpoints
      BY <1>6 DEF Set
    <3> QED BY <3>1, <3>2, <3>3, CommandNames DEF Applied, Resumes, Changer
  <2>2. UNCHANGED <<phase, breakpoints, toClient>> /\ Waiting
    BY <1>6 DEF Set
  <2> HIDE DEF c
  <2>3. BreaksKnown'
    BY <2>1, ReadBreaks DEF StopsKnown, c
  <2>4. (NoStops' <=> NoStops) /\ (\A i : Meets(i)' <=> Meets(i)) /\ (Over' <=> Over)
    BY <1>1, <2>2 DEF NoStops, Meets, Over
  <2>5. ASSUME NEW r \in DOMAIN toServer, Pending(r) PROVE FALSE
    <3>1. r \in Nat /\ r >= 1
      BY EndsType
    <3>2. CASE r = 1
      BY <2>1, <2>5, <3>2 DEF Pending
    <3>3. CASE r > 1
      <4>1. 1 \in 1 .. r - 1
        BY <3>1, <3>3
      <4> QED BY <2>1, <2>5, <4>1 DEF Pending
    <3> QED BY <3>1, <3>2, <3>3
  <2>6. ~Running
    BY <2>2 DEF Running, Waiting
  <2>7. Expects'
    BY <1>1, <2>2, <2>4, <2>5, <2>6 DEF StopsKnown, Expects
  <2>8. HaltIsLast'
    BY <2>2, <2>4 DEF StopsKnown, HaltIsLast
  <2> QED BY <2>3, <2>7, <2>8 DEF StopsKnown
<1>7. ASSUME NEW names, Receives(names), names \cap (Resumes \cup {"SET", "BREAK", "CLEAR"}) = {},
             Waiting, UNCHANGED <<ram, toClient, breakpoints>>,
             Paused => Paused' \/ Over', Over => Over'
      PROVE  StopsKnown'
  <2>1. Head(toServer) \in Command /\ Head(toServer).cmd \in names
    BY <1>7, ReceivesStep
  <2>2. Head(toServer) \notin Changer
    BY <1>7, <2>1, CommandNames DEF Changer
  <2>3. breakpoints' = Applied(Head(toServer), breakpoints)
    BY <1>7, <2>1 DEF Applied
  <2> QED BY <1>7, <2>2, <2>3, ReadStops
<1>8. CASE Unknown
  BY <1>7, <1>8 DEF Unknown, Resumes, Paused, Over
<1>9. CASE State
  BY <1>7, <1>9, DumpingStates DEF State, Resumes, Paused, Over, Waiting
<1>10. CASE Quit
  BY <1>1, <1>7, <1>10 DEF Quit, Resumes, Over
<1>11. CASE BrokenPipe
  BY <1>1, <1>11 DEF BrokenPipe
<1>12. CASE SendCell
  <2>1. PICK m \in Message : Say(m) /\ m \notin Stop
    <3>1. CASE dump \in Cell
      <4>1. [msg |-> "RAM", a |-> dump, v |-> ram[dump]] \in Message \ Stop
        BY <3>1 DEF Types, Message, Cells, Stop, Pause
      <4> QED BY <1>12, <3>1, <4>1 DEF SendCell
    <3>2. CASE dump \notin Cell
      <4>1. [msg |-> "END"] \in Message \ Stop
        BY DEF Message, End, Stop, Pause
      <4> QED BY <1>12, <3>2, <4>1 DEF SendCell
    <3> QED BY <3>1, <3>2
  <2>2. /\ UNCHANGED <<at, ram, breakpoints, toServer>>
        /\ Paused => Paused' 
        /\ Over => Over'
        /\ ~Running
    BY <1>12, DumpingStates DEF SendCell, Paused, Over, Running
  <2>3. /\ NoStops => NoStops'
        /\ (\E i \in DOMAIN toClient : Meets(i)) => (\E i \in DOMAIN toClient : Meets(i))'
        /\ HaltIsLast'
    BY <1>1, <2>1, <2>2, SaidStops DEF StopsKnown
  <2>4. \A r : Pending(r) => Pending(r)'
    BY <1>1, <2>2 DEF Pending
  <2>5. Expects'
    BY <1>1, <2>2, <2>3, <2>4 DEF StopsKnown, Expects
  <2> QED BY <1>1, <2>2, <2>3, <2>5 DEF StopsKnown, BreaksKnown
<1>13. CASE Execute
  <2> DEFINE a == IF ram[at] = "first" THEN 1 ELSE ram[PC] + 1
  <2>1. /\ phase = "execute" /\ phase' = "next" /\ at \in Code /\ ram[at] \in {"next", "first"}
        /\ ram' = [ram EXCEPT ![PC] = IF ram[at] = "first" THEN 0 ELSE @]
        /\ UNCHANGED <<breakpoints, stepMode, toServer, toClient>>
    BY <1>13 DEF Execute
  <2>2. ram'[PC] + 1 = a /\ \A b \in Code : ram'[b] = ram[b]
    BY <2>1, Sizes DEF Types, DebuggerTypeOK, Cell
  <2>3. StopAfter(ram, at, Mode, breakpoints) = IF stepMode THEN a ELSE Stops(ram, breakpoints, a)
    BY <2>1 DEF StopAfter, Mode
  <2> HIDE DEF a
  <2>4. Stops(ram', breakpoints, a) = Stops(ram, breakpoints, a)
    <3> DEFINE c == ram'
    <3>1. \A b \in Code : c[b] = ram[b]
      BY <2>2
    <3> HIDE DEF c
    <3>2. Stops(c, breakpoints, a) = Stops(ram, breakpoints, a)
      BY <3>1, StopsOfCode
    <3> QED BY <3>2 DEF c
  <2>5. Running => Running'
    BY <1>1, <2>1, <2>2, <2>3, <2>4 DEF Running
  <2>6. (NoStops' <=> NoStops) /\ (\A i : Meets(i)' <=> Meets(i)) /\ ~Over /\ ~Paused
    BY <1>1, <2>1 DEF NoStops, Meets, Over, Paused
  <2>7. Expects'
    BY <1>1, <2>1, <2>5, <2>6 DEF StopsKnown, Expects
  <2>8. HaltIsLast'
    BY <2>1, <2>6 DEF StopsKnown, HaltIsLast
  <2> QED BY <1>1, <2>1, <2>7, <2>8 DEF StopsKnown, BreaksKnown
<1>14. CASE Halt
  <2> DEFINE m == [msg |-> "HALTED"]
  <2>1. m \in Message /\ m \in Stop /\ m \in Halted /\ m \notin Pause
    BY DEF Message, Stop, Halted, Pause
  <2>2. /\ phase = "execute" /\ phase' = "halted" /\ at \in Code /\ ram[at] = "halt" /\ Say(m)
        /\ UNCHANGED <<breakpoints, toServer>>
    BY <1>14 DEF Halt
  <2> HIDE DEF m
  <2>3. ~Over /\ Over' /\ ~Paused
    BY <2>2 DEF Over, Paused
  <2>4. Running => client.expect = AtHalt
    BY <2>2 DEF Running, StopAfter
  <2>5. HaltIsLast' /\ (NoStops /\ client.expect = AtHalt => (\E i \in DOMAIN toClient : Meets(i))')
    BY <1>1, <2>1, <2>2, <2>3, SaysStop DEF StopsKnown
  <2>6. (\E i \in DOMAIN toClient : Meets(i)) => (\E i \in DOMAIN toClient : Meets(i))'
    BY <1>1, <2>1, <2>2, <2>3, SaidStops
  <2>7. Expects'
    BY <1>1, <2>3, <2>4, <2>5, <2>6 DEF StopsKnown, Expects
  <2> QED BY <1>1, <2>2, <2>5, <2>7 DEF StopsKnown, BreaksKnown
<1>15. CASE StopSilently
  <2>1. /\ phase = "execute" /\ phase' = "ended"
        /\ UNCHANGED <<breakpoints, toServer, toClient>>
    BY <1>15 DEF StopSilently
  <2>2. (NoStops' <=> NoStops) /\ (\A i : Meets(i)' <=> Meets(i)) /\ ~Over /\ Over' /\ ~Paused
    BY <1>1, <2>1 DEF NoStops, Meets, Over, Paused
  <2>3. Expects'
    BY <1>1, <2>1, <2>2 DEF StopsKnown, Expects
  <2>4. HaltIsLast'
    BY <2>1, <2>2 DEF StopsKnown, HaltIsLast
  <2> QED BY <1>1, <2>1, <2>3, <2>4 DEF StopsKnown, BreaksKnown
<1> QED BY <1>2, <1>3, <1>4, <1>5, <1>6, <1>8, <1>9, <1>10, <1>11, <1>12, <1>13, <1>14, <1>15 DEF Server

\* A client that has heard of every pause it asked for: no stop is on its way,
\* and the last one was at the address where the CPU stands
LEMMA NothingAhead ==
    ASSUME Types, PausesCounted, client.ahead = -1
    PROVE  NoStops /\ (Paused \/ phase = "ended") /\ client.stop = at
<1>1. /\ Owed \in Nat /\ Num(toClient, Pause, Len(toClient)) \in Nat
      /\ Num(toServer, Resumer, Len(toServer)) \in Nat
  BY OwedType
<1>2. (Paused \/ phase = "ended") /\ Owed = 0 /\ LastStopIsAt
  BY <1>1 DEF PausesCounted
<1>3. Num(toClient, Pause, Len(toClient)) = 0
  BY <1>1, <1>2 DEF Owed
<1>4. Len(toClient) \in Nat /\ DOMAIN toClient = 1 .. Len(toClient)
  BY EndsType
<1>5. ASSUME NEW i \in DOMAIN toClient, toClient[i] \in Stop PROVE FALSE
  <2> DEFINE S == {n \in Nat : Len(toClient) - n \in DOMAIN toClient /\ toClient[Len(toClient) - n] \in Stop}
  <2>1. Len(toClient) - i \in S
    <3>1. Len(toClient) - (Len(toClient) - i) = i /\ Len(toClient) - i \in Nat
      BY <1>4
    <3> QED BY <1>5, <3>1
  <2>2. PICK n \in S : \A y \in S : n <= y
    <3>1. S # {} /\ S \in SUBSET Nat
      BY <2>1
    <3> HIDE DEF S
    <3> QED BY <3>1, LeastElement
  <2>3. PICK l \in DOMAIN toClient : l = Len(toClient) - n /\ toClient[l] \in Stop
    BY <2>2
  <2>4. ASSUME NEW j \in l + 1 .. Len(toClient) PROVE toClient[j] \notin Stop
    <3>1. /\ Len(toClient) - j \in Nat /\ Len(toClient) - j < n
          /\ Len(toClient) - (Len(toClient) - j) = j /\ j \in DOMAIN toClient
      BY <1>4, <2>3
    <3>2. Len(toClient) - j \notin S
      BY <2>2, <3>1
    <3> QED BY <3>1, <3>2
  <2>5. toClient[l] \in Pause
    BY <1>2, <2>3, <2>4 DEF LastStopIsAt
  <2>6. /\ Num(toClient, Pause, l - 1) + 1 = Num(toClient, Pause, l)
        /\ Num(toClient, Pause, l) <= Num(toClient, Pause, Len(toClient))
    BY <1>4, <2>5, NumAt
  <2>7. Num(toClient, Pause, l - 1) \in Nat
    <3>1. l - 1 \in Nat
      BY <1>4
    <3> QED BY <3>1, NumIsFinite
  <2> QED BY <1>3, <2>6, <2>7
<1>6. NoStops
  BY <1>5 DEF NoStops
<1> QED BY <1>2, <1>6 DEF LastStopIsAt, NoStops

\* What the client expects is where the CPU will stop
LEMMA ExpectedIs ==
    ASSUME Types, PausesCounted, FreshKept, BreaksKnown, NEW c
    PROVE  \/ Expected(c) = Anywhere
           \/ /\ client.ahead = -1 /\ NoChange(0)
              /\ Expected(c) = StopAfter(ram, at, c, After(toServer, breakpoints, Len(toServer)))
<1>1. CASE client.ahead # -1 \/ ~client.fresh
  BY <1>1 DEF Expected
<1>2. CASE ~(client.ahead # -1 \/ ~client.fresh)
  <2>1. client.stop = at
    BY <1>2, NothingAhead
  <2>2. NoChange(0) /\ client.shown = ram
    <3>1. Fresh
      <4>1. client.fresh \in BOOLEAN
        BY DEF Types
      <4> QED BY <1>2, <4>1, Zenon DEF Fresh
    <3> QED BY <3>1 DEF FreshKept
  <2>3. client.breaks = After(toServer, breakpoints, Len(toServer))
    BY DEF BreaksKnown
  <2>4. Expected(c) = StopAfter(ram, at, c, client.breaks)
    BY <1>2, <2>1, <2>2 DEF Expected, StopAfter
  <2> QED BY <1>2, <2>2, <2>3, <2>4
<1> QED BY <1>1, <1>2

\* A request keeps the stops
LEMMA SendKeepsStops ==
    ASSUME Types, Types', PausesCounted, ViewKept, StopsKnown, NEW c \in Command, Send(c)
    PROVE  StopsKnown'
<1>1. /\ UNCHANGED <<phase, at, ram, breakpoints, toClient>> /\ phase # "ended"
      /\ toServer' = Append(toServer, c) /\ toServer \in Seq(Command)
      /\ breakpoints \in SUBSET Breakable
  BY DEF Send, Connected, Types, DebuggerTypeOK
<1>2. /\ Len(toServer) \in Nat /\ Len(toServer') = Len(toServer) + 1
      /\ toServer'[Len(toServer) + 1] = c
      /\ \A i \in 1 .. Len(toServer) : toServer'[i] = toServer[i]
      /\ DOMAIN toServer = 1 .. Len(toServer) /\ DOMAIN toServer' = 1 .. Len(toServer')
  BY SentNum, EndsType
<1>3. /\ \A n \in 0 .. Len(toServer) :
            After(toServer', breakpoints, n) = After(toServer, breakpoints, n)
      /\ After(toServer', breakpoints, Len(toServer) + 1)
            = Applied(c, After(toServer, breakpoints, Len(toServer)))
  BY <1>1, AfterSent
<1>4. BreaksKnown'
  <2>1. client'.breaks = Applied(c, client.breaks)
    BY SendStep DEF Applied
  <2> QED BY <1>1, <1>2, <1>3, <2>1 DEF StopsKnown, BreaksKnown
<1>5. (NoStops' <=> NoStops) /\ (Over' <=> Over) /\ (Paused' <=> Paused)
  BY <1>1 DEF NoStops, Over, Paused
<1>6. HaltIsLast'
  BY <1>1, <1>5 DEF StopsKnown, HaltIsLast
<1>7. CASE client'.expect = client.expect
  <2>1. ASSUME NEW r \in DOMAIN toServer, Pending(r)
        PROVE  r \in DOMAIN toServer' /\ Pending(r)'
    <3>1. /\ r \in DOMAIN toServer' /\ toServer'[r] = toServer[r] /\ r - 1 \in 0 .. Len(toServer)
          /\ \A i \in 1 .. r - 1 : toServer'[i] = toServer[i]
      BY <1>2
    <3>2. After(toServer', breakpoints, r - 1) = After(toServer, breakpoints, r - 1)
      BY <1>3, <3>1
    <3> QED BY <1>1, <1>7, <2>1, <3>1, <3>2 DEF Pending
  <2>2. (\A i : Meets(i)' <=> Meets(i)) /\ (Running => Running')
    <3>1. stepMode' = stepMode
      BY DEF Send
    <3> QED BY <1>1, <1>7, <3>1 DEF Meets, Running, Mode
  <2>3. Expects'
    BY <1>1, <1>5, <1>7, <2>1, <2>2 DEF StopsKnown, Expects
  <2> QED BY <1>4, <1>6, <2>3 DEF StopsKnown
<1>8. CASE client'.expect # client.expect
  <2>1. /\ client.ahead = -1 /\ c \in Resumer /\ client'.expect = Expected(c.cmd)
    BY <1>8, SendStep
  <2>2. NoStops /\ Paused
    BY <1>1, <2>1, NothingAhead
  <2>3. CASE client'.expect = Anywhere
    BY <1>4, <1>6, <2>3 DEF StopsKnown, Expects
  <2>4. CASE client'.expect # Anywhere
    <3>1. /\ NoChange(0)
          /\ client'.expect = StopAfter(ram, at, c.cmd, After(toServer, breakpoints, Len(toServer)))
      BY <2>1, <2>4, ExpectedIs DEF StopsKnown, ViewKept
    <3>2. ASSUME NEW r, r = Len(toServer) + 1 PROVE r \in DOMAIN toServer' /\ Pending(r)'
      <4>1. r - 1 = Len(toServer) /\ r \in DOMAIN toServer' /\ toServer'[r] = c
        BY <1>2, <3>2
      <4>2. \A i \in 1 .. r - 1 : toServer'[i] \notin Changer
        BY <1>2, <3>1, <4>1 DEF NoChange
      <4>3. After(toServer', breakpoints, r - 1) = After(toServer, breakpoints, Len(toServer))
        BY <1>2, <1>3, <4>1
      <4> QED BY <1>1, <2>1, <3>1, <4>1, <4>2, <4>3 DEF Pending
    <3>3. Expects'
      BY <1>5, <2>2, <3>2 DEF Expects
    <3> QED BY <1>4, <1>6, <3>3 DEF StopsKnown
  <2> QED BY <2>3, <2>4
<1> QED BY <1>7, <1>8

\* A message that is read keeps the stops
LEMMA ReceiveKeepsStops ==
    ASSUME Types, Types', StopsKnown, Receive
    PROVE  StopsKnown'
<1>1. /\ Len(toClient) \in Nat \ {0} /\ Len(toClient') = Len(toClient) - 1
      /\ \A i \in 1 .. Len(toClient') : toClient'[i] = toClient[i + 1]
      /\ DOMAIN toClient = 1 .. Len(toClient) /\ DOMAIN toClient' = 1 .. Len(toClient')
      /\ Head(toClient) = toClient[1] /\ Head(toClient) \in Message
      /\ UNCHANGED <<phase, at, ram, breakpoints, stepMode, toServer>>
  BY ReceiveStep, EndsType DEF Receive
<1>2. (Over' <=> Over) /\ (Paused' <=> Paused)
  BY <1>1 DEF Over, Paused
<1>3. BreaksKnown'
  <2>1. client'.breaks = client.breaks
    BY ReceiveStep DEF SameExcept, Fields
  <2> QED BY <1>1, <2>1 DEF StopsKnown, BreaksKnown
<1>4. NoStops => NoStops'
  BY <1>1 DEF NoStops
<1>5. HaltIsLast'
  <2> SUFFICES ASSUME NEW i \in DOMAIN toClient', toClient'[i] \in Halted
               PROVE  Over /\ \A j \in i + 1 .. Len(toClient') : toClient'[j] \notin Stop
    BY <1>2 DEF HaltIsLast
  <2>1. i + 1 \in DOMAIN toClient /\ toClient[i + 1] = toClient'[i]
    BY <1>1
  <2>2. Over /\ \A j \in (i + 1) + 1 .. Len(toClient) : toClient[j] \notin Stop
    BY <2>1 DEF StopsKnown, HaltIsLast
  <2>3. ASSUME NEW j \in i + 1 .. Len(toClient') PROVE toClient'[j] \notin Stop
    <3>1. j + 1 \in (i + 1) + 1 .. Len(toClient) /\ j \in 1 .. Len(toClient')
      BY <1>1
    <3> QED BY <1>1, <2>2, <3>1
  <2> QED BY <2>2, <2>3
<1>6. CASE toClient[1] \in Pause
  <2>1. client'.expect = Anywhere
    BY <1>1, <1>6, ReceiveStep DEF Pause, End, Cells
  <2> QED BY <1>3, <1>5, <2>1 DEF StopsKnown, Expects
<1>7. CASE toClient[1] \in Halted
  <2>1. Over /\ \A j \in 1 + 1 .. Len(toClient) : toClient[j] \notin Stop
    BY <1>1, <1>7 DEF StopsKnown, HaltIsLast
  <2>2. NoStops'
    <3> SUFFICES ASSUME NEW i \in DOMAIN toClient' PROVE toClient'[i] \notin Stop
      BY DEF NoStops
    <3>1. i + 1 \in 1 + 1 .. Len(toClient) /\ toClient'[i] = toClient[i + 1]
      BY <1>1
    <3> QED BY <2>1, <3>1
  <2> QED BY <1>2, <1>3, <1>5, <2>1, <2>2 DEF StopsKnown, Expects
<1>8. CASE toClient[1] \notin Stop
  <2>1. client'.expect = client.expect
    BY <1>1, <1>8, ReceiveStep DEF Stop, SameExcept, Fields
  <2>2. ASSUME NEW i \in DOMAIN toClient, Meets(i)
        PROVE  \E k \in DOMAIN toClient' : Meets(k)'
    <3>1. i # 1
      BY <1>8, <2>2 DEF Meets, Stop, Halted
    <3>2. i - 1 \in DOMAIN toClient' /\ toClient'[i - 1] = toClient[i]
      BY <1>1, <3>1
    <3>3. ASSUME NEW j \in 1 .. (i - 1) - 1 PROVE toClient'[j] \notin Stop
      <4>1. j + 1 \in 1 .. i - 1 /\ j \in 1 .. Len(toClient')
        BY <1>1
      <4> QED BY <1>1, <2>2, <4>1 DEF Meets
    <3>4. \A k : k = i - 1 => Meets(k)'
      BY <2>1, <2>2, <3>2, <3>3 DEF Meets
    <3> QED BY <3>2, <3>4
  <2>3. \A r : Pending(r) => Pending(r)'
    BY <1>1, <2>1 DEF Pending
  <2>4. Running => Running'
    BY <1>1, <2>1 DEF Running, Mode
  <2>5. Expects'
    BY <1>1, <1>2, <1>4, <2>1, <2>2, <2>3, <2>4 DEF StopsKnown, Expects
  <2> QED BY <1>3, <1>5, <2>5 DEF StopsKnown
<1> QED BY <1>6, <1>7, <1>8 DEF Stop, Halted

\* The steps of the client keep the stops
LEMMA ClientKeepsStops ==
    ASSUME Types, Types', Hears', PausesCounted, ViewKept, StopsKnown, Client
    PROVE  StopsKnown'
<1>1. CASE Connect
  <2>1. /\ client'.expect = client.expect /\ client'.breaks = client.breaks
        /\ UNCHANGED <<phase, at, ram, breakpoints, stepMode, toServer, toClient>>
    BY <1>1, ConnectStep DEF SameExcept, Fields
  <2>2. (NoStops' <=> NoStops) /\ (Paused' <=> Paused) /\ (Over' <=> Over) /\ (Running' <=> Running)
    BY <2>1 DEF NoStops, Paused, Over, Running, Mode
  <2>3. (\A r : Pending(r)' <=> Pending(r)) /\ (\A i : Meets(i)' <=> Meets(i))
    BY <2>1 DEF Pending, Meets
  <2>4. Expects' /\ HaltIsLast'
    BY <2>1, <2>2, <2>3 DEF StopsKnown, Expects, HaltIsLast
  <2> QED BY <2>1, <2>4 DEF StopsKnown, BreaksKnown
<1>2. CASE HangUp
  BY <1>2, HangUpEnds
<1>3. CASE Receive
  BY <1>3, ReceiveKeepsStops
<1>4. ASSUME NEW c \in Command, Send(c) PROVE StopsKnown'
  BY <1>4, SendKeepsStops
<1> QED BY <1>1, <1>2, <1>3, <1>4 DEF Client

-----------------------------------------------------------------------------
(* The invariant.  When the client has hung up nothing holds of the lines that *)
(* the server did not send, but the client hears no more either                *)

\* The name of a message tells which stop it announces
LEMMA MessageNames ==
    ASSUME NEW m \in Message
    PROVE  /\ m.msg = "PAUSED" <=> m \in Pause
           /\ m.msg = "HALTED" <=> m \in Halted
           /\ m.msg \in {"PAUSED", "HALTED"} <=> m \in Stop
BY DEF Message, Stop, Pause, Halted, End, Cells

IInv ==
    /\ Types
    /\ StopsAsExpected
    /\ Hears => PausesCounted /\ ViewKept /\ StopsKnown

\* What the invariant says of a stop is what the property asks for
LEMMA KnownStops == Types /\ StopsKnown => StopsAsExpected
<1> SUFFICES ASSUME Types, StopsKnown,
                    NEW i \in DOMAIN toClient, client.expect # Anywhere,
                    \A j \in 1 .. i - 1 : toClient[j].msg \notin {"PAUSED", "HALTED"}
             PROVE  /\ toClient[i].msg = "PAUSED" => client.expect = toClient[i].a
                    /\ toClient[i].msg = "HALTED" => client.expect = AtHalt
  BY DEF StopsAsExpected
<1>1. /\ Len(toClient) \in Nat /\ DOMAIN toClient = 1 .. Len(toClient)
      /\ \A j \in DOMAIN toClient : toClient[j] \in Message
  BY EndsType DEF Types
<1>2. CASE toClient[i] \notin Stop
  BY <1>1, <1>2, MessageNames
<1>3. CASE toClient[i] \in Stop
  <2>1. PICK k \in DOMAIN toClient : Meets(k)
    BY <1>3 DEF StopsKnown, Expects, NoStops
  <2>2. ~(i < k)
    <3>1. i < k => i \in 1 .. k - 1
      BY <1>1
    <3> QED BY <1>3, <2>1, <3>1 DEF Meets
  <2>3. ~(k < i)
    <3>1. k < i => k \in 1 .. i - 1
      BY <1>1
    <3>2. toClient[k] \in Stop
      BY <2>1 DEF Meets, Stop, Halted
    <3> QED BY <1>1, <3>1, <3>2, MessageNames
  <2>4. k = i
    BY <1>1, <2>2, <2>3
  <2>5. (toClient[i] \in Pause /\ toClient[i].a = client.expect)
        \/ (toClient[i] \in Halted /\ client.expect = AtHalt)
    BY <2>1, <2>4 DEF Meets
  <2> QED BY <2>5 DEF Pause, Halted
<1> QED BY <1>2, <1>3

\* The invariant holds in the initial state
LEMMA InitKnown == Init => IInv
<1> SUFFICES ASSUME Init PROVE IInv
  OBVIOUS
<1>1. Types
  BY InitTypes
<1>2. /\ phase = "listening" /\ toServer = <<>> /\ toClient = <<>> /\ breakpoints = {}
      /\ client.ahead = 0 /\ client.expect = Anywhere /\ client.breaks = {}
      /\ client.asked = <<>> /\ client.fresh = FALSE
  BY DEF Init
<1>3. /\ Len(toServer) = 0 /\ Len(toClient) = 0 /\ DOMAIN toServer = {} /\ DOMAIN toClient = {}
      /\ Len(client.asked) = 0 /\ DOMAIN client.asked = {}
  BY <1>2
<1>4. \A q, S : Num(q, S, 0) = 0
  BY NumStep
<1>5. Ends = 0 /\ Begun = 0 /\ Owed = 0 /\ Num(toServer, Asker, Len(toServer)) = 0
  BY <1>2, <1>3, <1>4 DEF Ends, Begun, Dumps, Owed
<1>6. PausesCounted
  BY <1>2, <1>5 DEF PausesCounted
<1>7. ViewKept
  <2>1. AnswersCounted
    BY <1>3, <1>5 DEF AnswersCounted
  <2>2. \A k : ~Clean(k)
    BY <1>3 DEF Clean
  <2>3. FreshKept
    BY <1>2 DEF FreshKept, Fresh
  <2> QED BY <1>3, <2>1, <2>2, <2>3
          DEF ViewKept, BegunKept, AskedKept, CellsKept, EndsKept, DumpKept
<1>8. StopsKnown
  <2>1. BreaksKnown
    BY <1>2, <1>3, AfterNone DEF BreaksKnown
  <2> QED BY <1>2, <1>3, <2>1 DEF StopsKnown, Expects, HaltIsLast
<1> QED BY <1>1, <1>6, <1>7, <1>8, KnownStops DEF IInv

\* What bounds the counters of the client
LEMMA KnownIsBounded == IInv => Bounded
<1> SUFFICES ASSUME IInv, client.open PROVE Bounded
  BY DEF Bounded
<1>1. Types /\ PausesCounted /\ ViewKept
  BY DEF IInv, Hears
<1>2. client.ahead >= Num(toClient, Pause, Len(toClient)) - 1
  <2>1. /\ Owed \in Nat /\ client.ahead \in Int
        /\ Num(toServer, Resumer, Len(toServer)) \in Nat
        /\ Num(toClient, Pause, Len(toClient)) \in Nat
    BY <1>1, OwedType
  <2> QED BY <1>1, <2>1 DEF PausesCounted, Owed
<1>3. ASSUME toClient # <<>>, Head(toClient) \in End PROVE client.asked # <<>>
  <2>1. /\ Len(toClient) \in Nat \ {0} /\ DOMAIN toClient = 1 .. Len(toClient)
        /\ Head(toClient) = toClient[1] /\ Ends \in Nat /\ Len(toServer) \in Nat
    BY <1>1, <1>3, EndsType DEF Types
  <2>2. Ends > 0
    <3>1. Num(toClient, End, 1 - 1) + 1 = Num(toClient, End, 1)
          /\ Num(toClient, End, 1) <= Num(toClient, End, Len(toClient))
      BY <1>3, <2>1, NumAt
    <3>2. Num(toClient, End, 1 - 1) \in Nat
      <4>1. 1 - 1 \in Nat
        OBVIOUS
      <4> QED BY <4>1, NumIsFinite
    <3> QED BY <2>1, <3>1, <3>2 DEF Ends
  <2>3. Num(toServer, Asker, Len(toServer)) \in Nat
    BY <2>1, NumIsFinite
  <2>4. Len(client.asked) > 0
    BY <1>1, <2>1, <2>2, <2>3 DEF ViewKept, AnswersCounted, Begun
  <2> QED BY <2>4
<1> QED BY <1>2, <1>3 DEF Bounded

\* A client that has hung up knows what it knew
LEMMA HungUp ==
    ASSUME Types, Next, ~Hears'
    PROVE  toClient' = toClient /\ client'.expect = client.expect
<1>1. CASE Server
  <2>1. client' = client
    BY <1>1, DumpingStates
       DEF Server, Accept, CheckBreakpoint, Resume, SetBreakpoint, Set, Unknown, State,
           SendCell, Quit, BrokenPipe, Execute, Halt, StopSilently, Waiting, Receives
  <2>2. ~client.open
    BY <2>1 DEF Hears
  <2>3. toClient' = toClient
    BY <1>1, <2>2
       DEF Server, Accept, CheckBreakpoint, Resume, SetBreakpoint, Set, Unknown, State,
           SendCell, Quit, BrokenPipe, Execute, Halt, StopSilently, Waiting, Receives, Say
  <2> QED BY <2>1, <2>3
<1>2. CASE Connect
  <2>1. client'.open = TRUE
    <3>1. client = [f \in Fields |-> client[f]]
      BY DEF Types
    <3> QED BY <1>2, <3>1 DEF Connect, Fields
  <2> QED BY <2>1 DEF Hears
<1>3. CASE HangUp
  <2>1. client = [f \in Fields |-> client[f]]
    BY DEF Types
  <2> QED BY <1>3, <2>1 DEF HangUp, Fields
<1>4. CASE Receive
  <2>1. client'.open = client.open
    BY <1>4, ReceiveStep DEF SameExcept, Fields
  <2> QED BY <1>4, <2>1 DEF Receive, Hears
<1>5. ASSUME NEW c \in Command, Send(c) PROVE FALSE
  <2>1. client'.open = client.open
    BY <1>5, SendStep DEF SameExcept, Fields
  <2> QED BY <1>5, <2>1 DEF Send, Connected, Hears
<1> QED BY <1>1, <1>2, <1>3, <1>4, <1>5 DEF Next, Client

\* Every step keeps it
LEMMA NextKnown == IInv /\ [Next]_vars => IInv'
<1> SUFFICES ASSUME IInv, [Next]_vars PROVE IInv'
  OBVIOUS
<1>1. CASE UNCHANGED vars
  <2>1. UNCHANGED <<phase, at, ram, breakpoints, stepMode, dump, toServer, toClient, client>>
    BY <1>1 DEF vars
  <2>2. Types' <=> Types
    BY <2>1 DEF Types, DebuggerTypeOK
  <2>3. StopsAsExpected' <=> StopsAsExpected
    BY <2>1 DEF StopsAsExpected
  <2>4. Hears' <=> Hears
    BY <2>1 DEF Hears
  <2>5. PausesCounted' <=> PausesCounted
    BY <2>1 DEF PausesCounted, Paused, Owed, LastStopIsAt
  <2>6. ViewKept' <=> ViewKept
    <3>1. /\ Ends' = Ends /\ Begun' = Begun /\ (\A k : Clean(k)' <=> Clean(k)) /\ (Fresh' <=> Fresh)
          /\ (Still' <=> Still) /\ (Dumps' <=> Dumps) /\ (\A n : NoChange(n)' <=> NoChange(n))
      BY <2>1 DEF Ends, Begun, Dumps, Still, Clean, Fresh, NoChange
    <3>2. \A k, b : Complete(k, b)' <=> Complete(k, b)
      BY <2>1 DEF Complete, LineOf
    <3>3. /\ AnswersCounted' <=> AnswersCounted
          /\ FreshKept' <=> FreshKept
          /\ BegunKept' <=> BegunKept
      BY <2>1, <3>1 DEF AnswersCounted, FreshKept, BegunKept
    <3>4. AskedKept' <=> AskedKept
      BY <2>1, <3>1 DEF AskedKept
    <3>5. CellsKept' <=> CellsKept
      BY <2>1, <3>1 DEF CellsKept
    <3>6. /\ EndsKept' <=> EndsKept
          /\ DumpKept' <=> DumpKept
      BY <2>1, <3>1, <3>2 DEF EndsKept, DumpKept
    <3> QED BY <3>3, <3>4, <3>5, <3>6 DEF ViewKept
  <2>7. StopsKnown' <=> StopsKnown
    <3>1. /\ NoStops' <=> NoStops
          /\ Paused' <=> Paused
          /\ Over' <=> Over
          /\ Running' <=> Running
          /\ \A r : Pending(r)' <=> Pending(r)
          /\ \A i : Meets(i)' <=> Meets(i)
      BY <2>1 DEF NoStops, Paused, Over, Running, Mode, Pending, Meets
    <3>2. /\ Expects' <=> Expects
          /\ HaltIsLast' <=> HaltIsLast
          /\ BreaksKnown' <=> BreaksKnown
      BY <2>1, <3>1 DEF Expects, HaltIsLast, BreaksKnown
    <3> QED BY <3>2 DEF StopsKnown
  <2> QED BY <2>2, <2>3, <2>4, <2>5, <2>6, <2>7 DEF IInv
<1>2. CASE Next
  <2>1. Types /\ StopsAsExpected /\ Bounded
    BY KnownIsBounded DEF IInv
  <2>2. Types'
    BY <1>2, <2>1, ServerTypes, ClientTypes DEF Next
  <2>3. CASE Hears'
    <3>1. Hears
      <4>1. Server => Hears
        BY <2>1, <2>3, ServerHears
      <4>2. Client => Hears
        BY DEF Client, Connect, Send, Connected, Receive, HangUp, Hears
      <4> QED BY <1>2, <4>1, <4>2 DEF Next
    <3>2. PausesCounted /\ ViewKept /\ StopsKnown
      BY <3>1 DEF IInv
    <3>3. PausesCounted'
      BY <1>2, <2>1, <2>2, <2>3, <3>2, ServerCounts, ClientCounts DEF Next
    <3>4. ViewKept'
      BY <1>2, <2>1, <2>2, <2>3, <3>2, ServerKeepsView, ClientKeepsView DEF Next
    <3>5. StopsKnown'
      BY <1>2, <2>1, <2>2, <2>3, <3>2, ServerKeepsStops, ClientKeepsStops DEF Next
    <3>6. StopsAsExpected'
      <4>1. (Types /\ StopsKnown => StopsAsExpected)'
        BY KnownStops, PTL
      <4> QED BY <2>2, <3>5, <4>1
    <3> QED BY <2>2, <3>3, <3>4, <3>5, <3>6 DEF IInv
  <2>4. CASE ~Hears'
    <3>1. toClient' = toClient /\ client'.expect = client.expect
      BY <1>2, <2>1, <2>4, HungUp
    <3>2. StopsAsExpected'
      BY <2>1, <3>1 DEF StopsAsExpected
    <3> QED BY <2>2, <2>4, <3>2 DEF IInv
  <2> QED BY <2>3, <2>4
<1> QED BY <1>1, <1>2

\* It is an invariant of the specification
LEMMA Known == Spec => []IInv
BY InitKnown, NextKnown, PTL DEF Spec

-----------------------------------------------------------------------------
(* The theorems                                                               *)

\* The counters of the client, the registers and the lines stay in their ranges.
\* Of the resumes at most one has not been sent when its PAUSED arrives: no
\* command but CONTINUE and STEP lets the CPU go on.
THEOREM TypesHold == Spec => []DebuggerTypeOK
<1>1. IInv => DebuggerTypeOK
  BY DEF IInv, Types
<1> QED BY <1>1, Known, PTL

\* What the client was told last is so as long as it sends nothing that changes
\* it, for every RAM and every number of commands and answers on their way.
THEOREM ClientIsUpToDate == Spec => []ViewIsCurrent
<1>1. IInv => ViewIsCurrent
  <2> SUFFICES ASSUME IInv, client.open
               PROVE  /\ client.ahead = -1 =>
                             /\ phase \in {"paused", "dump paused", "ended"}
                             /\ client.stop = at
                      /\ client.fresh => client.shown = ram
    BY DEF ViewIsCurrent
  <2>1. Types /\ PausesCounted /\ ViewKept
    BY DEF IInv, Hears
  <2>2. ASSUME client.ahead = -1
        PROVE  phase \in {"paused", "dump paused", "ended"} /\ client.stop = at
    BY <2>1, <2>2, NothingAhead DEF Paused
  <2>3. ASSUME client.fresh PROVE client.shown = ram
    <3>1. Fresh
      <4>1. client.fresh \in BOOLEAN
        BY <2>1 DEF Types
      <4> QED BY <2>3, <4>1, Zenon DEF Fresh
    <3> QED BY <2>1, <3>1 DEF ViewKept, FreshKept
  <2> QED BY <2>2, <2>3
<1> QED BY <1>1, Known, PTL

\* A stop is where the client expected it, for every program: STEP executes one
\* instruction and CONTINUE all up to the breakpoints that the client named by
\* then, whatever else is on its way.
THEOREM ClientIsRight == Spec => []StopsAsExpected
<1>1. IInv => StopsAsExpected
  BY DEF IInv
<1> QED BY <1>1, Known, PTL
=============================================================================
