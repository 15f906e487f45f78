---------------------------- MODULE ProcessProofs ----------------------------
(***************************************************************************)
(* Proofs about what is built over Processes: the registers of each        *)
(* process, for every number of processes and blocks and whatever words    *)
(* hold, and its descriptors, for lists of any length: none leaks as long  *)
(* as so few are open that none can be taken for the number of a column.   *)
(***************************************************************************)
EXTENDS Context, Descriptors, Lemmas

-----------------------------------------------------------------------------
(* The processes *)

\* Pids are below the last one born, and the CPU belongs to a live process
ProcessesOK ==
    /\ born \in Nat
    /\ alive \subseteq 1 .. born
    /\ waiting \subseteq alive
    /\ running \in alive \cup {0}

\* A pid that is given is new
LEMMA NewPid == ProcessesOK => born + 1 \notin alive /\ born + 1 # 0 /\ 0 \notin alive
BY DEF ProcessesOK

\* The process that is chosen is alive, or there is none
LEMMA ChooseType ==
    ASSUME NEW P \in SUBSET Nat, NEW W \in SUBSET P, Choose(P, W)
    PROVE  alive' = P /\ waiting' \subseteq alive' /\ running' \in alive' \cup {0}
BY DEF Choose

\* A step of the context is a step of the processes, or leaves them alone
ProcessStep == Next \/ UNCHANGED vars

\* Every step of Context is one of Processes
LEMMA ContextStepsProcesses == [CNext]_cvars => ProcessStep
BY DEF CNext, cvars, ProcessStep, Next, Instruction, Store, SysCall, SysWait,
       SysLoad, SysKill, SysExit, Preempt, ShellRun, ShellLoad, ShellExec

\* The initial processes
LEMMA ProcessesInit == Init => ProcessesOK
BY DEF Init, ProcessesOK

\* Every step keeps them
LEMMA ProcessesNext == ProcessesOK /\ ProcessStep => ProcessesOK'
<1> SUFFICES ASSUME ProcessesOK, ProcessStep PROVE ProcessesOK'
  OBVIOUS
<1>1. /\ born \in Nat /\ alive \subseteq 1 .. born /\ waiting \subseteq alive
      /\ running \in alive \cup {0}
      /\ 1 .. born \subseteq 1 .. born + 1 /\ born + 1 \in 1 .. born + 1
      /\ 1 .. born \subseteq Nat /\ 1 .. born + 1 \subseteq Nat
  BY DEF ProcessesOK
<1>2. CASE Create
  BY <1>1, <1>2 DEF Create, Birth, ProcessesOK
<1>3. CASE Launch
  <2>1. /\ alive' = alive \cup {born + 1} /\ waiting' \subseteq alive'
        /\ running' \in alive' \cup {0}
    BY <1>1, <1>3, ChooseType DEF Launch
  <2> QED BY <1>1, <1>3, <2>1 DEF Launch, Birth, ProcessesOK
<1>4. CASE Switch
  <2>1. /\ alive' = alive /\ waiting' \subseteq alive'
        /\ running' \in alive' \cup {0}
    BY <1>1, <1>4, ChooseType DEF Switch
  <2> QED BY <1>1, <1>4, <2>1 DEF Switch, ProcessesOK
<1>5. CASE Wait
  BY <1>1, <1>5 DEF Wait, ProcessesOK
<1>6. CASE End
  <2>1. waiting \subseteq alive \ {running}
    BY <1>1, <1>6 DEF End
  <2>2. /\ alive' = alive \ {running} /\ waiting' \subseteq alive'
        /\ running' \in alive' \cup {0}
    BY <1>1, <1>6, <2>1, ChooseType DEF End
  <2> QED BY <1>1, <1>6, <2>2 DEF End, ProcessesOK
<1>7. CASE Kill
  BY <1>1, <1>7 DEF Kill, ProcessesOK
<1>8. CASE UNCHANGED vars
  BY <1>1, <1>8 DEF vars, ProcessesOK
<1> QED BY <1>2, <1>3, <1>4, <1>5, <1>6, <1>7, <1>8 DEF ProcessStep, Next

-----------------------------------------------------------------------------
(* Types *)

\* The invariant behind the types and the privacy: two processes never share a
\* block
IInv ==
    /\ ProcessesOK
    /\ ContextTypeOK
    /\ \A p, q \in alive : at[p] = at[q] => p = q

\* The words of a context
LEMMA Words == Reg \ {"PC"} \subseteq Cell /\ "Top" \notin Reg /\ "PC" \notin Cell
BY DEF Reg, Cell

\* A backup has its type
LEMMA BackupType ==
    ASSUME ContextTypeOK, running \in alive, NEW saved \in SUBSET (Reg \ {"PC"})
    PROVE  Backup(saved) \in [Block -> [Cell -> Val]]
BY Words DEF ContextTypeOK, Backup

\* A return leaves the registers of their types
LEMMA ReturnsType ==
    ASSUME ContextTypeOK, NEW res \in Written, Returns(res)
    PROVE  reg' \in [Reg -> Val]
BY ContextConstants DEF ContextTypeOK, Returns

\* A load gives the new process a block of its own
LEMMA LoadsType ==
    ASSUME IInv, NEW m \in [Block -> [Cell -> Val]], Loads(m),
           alive' = alive \cup {born + 1}
    PROVE  /\ ram' \in [Block -> [Cell -> Val]]
           /\ at' \in [alive' -> Block] /\ pcbPc' \in [alive' -> Val]
           /\ \A p, q \in alive' : at'[p] = at'[q] => p = q
           /\ \A p \in alive : at'[p] = at[p] /\ pcbPc'[p] = pcbPc[p]
<1>1. PICK b \in Block \ {at[p] : p \in alive}, arg \in Written :
        /\ ram' = [m EXCEPT ![b] = [w \in Cell |-> IF w = "A" THEN arg ELSE @[w]]]
        /\ at' = [p \in alive \cup {born + 1} |-> IF p \in alive THEN at[p] ELSE b]
        /\ pcbPc' = [p \in alive \cup {born + 1} |->
                        IF p \in alive THEN pcbPc[p] ELSE Entry]
  BY DEF Loads
<1>2. ram' \in [Block -> [Cell -> Val]]
  BY <1>1, ContextConstants
<1>3. at' \in [alive' -> Block] /\ pcbPc' \in [alive' -> Val]
  BY <1>1, ContextConstants DEF IInv, ContextTypeOK
<1>4. \A p, q \in alive' : at'[p] = at'[q] => p = q
  BY <1>1 DEF IInv
<1> QED BY <1>1, <1>2, <1>3, <1>4

\* The end of a program leaves the blocks of the others
LEMMA CleansType ==
    ASSUME IInv, NEW m \in [Block -> [Cell -> Val]], NEW p \in alive, Cleans(m, p),
           alive' = alive \ {p}
    PROVE  /\ ram' \in [Block -> [Cell -> Val]]
           /\ at' \in [alive' -> Block] /\ pcbPc' \in [alive' -> Val]
           /\ \A q, r \in alive' : at'[q] = at'[r] => q = r
           /\ \A q \in alive' : at'[q] = at[q] /\ pcbPc'[q] = pcbPc[q]
<1>1. ram' \in [Block -> [Cell -> Val]]
  BY ContextConstants DEF Cleans
<1>2. at' \in [alive' -> Block] /\ pcbPc' \in [alive' -> Val]
  BY DEF Cleans, IInv, ContextTypeOK
<1> QED BY <1>1, <1>2 DEF Cleans, IInv

\* The registers that are restored have their types
LEMMA ResumeType ==
    ASSUME ram' \in [Block -> [Cell -> Val]], at' \in [alive' -> Block],
           pcbPc' \in [alive' -> Val], running' \in alive' \cup {0}, Resume
    PROVE  reg' \in [Reg -> Val]
<1>1. ASSUME NEW w \in Reg
      PROVE  (IF running' = 0 THEN Blank ELSE IF w = "PC" THEN pcbPc'[running']
              ELSE ram'[at'[running']][w]) \in Val
  <2>1. w # "PC" => w \in Cell
    BY Words
  <2> QED BY <2>1, ContextConstants
<1> QED BY <1>1 DEF Resume

\* The types hold in the initial state
LEMMA IInvInit == CInit => IInv
<1> SUFFICES ASSUME CInit PROVE IInv
  OBVIOUS
<1>1. alive = {} /\ waiting = {} /\ running = 0 /\ born = 0
  BY DEF CInit, Init
<1>2. ProcessesOK
  BY ProcessesInit DEF CInit
<1> QED BY <1>1, <1>2, ContextConstants DEF CInit, IInv, ContextTypeOK

\* Every step keeps them
LEMMA IInvNext == IInv /\ [CNext]_cvars => IInv'
<1> SUFFICES ASSUME IInv, [CNext]_cvars PROVE IInv'
  OBVIOUS
<1>1. ProcessesOK /\ ProcessesOK' /\ ContextTypeOK
  BY ContextStepsProcesses, ProcessesNext DEF IInv
<1>2. /\ alive' \subseteq 1 .. born' /\ waiting' \subseteq alive'
      /\ running' \in alive' \cup {0} /\ running \in alive \cup {0}
      /\ 0 \notin alive
  BY <1>1 DEF ProcessesOK
<1>3. SUFFICES /\ reg' \in [Reg -> Val] /\ ram' \in [Block -> [Cell -> Val]]
               /\ at' \in [alive' -> Block] /\ pcbPc' \in [alive' -> Val]
               /\ \A p, q \in alive' : at'[p] = at'[q] => p = q
  BY <1>1, <1>2 DEF IInv, ContextTypeOK
<1>4. /\ reg \in [Reg -> Val] /\ ram \in [Block -> [Cell -> Val]]
      /\ at \in [alive -> Block] /\ pcbPc \in [alive -> Val]
      /\ \A p, q \in alive : at[p] = at[q] => p = q
  BY DEF IInv, ContextTypeOK
<1>5. /\ SavedBySysCall \in SUBSET (Reg \ {"PC"})
      /\ SavedByInterrupt \in SUBSET (Reg \ {"PC"})
  BY DEF SavedBySysCall, SavedByInterrupt
<1>6. running \in alive =>
        /\ Backup(SavedBySysCall) \in [Block -> [Cell -> Val]]
        /\ Backup(SavedByInterrupt) \in [Block -> [Cell -> Val]]
  BY <1>1, <1>5, BackupType
<1>7. CASE Instruction
  BY <1>4, <1>7, ContextConstants DEF Instruction, vars
<1>8. CASE Store
  <2>1. PICK v \in Written : ram' = [ram EXCEPT ![at[running]]["Top"] = v]
    BY <1>8 DEF Store
  <2>2. ram' \in [Block -> [Cell -> Val]]
    BY <1>4, <2>1, ContextConstants
  <2> QED BY <1>4, <1>8, <2>2 DEF Store, vars
<1>9. CASE SysCall
  <2>1. running \in alive /\ alive' = alive /\ at' = at /\ pcbPc' = pcbPc
    BY <1>9 DEF SysCall, Runs, vars
  <2> QED BY <1>1, <1>4, <1>6, <1>9, <2>1, ReturnsType DEF SysCall
<1>10. CASE SysWait
  <2>1. running \in alive /\ alive' = alive /\ at' = at /\ pcbPc' = pcbPc
    BY <1>10 DEF SysWait, Wait
  <2> QED BY <1>1, <1>4, <1>6, <1>10, <2>1, ReturnsType DEF SysWait
<1>11. CASE SysLoad
  <2>1. running \in alive /\ alive' = alive \cup {born + 1}
    BY <1>2, <1>11 DEF SysLoad, Create
  <2> QED BY <1>1, <1>6, <1>11, <2>1, ReturnsType, LoadsType DEF SysLoad
<1>12. CASE SysKill
  <2>1. PICK p \in alive \ alive' : Cleans(Backup(SavedBySysCall), p)
    BY <1>12 DEF SysKill
  <2>2. running \in alive /\ alive' = alive \ {p}
    BY <1>12, <2>1 DEF SysKill, Kill
  <2>3. reg' \in [Reg -> Val]
    BY <1>1, <1>12, ReturnsType DEF SysKill
  <2> QED BY <1>6, <2>1, <2>2, <2>3, CleansType
<1>13. CASE SysExit
  <2>1. running \in alive /\ alive' = alive \ {running}
    BY <1>13 DEF SysExit, End, Choose
  <2>2. /\ ram' \in [Block -> [Cell -> Val]]
        /\ at' \in [alive' -> Block] /\ pcbPc' \in [alive' -> Val]
        /\ \A p, q \in alive' : at'[p] = at'[q] => p = q
    BY <1>6, <1>13, <2>1, CleansType DEF SysExit
  <2> QED BY <1>2, <1>13, <2>2, ResumeType DEF SysExit
<1>14. CASE Preempt
  <2>1. running \in alive /\ alive' = alive /\ at' = at
    BY <1>2, <1>14 DEF Preempt, Switch, Choose
  <2>2. ram' \in [Block -> [Cell -> Val]] /\ pcbPc' \in [alive' -> Val]
    BY <1>4, <1>6, <1>14, <2>1 DEF Preempt, Reg
  <2> QED BY <1>2, <1>4, <1>14, <2>1, <2>2, ResumeType DEF Preempt
<1>15. CASE ShellRun
  <2>1. alive' = alive /\ at' = at /\ ram' = ram /\ pcbPc' = pcbPc
    BY <1>15 DEF ShellRun, Switch, Choose
  <2> QED BY <1>2, <1>4, <1>15, <2>1, ResumeType DEF ShellRun
<1>16. CASE ShellLoad
  <2>1. alive' = alive \cup {born + 1}
    BY <1>16 DEF ShellLoad, Create
  <2> QED BY <1>4, <1>16, <2>1, LoadsType DEF ShellLoad
<1>17. CASE ShellExec
  <2>1. alive' = alive \cup {born + 1}
    BY <1>17 DEF ShellExec, Launch, Choose
  <2>2. /\ ram' \in [Block -> [Cell -> Val]]
        /\ at' \in [alive' -> Block] /\ pcbPc' \in [alive' -> Val]
        /\ \A p, q \in alive' : at'[p] = at'[q] => p = q
    BY <1>4, <1>17, <2>1, LoadsType DEF ShellExec
  <2> QED BY <1>2, <1>17, <2>2, ResumeType DEF ShellExec
<1>18. CASE UNCHANGED cvars
  BY <1>4, <1>18 DEF cvars, vars
<1> QED BY <1>7, <1>8, <1>9, <1>10, <1>11, <1>12, <1>13, <1>14, <1>15, <1>16,
           <1>17, <1>18 DEF CNext

\* The save areas and the program counters exist for exactly the live
\* processes, and two processes never share a block (sys_sched_process_load,
\* sys_sched_clean_pcb).
THEOREM Invariance == CSpec => []IInv
BY IInvInit, IInvNext, PTL DEF CSpec

\* Type correctness of the registers, the save areas and the program counters
\* of the control blocks (sys_interrupt_handler, execSysCall).
THEOREM ContextTypes == CSpec => []ContextTypeOK
<1>1. IInv => ContextTypeOK
  BY DEF IInv
<1> QED BY <1>1, Invariance, PTL

-----------------------------------------------------------------------------
(***************************************************************************)
(* Proof that each process has the registers that are saved on every path, *)
(* and its program counter, to itself.  REG_F, REG_LAST_KEY and the last   *)
(* cell of a block are not among them: no path but the system call saves   *)
(* the first two, and the third is not cleaned.                            *)
(***************************************************************************)


SavedWords == Seen \subseteq {"A", "Res", "PC"}

\* What the save area and the control block of a process hold, and its view
Stored(p, w) == IF w = "PC" THEN pcbPc[p] ELSE ram[at[p]][w]
ViewOf(p, w) == IF p = running THEN reg[w] ELSE Stored(p, w)

\* A block that nobody has is blank
Owned        == {at[p] : p \in alive}
BlankIn(m, b) == \E blank \in {Zero, Blank} : \A w \in Seen \ {"PC"} : m[b][w] = blank
UnownedBlank == \A b \in Block \ Owned : BlankIn(ram, b)

\* What a program sees is saved on every entry to the kernel
LEMMA SeenWords ==
    ASSUME SavedWords
    PROVE  /\ Seen \subseteq Reg /\ Seen \ {"PC"} \subseteq Cell
           /\ Seen \ {"PC"} \subseteq SavedBySysCall
           /\ Seen \ {"PC"} \subseteq SavedByInterrupt
           /\ "Top" \notin Seen
BY ContextConstants DEF SavedWords, Reg, Cell, SavedBySysCall, SavedByInterrupt

\* What the programs see, word by word
LEMMA Viewed ==
    ASSUME SavedWords
    PROVE  /\ View = [p \in alive |-> [w \in Seen |-> ViewOf(p, w)]]
           /\ View' = [p \in alive' |-> [w \in Seen |-> ViewOf(p, w)']]
<1>1. \A w \in Seen : w \in Reg
  BY SeenWords
<1>2. ASSUME NEW p \in alive, NEW w \in Seen
      PROVE  (CASE w \in Reg /\ p = running -> reg[w]
                [] w = "PC" /\ p # running  -> pcbPc[p]
                [] OTHER -> ram[at[p]][w]) = ViewOf(p, w)
  BY <1>1 DEF ViewOf, Stored
<1>3. ASSUME NEW p \in alive', NEW w \in Seen
      PROVE  (CASE w \in Reg /\ p = running' -> reg'[w]
                [] w = "PC" /\ p # running'  -> pcbPc'[p]
                [] OTHER -> ram'[at'[p]][w]) = ViewOf(p, w)'
  BY <1>1 DEF ViewOf, Stored
<1> QED BY <1>2, <1>3, Zenon DEF View

\* What is to be shown of a step that a process makes, and of one that nobody
\* is to notice
LEMMA OwnStepSuffices ==
    ASSUME SavedWords, IInv, IInv', NEW arg \in Val, NEW blank \in {Zero, Blank},
           \A p \in alive' \cap alive : p # running =>
               \A w \in Seen : ViewOf(p, w)' = ViewOf(p, w),
           \A p \in alive' \ alive : \A w \in Seen :
               ViewOf(p, w)' = Private!FreshView(arg, blank)[w]
    PROVE  Private!OwnStep
<1> DEFINE mine == IF running \in alive' THEN View'[running] ELSE [w \in Seen |-> Zero]
<1>1. mine \in [Seen -> Val]
  <2>1. ASSUME NEW p \in alive', NEW w \in Seen PROVE ViewOf(p, w)' \in Val
    <3>1. w \in Reg /\ (w # "PC" => w \in Cell)
      BY SeenWords
    <3> QED BY <3>1 DEF ViewOf, Stored, IInv, ContextTypeOK
  <2>2. \A p \in alive' : View'[p] \in [Seen -> Val]
    BY <2>1, Viewed
  <2> QED BY <2>2, ContextConstants
<1>2. ASSUME NEW p \in alive'
      PROVE  [w \in Seen |-> ViewOf(p, w)'] =
                 IF p \notin alive THEN Private!FreshView(arg, blank)
                 ELSE IF p = running THEN mine
                 ELSE View[p]
  <2>1. CASE p \notin alive
    BY <2>1 DEF Private!FreshView
  <2>2. CASE p \in alive /\ p = running
    BY <2>2, Viewed DEF mine
  <2>3. CASE p \in alive /\ p # running
    BY <2>3, Viewed
  <2> QED BY <2>1, <2>2, <2>3
<1>3. View' = [p \in alive' |-> IF p \notin alive THEN Private!FreshView(arg, blank)
                                ELSE IF p = running THEN mine
                                ELSE View[p]]
  BY <1>2, Viewed
<1> HIDE DEF mine
<1> QED BY <1>1, <1>3 DEF Private!OwnStep

\* Nobody notices a step that leaves what every process sees, and gives a new
\* one a fresh view
LEMMA NobodySuffices ==
    ASSUME SavedWords, NEW arg \in Val, NEW blank \in {Zero, Blank},
           \A p \in alive' \cap alive : \A w \in Seen : ViewOf(p, w)' = ViewOf(p, w),
           \A p \in alive' \ alive : \A w \in Seen :
               ViewOf(p, w)' = Private!FreshView(arg, blank)[w]
    PROVE  Private!NobodyNotices
<1>1. ASSUME NEW p \in alive'
      PROVE  [w \in Seen |-> ViewOf(p, w)'] =
                 IF p \in alive THEN View[p] ELSE Private!FreshView(arg, blank)
  <2>1. CASE p \notin alive
    BY <2>1 DEF Private!FreshView
  <2>2. CASE p \in alive
    BY <2>2, Viewed
  <2> QED BY <2>1, <2>2
<1>2. View' = [p \in alive' |-> IF p \in alive THEN View[p]
                                ELSE Private!FreshView(arg, blank)]
  BY <1>1, Viewed
<1> QED BY <1>2 DEF Private!NobodyNotices

-----------------------------------------------------------------------------
(* What the parts of a step do to the words that are stored *)

\* The registers go to the save area of the process that runs, and nowhere else
LEMMA BackupSeen ==
    ASSUME SavedWords, IInv, running \in alive, NEW saved,
           Seen \ {"PC"} \subseteq saved
    PROVE  /\ \A p \in alive, w \in Seen \ {"PC"} :
                  Backup(saved)[at[p]][w] = ViewOf(p, w)
           /\ \A b \in Block \ Owned : Backup(saved)[b] = ram[b]
<1>1. /\ ram \in [Block -> [Cell -> Val]] /\ at \in [alive -> Block]
      /\ \A p, q \in alive : at[p] = at[q] => p = q
  BY DEF IInv, ContextTypeOK
<1>2. Seen \ {"PC"} \subseteq Cell
  BY SeenWords
<1>3. Backup(saved)[at[running]] =
          [w \in Cell |-> IF w \in saved THEN reg[w] ELSE ram[at[running]][w]]
  BY <1>1 DEF Backup
<1>4. \A b \in Block : b # at[running] => Backup(saved)[b] = ram[b]
  BY <1>1 DEF Backup
<1>5. ASSUME NEW p \in alive, NEW w \in Seen \ {"PC"}
      PROVE  Backup(saved)[at[p]][w] = ViewOf(p, w)
  <2>1. CASE p = running
    BY <1>2, <1>3, <2>1 DEF ViewOf
  <2>2. CASE p # running
    BY <1>1, <1>4, <2>2 DEF ViewOf, Stored
  <2> QED BY <2>1, <2>2
<1> QED BY <1>4, <1>5 DEF Owned

\* The new process finds its arguments and blank words, the others what they had
LEMMA LoadsSeen ==
    ASSUME SavedWords, IInv, UnownedBlank, NEW m \in [Block -> [Cell -> Val]],
           \A b \in Block \ Owned : m[b] = ram[b],
           Loads(m), alive' = alive \cup {born + 1}
    PROVE  /\ \A p \in alive : pcbPc'[p] = pcbPc[p] /\ ram'[at'[p]] = m[at[p]]
           /\ UnownedBlank'
           /\ \E arg \in Val, blank \in {Zero, Blank} :
                 \A p \in alive' \ alive : \A w \in Seen :
                    Stored(p, w)' = Private!FreshView(arg, blank)[w]
<1>1. PICK b \in Block \ Owned, arg \in Written :
        /\ ram' = [m EXCEPT ![b] = [w \in Cell |-> IF w = "A" THEN arg ELSE @[w]]]
        /\ at' = [p \in alive \cup {born + 1} |-> IF p \in alive THEN at[p] ELSE b]
        /\ pcbPc' = [p \in alive \cup {born + 1} |->
                        IF p \in alive THEN pcbPc[p] ELSE Entry]
  BY DEF Loads, Owned
<1>2. at \in [alive -> Block] /\ arg \in Val
  BY ContextConstants DEF IInv, ContextTypeOK
<1>3. PICK blank \in {Zero, Blank} : \A w \in Seen \ {"PC"} : m[b][w] = blank
  BY DEF UnownedBlank, BlankIn
<1>4. \A p \in alive : pcbPc'[p] = pcbPc[p] /\ ram'[at'[p]] = m[at[p]]
  BY <1>1, <1>2 DEF Owned
<1>5. UnownedBlank'
  <2>1. born + 1 \notin alive
    BY NewPid DEF IInv
  <2>2. ASSUME NEW c \in Block \ Owned' PROVE c \in Block \ Owned /\ ram'[c] = ram[c]
    <3>1. at'[born + 1] = b /\ \A p \in alive : at'[p] = at[p]
      BY <1>1, <2>1
    <3>2. c # b /\ c \notin Owned
      BY <3>1 DEF Owned
    <3> QED BY <1>1, <3>2
  <2> QED BY <2>2 DEF UnownedBlank, BlankIn
<1>6. ASSUME NEW p \in alive' \ alive, NEW w \in Seen
      PROVE  Stored(p, w)' = Private!FreshView(arg, blank)[w]
  <2>1. pcbPc'[p] = Entry /\ at'[p] = b
    BY <1>1
  <2>2. w # "PC" => w \in Cell
    BY SeenWords
  <2>3. w # "PC" => ram'[b][w] = IF w = "A" THEN arg ELSE blank
    BY <1>1, <1>3, <2>2
  <2>4. w \in {"A", "Res", "PC"}
    BY DEF SavedWords
  <2> QED BY <2>1, <2>3, <2>4 DEF Stored, Private!FreshView
<1> QED BY <1>2, <1>4, <1>5, <1>6

\* The block of a process that ends is blank, and the others have what they had
LEMMA CleansSeen ==
    ASSUME SavedWords, IInv, UnownedBlank, NEW m \in [Block -> [Cell -> Val]],
           \A b \in Block \ Owned : m[b] = ram[b],
           NEW p \in alive, Cleans(m, p), alive' = alive \ {p}
    PROVE  /\ \A q \in alive' : pcbPc'[q] = pcbPc[q] /\ ram'[at'[q]] = m[at[q]]
           /\ UnownedBlank'
<1>1. /\ at \in [alive -> Block]
      /\ \A q, r \in alive : at[q] = at[r] => q = r
  BY DEF IInv, ContextTypeOK
<1>2. /\ ram'[at[p]] = [w \in Cell |-> IF w = "Top" THEN m[at[p]][w] ELSE Blank]
      /\ \A b \in Block : b # at[p] => ram'[b] = m[b]
      /\ at' = [q \in alive' |-> at[q]] /\ pcbPc' = [q \in alive' |-> pcbPc[q]]
  BY <1>1 DEF Cleans
<1>3. \A q \in alive' : pcbPc'[q] = pcbPc[q] /\ ram'[at'[q]] = m[at[q]]
  BY <1>1, <1>2
<1>4. ASSUME NEW c \in Block \ Owned' PROVE BlankIn(ram', c)
  <2>1. CASE c = at[p]
    <3>1. \A w \in Seen \ {"PC"} : ram'[c][w] = Blank
      BY <1>2, <2>1, SeenWords
    <3> QED BY <3>1 DEF BlankIn
  <2>2. CASE c # at[p]
    <3>1. c \in Block \ Owned
      BY <1>2, <2>2 DEF Owned
    <3>2. ram'[c] = ram[c]
      BY <1>2, <2>2, <3>1
    <3> QED BY <3>1, <3>2 DEF UnownedBlank, BlankIn
  <2> QED BY <2>1, <2>2
<1>5. UnownedBlank'
  BY <1>4 DEF UnownedBlank, BlankIn
<1> QED BY <1>3, <1>5

\* The process that gets the CPU finds in it what was stored
LEMMA ResumeSeen ==
    ASSUME SavedWords, Resume, 0 \notin alive', NEW p \in alive', NEW w \in Seen
    PROVE  ViewOf(p, w)' = Stored(p, w)'
<1>1. w \in Reg
  BY SeenWords
<1> QED BY <1>1 DEF Resume, ViewOf, Stored

-----------------------------------------------------------------------------
(* The steps *)

\* Processes are the same on both sides
LEMMA SameProcesses ==
    /\ Private!Init <=> Init
    /\ Private!Create <=> Create
    /\ Private!Launch <=> Launch
    /\ Private!Switch <=> Switch
    /\ Private!Wait <=> Wait
    /\ Private!End <=> End
    /\ Private!Kill <=> Kill
BY DEF Init, Create, Launch, Switch, Wait, End, Kill, Birth, Choose, vars,
       Private!Init, Private!Create, Private!Launch, Private!Switch, Private!Wait,
       Private!End, Private!Kill, Private!Birth, Private!Choose, Private!vars

RInv == IInv /\ UnownedBlank

\* Every step keeps the blocks that nobody has blank, and is the step of the
\* process that runs or one that no process notices
StepRefines == UnownedBlank' /\ (Private!PNext \/ UNCHANGED <<vars, View>>)

\* Steps without a birth: what the other processes have must stay
LEMMA OwnStepOf ==
    ASSUME SavedWords, IInv, IInv', alive' \subseteq alive,
           \A p \in alive' : p # running =>
               \A w \in Seen : ViewOf(p, w)' = ViewOf(p, w)
    PROVE  Private!OwnStep
<1>1. Zero \in Val
  BY ContextConstants
<1> QED BY <1>1, OwnStepSuffices

\* Nor one that starts no process
LEMMA NobodyOf ==
    ASSUME SavedWords, alive' \subseteq alive,
           \A p \in alive' : \A w \in Seen : ViewOf(p, w)' = ViewOf(p, w)
    PROVE  Private!NobodyNotices
<1>1. Zero \in Val
  BY ContextConstants
<1> QED BY <1>1, NobodySuffices

\* Instructions, stores and system calls that change no process
LEMMA ComputeRefines ==
    ASSUME SavedWords, RInv, IInv', Instruction \/ Store \/ SysCall \/ SysWait
    PROVE  StepRefines
<1>1. /\ running \in alive \ waiting /\ alive' = alive /\ running' = running
      /\ at' = at /\ pcbPc' = pcbPc
      /\ UNCHANGED vars \/ Wait
  BY DEF Instruction, Store, SysCall, SysWait, Runs, Wait, vars
<1>2. /\ ram \in [Block -> [Cell -> Val]] /\ at \in [alive -> Block]
      /\ \A p, q \in alive : at[p] = at[q] => p = q
      /\ IInv /\ UnownedBlank
  BY DEF RInv, IInv, ContextTypeOK
<1>3. /\ \A b \in Block \ Owned : ram'[b] = ram[b]
      /\ \A p \in alive \ {running} : \A w \in Seen : w # "PC" =>
            ram'[at[p]][w] = ram[at[p]][w]
  <2>1. CASE Instruction
    BY <2>1 DEF Instruction
  <2>2. CASE Store
    BY <1>1, <1>2, <2>2 DEF Store, Owned
  <2>3. CASE SysCall \/ SysWait
    <3>1. ram' = Backup(SavedBySysCall)
      BY <2>3 DEF SysCall, SysWait
    <3> QED BY <1>1, <1>2, <3>1 DEF Backup, Owned
  <2> QED BY <2>1, <2>2, <2>3
<1>4. UnownedBlank'
  BY <1>1, <1>2, <1>3 DEF UnownedBlank, BlankIn, Owned
<1>5. \A p \in alive' : p # running => \A w \in Seen : ViewOf(p, w)' = ViewOf(p, w)
  BY <1>1, <1>3 DEF ViewOf, Stored
<1>6. Private!OwnStep
  BY <1>1, <1>2, <1>5, OwnStepOf
<1> QED BY <1>1, <1>4, <1>6, SameProcesses
        DEF StepRefines, Private!PNext, Private!Compute, Private!vars, vars

\* sched_program
LEMMA SysLoadRefines ==
    ASSUME SavedWords, RInv, IInv', SysLoad
    PROVE  StepRefines
<1> DEFINE m == Backup(SavedBySysCall)
<1>1. /\ running \in alive /\ alive' = alive \cup {born + 1} /\ running' = running
      /\ Create /\ Loads(m) /\ IInv /\ UnownedBlank
  BY DEF SysLoad, Create, RInv, IInv, ProcessesOK
<1>2. /\ m \in [Block -> [Cell -> Val]]
      /\ \A p \in alive, w \in Seen \ {"PC"} : m[at[p]][w] = ViewOf(p, w)
      /\ \A b \in Block \ Owned : m[b] = ram[b]
  BY <1>1, BackupType, BackupSeen, SeenWords DEF IInv, SavedBySysCall
<1> HIDE DEF m
<1>3. /\ \A p \in alive : pcbPc'[p] = pcbPc[p] /\ ram'[at'[p]] = m[at[p]]
      /\ UnownedBlank'
  BY <1>1, <1>2, LoadsSeen
<1>4. PICK arg \in Val, blank \in {Zero, Blank} :
        \A p \in alive' \ alive : \A w \in Seen :
            Stored(p, w)' = Private!FreshView(arg, blank)[w]
  BY <1>1, <1>2, LoadsSeen
<1>5. \A p \in alive' \cap alive : p # running => \A w \in Seen :
          ViewOf(p, w)' = ViewOf(p, w)
  BY <1>1, <1>2, <1>3 DEF ViewOf, Stored
<1>6. \A p \in alive' \ alive : \A w \in Seen :
          ViewOf(p, w)' = Private!FreshView(arg, blank)[w]
  BY <1>1, <1>4 DEF ViewOf
<1>7. Private!OwnStep
  BY <1>1, <1>4, <1>5, <1>6, OwnStepSuffices
<1> QED BY <1>1, <1>3, <1>7, SameProcesses DEF StepRefines, Private!PNext

\* kill_process
LEMMA SysKillRefines ==
    ASSUME SavedWords, RInv, IInv', SysKill
    PROVE  StepRefines
<1> DEFINE m == Backup(SavedBySysCall)
<1>1. PICK k \in alive \ alive' : Cleans(m, k)
  BY DEF SysKill
<1>2. /\ running \in alive /\ alive' = alive \ {k} /\ running' = running
      /\ Kill /\ IInv /\ UnownedBlank
  BY <1>1 DEF SysKill, Kill, RInv
<1>3. /\ m \in [Block -> [Cell -> Val]]
      /\ \A p \in alive, w \in Seen \ {"PC"} : m[at[p]][w] = ViewOf(p, w)
      /\ \A b \in Block \ Owned : m[b] = ram[b]
  BY <1>2, BackupType, BackupSeen, SeenWords DEF IInv, SavedBySysCall
<1> HIDE DEF m
<1>4. /\ \A p \in alive' : pcbPc'[p] = pcbPc[p] /\ ram'[at'[p]] = m[at[p]]
      /\ UnownedBlank'
  BY <1>1, <1>2, <1>3, CleansSeen
<1>5. \A p \in alive' : p # running => \A w \in Seen : ViewOf(p, w)' = ViewOf(p, w)
  BY <1>2, <1>3, <1>4 DEF ViewOf, Stored
<1>6. Private!OwnStep
  BY <1>2, <1>5, OwnStepOf
<1> QED BY <1>2, <1>4, <1>6, SameProcesses DEF StepRefines, Private!PNext

\* exit
LEMMA SysExitRefines ==
    ASSUME SavedWords, RInv, IInv', SysExit
    PROVE  StepRefines
<1> DEFINE m == Backup(SavedBySysCall)
<1>1. /\ running \in alive /\ alive' = alive \ {running}
      /\ End /\ Cleans(m, running) /\ Resume /\ IInv /\ UnownedBlank /\ 0 \notin alive'
  BY DEF SysExit, End, Choose, RInv, IInv, ProcessesOK
<1>2. /\ m \in [Block -> [Cell -> Val]]
      /\ \A p \in alive, w \in Seen \ {"PC"} : m[at[p]][w] = ViewOf(p, w)
      /\ \A b \in Block \ Owned : m[b] = ram[b]
  BY <1>1, BackupType, BackupSeen, SeenWords DEF IInv, SavedBySysCall
<1> HIDE DEF m
<1>3. /\ \A p \in alive' : pcbPc'[p] = pcbPc[p] /\ ram'[at'[p]] = m[at[p]]
      /\ UnownedBlank'
  BY <1>1, <1>2, CleansSeen
<1>4. \A p \in alive' : \A w \in Seen : Stored(p, w)' = ViewOf(p, w)
  BY <1>1, <1>2, <1>3 DEF ViewOf, Stored
<1>5. Private!NobodyNotices
  BY <1>1, <1>4, ResumeSeen, NobodyOf
<1> QED BY <1>1, <1>3, <1>5, SameProcesses DEF StepRefines, Private!PNext

\* The timer interrupt: what is saved is what is seen
LEMMA PreemptRefines ==
    ASSUME SavedWords, RInv, IInv', Preempt
    PROVE  StepRefines
<1>1. /\ running \in alive /\ alive' = alive /\ at' = at /\ 0 \notin alive'
      /\ Switch /\ Resume /\ IInv /\ UnownedBlank
      /\ ram' = Backup(SavedByInterrupt)
      /\ pcbPc' = [p \in alive |-> IF p = running /\ "PC" \in Word
                                   THEN reg["PC"] ELSE pcbPc[p]]
  BY DEF Preempt, Switch, Choose, RInv, IInv, ProcessesOK
<1>2. /\ \A p \in alive, w \in Seen \ {"PC"} : ram'[at[p]][w] = ViewOf(p, w)
      /\ \A b \in Block \ Owned : ram'[b] = ram[b]
  BY <1>1, BackupSeen, SeenWords
<1>3. UnownedBlank'
  BY <1>1, <1>2 DEF UnownedBlank, BlankIn, Owned
<1>4. \A p \in alive' : \A w \in Seen : Stored(p, w)' = ViewOf(p, w)
  <2>1. "PC" \in Seen => "PC" \in Word
    BY ContextConstants
  <2> QED BY <1>1, <1>2, <2>1 DEF ViewOf, Stored
<1>5. Private!NobodyNotices
  BY <1>1, <1>4, ResumeSeen, NobodyOf
<1> QED BY <1>1, <1>3, <1>5, SameProcesses DEF StepRefines, Private!PNext

\* The commands of the shell
LEMMA ShellRunRefines ==
    ASSUME SavedWords, RInv, IInv', ShellRun
    PROVE  StepRefines
<1>1. /\ running = 0 /\ 0 \notin alive /\ alive' = alive
      /\ at' = at /\ ram' = ram /\ pcbPc' = pcbPc
      /\ Switch /\ Resume /\ UnownedBlank
  BY DEF ShellRun, Switch, Choose, RInv, IInv, ProcessesOK
<1>2. UnownedBlank'
  BY <1>1 DEF UnownedBlank, BlankIn, Owned
<1>3. \A p \in alive' : \A w \in Seen : Stored(p, w)' = ViewOf(p, w)
  BY <1>1 DEF ViewOf, Stored
<1>4. Private!NobodyNotices
  BY <1>1, <1>3, ResumeSeen, NobodyOf
<1> QED BY <1>1, <1>2, <1>4, SameProcesses DEF StepRefines, Private!PNext

\* What is seen of a program that the shell loads
LEMMA ShellLoadsSeen ==
    ASSUME SavedWords, RInv, IInv', Loads(ram), running = 0,
           alive' = alive \cup {born + 1}
    PROVE  /\ UnownedBlank'
           /\ \A p \in alive, w \in Seen : Stored(p, w)' = ViewOf(p, w)
           /\ \E arg \in Val, blank \in {Zero, Blank} :
                 \A p \in alive' \ alive : \A w \in Seen :
                    Stored(p, w)' = Private!FreshView(arg, blank)[w]
<1>1. /\ ram \in [Block -> [Cell -> Val]] /\ IInv /\ UnownedBlank /\ 0 \notin alive
  BY DEF RInv, IInv, ContextTypeOK, ProcessesOK
<1>2. /\ \A p \in alive : pcbPc'[p] = pcbPc[p] /\ ram'[at'[p]] = ram[at[p]]
      /\ UnownedBlank'
      /\ \E arg \in Val, blank \in {Zero, Blank} :
            \A p \in alive' \ alive : \A w \in Seen :
               Stored(p, w)' = Private!FreshView(arg, blank)[w]
  BY <1>1, LoadsSeen
<1>3. \A p \in alive, w \in Seen : Stored(p, w)' = ViewOf(p, w)
  BY <1>1, <1>2 DEF ViewOf, Stored
<1> QED BY <1>2, <1>3

\* A load by the shell is a step of private states
LEMMA ShellLoadRefines ==
    ASSUME SavedWords, RInv, IInv', ShellLoad
    PROVE  StepRefines
<1>1. /\ running = 0 /\ running' = 0 /\ 0 \notin alive /\ 0 \notin alive'
      /\ alive' = alive \cup {born + 1} /\ Create /\ Loads(ram) /\ IInv
  BY DEF ShellLoad, Create, RInv, IInv, ProcessesOK
<1>2. UnownedBlank' /\ \A p \in alive, w \in Seen : Stored(p, w)' = ViewOf(p, w)
  BY <1>1, ShellLoadsSeen
<1>3. PICK arg \in Val, blank \in {Zero, Blank} :
        \A p \in alive' \ alive : \A w \in Seen :
            Stored(p, w)' = Private!FreshView(arg, blank)[w]
  BY <1>1, ShellLoadsSeen
<1>4. \A p \in alive', w \in Seen : ViewOf(p, w)' = Stored(p, w)'
  BY <1>1 DEF ViewOf
<1>5. Private!OwnStep
  BY <1>1, <1>2, <1>3, <1>4, OwnStepSuffices
<1> QED BY <1>1, <1>2, <1>5, SameProcesses DEF StepRefines, Private!PNext

\* So is a load that waits for the program
LEMMA ShellExecRefines ==
    ASSUME SavedWords, RInv, IInv', ShellExec
    PROVE  StepRefines
<1>1. /\ running = 0 /\ 0 \notin alive'
      /\ alive' = alive \cup {born + 1} /\ Launch /\ Loads(ram) /\ Resume
  BY DEF ShellExec, Launch, Choose, IInv, ProcessesOK
<1>2. UnownedBlank' /\ \A p \in alive, w \in Seen : Stored(p, w)' = ViewOf(p, w)
  BY <1>1, ShellLoadsSeen
<1>3. PICK arg \in Val, blank \in {Zero, Blank} :
        \A p \in alive' \ alive : \A w \in Seen :
            Stored(p, w)' = Private!FreshView(arg, blank)[w]
  BY <1>1, ShellLoadsSeen
<1>4. \A p \in alive', w \in Seen : ViewOf(p, w)' = Stored(p, w)'
  BY <1>1, ResumeSeen
<1>5. Private!NobodyNotices
  BY <1>1, <1>2, <1>3, <1>4, NobodySuffices
<1> QED BY <1>1, <1>2, <1>5, SameProcesses DEF StepRefines, Private!PNext

-----------------------------------------------------------------------------
\* The initial states are private
LEMMA RInvInit == CInit => UnownedBlank /\ Private!PInit
<1> SUFFICES ASSUME CInit PROVE UnownedBlank /\ Private!PInit
  OBVIOUS
<1>1. /\ alive = {} /\ ram = [b \in Block |-> [w \in Cell |-> Zero]] /\ Init
  BY DEF CInit, Init
<1>2. UnownedBlank
  BY <1>1, ContextConstants DEF UnownedBlank, BlankIn, Cell, Owned
<1>3. View = [p \in {} |-> p]
  BY <1>1 DEF View
<1> QED BY <1>1, <1>2, <1>3, SameProcesses DEF Private!PInit

\* Every step is one of private states, or none
LEMMA RNext ==
    ASSUME SavedWords, RInv, IInv', [CNext]_cvars
    PROVE  StepRefines
<1>1. CASE UNCHANGED cvars
  <2>1. View' = View
    BY <1>1 DEF cvars, vars, View
  <2>2. UnownedBlank'
    BY <1>1 DEF cvars, vars, UnownedBlank, BlankIn, Owned, RInv
  <2> QED BY <1>1, <2>1, <2>2 DEF StepRefines, cvars
<1> QED BY <1>1, ComputeRefines, SysLoadRefines, SysKillRefines, SysExitRefines,
           PreemptRefines, ShellRunRefines, ShellLoadRefines, ShellExecRefines
        DEF CNext

\* Preemption, system calls, and the birth and the end of other processes never
\* change a word that is saved under a process that does not run; a process
\* starts with its arguments and nothing of the previous owner of its block.
THEOREM Privacy ==
    ASSUME SavedWords
    PROVE  CSpec => ImplementsPrivateState
<1>1. CInit => UnownedBlank /\ Private!PInit
  BY RInvInit
<1>2. UnownedBlank /\ IInv /\ IInv' /\ [CNext]_cvars
          => UnownedBlank' /\ [Private!PNext]_<<Private!vars, View>>
  BY RNext DEF RInv, StepRefines, Private!vars, vars
<1>3. CSpec => Private!PInit /\ [][Private!PNext]_<<Private!vars, View>>
  BY <1>1, <1>2, Invariance, PTL DEF CSpec
<1> QED BY <1>3 DEF ImplementsPrivateState, Private!PSpec
-----------------------------------------------------------------------------
(***************************************************************************)
(* The descriptors                                                         *)
(***************************************************************************)
\* No more files are open at a time than a control block has columns before
\* its list, and one: sys_fs_open takes the lowest descriptor, so that
\* sys_sched_process_rm_fd finds nothing.  A table of MaxFd <= FirstColumn
\* descriptors has no room for more.
FewOpen == Cardinality(Busy) <= FirstColumn

\* What the abstract table of processes keeps
ProcessesKept ==
    /\ born \in 0 .. MaxPid
    /\ alive \subseteq 1 .. born
    /\ waiting \subseteq alive
    /\ running \in {0} \cup alive

DInv == DescriptorsTypeOK /\ ProcessesKept

\* and no list has a gap, so that the kernel does not hang
NoGap == \A p \in alive : Gap \notin Range(list[p])

\* nor a descriptor that could be the number of a column
LowListed == \A p \in alive : \A f \in Range(list[p]) : f < FirstColumn

LInv == DInv /\ NoDescriptorLeaks /\ NoGap /\ LowListed /\ KernelReturns

-----------------------------------------------------------------------------
(* The processes                                                           *)

\* The processes are those that are chosen from
LEMMA ChooseKeeps ==
    ASSUME NEW P, NEW W, NEW n, P \subseteq 1 .. n, Choose(P, W), W \cap P = W
    PROVE  alive' = P /\ waiting' \subseteq P /\ running' \in {0} \cup P
BY DEF Choose

\* Who is born and who ends in each step, and that pids stay in their range
LEMMA ProcessSteps ==
    ASSUME ProcessesKept
    PROVE  /\ Create => alive' = alive \cup {born + 1} /\ ProcessesKept'
           /\ Launch => alive' = alive \cup {born + 1} /\ ProcessesKept'
           /\ Switch => alive' = alive /\ ProcessesKept'
           /\ Wait => alive' = alive /\ ProcessesKept'
           /\ End => alive' = alive \ {running} /\ ProcessesKept'
           /\ Kill => /\ \E p \in alive : alive' = alive \ {p}
                      /\ ProcessesKept'
           /\ UNCHANGED vars => alive' = alive /\ ProcessesKept'
<1>1. MaxPid \in Nat
  BY DescriptorConstants
<1>2. ASSUME Birth
      PROVE  born' \in 0 .. MaxPid /\ born' = born + 1
             /\ alive \cup {born + 1} \subseteq 1 .. born + 1
  BY <1>1, <1>2 DEF Birth, ProcessesKept
<1>3. ASSUME Create PROVE alive' = alive \cup {born + 1} /\ ProcessesKept'
  BY <1>2, <1>3 DEF Create, ProcessesKept
<1>4. ASSUME Launch PROVE alive' = alive \cup {born + 1} /\ ProcessesKept'
  <2>1. Birth /\ Choose(alive \cup {born + 1}, waiting)
    BY <1>4 DEF Launch
  <2>2. waiting \subseteq alive
    BY DEF ProcessesKept
  <2> QED BY <1>2, <2>1, <2>2 DEF Choose, ProcessesKept
<1>5. ASSUME Switch PROVE alive' = alive /\ ProcessesKept'
  BY <1>5 DEF Switch, Choose, ProcessesKept
<1>6. ASSUME Wait PROVE alive' = alive /\ ProcessesKept'
  BY <1>6 DEF Wait, ProcessesKept
<1>7. ASSUME End PROVE alive' = alive \ {running} /\ ProcessesKept'
  <2>1. running \notin waiting /\ Choose(alive \ {running}, waiting) /\ born' = born
    BY <1>7 DEF End
  <2> QED BY <2>1 DEF Choose, ProcessesKept
<1>8. ASSUME Kill PROVE (\E p \in alive : alive' = alive \ {p}) /\ ProcessesKept'
  BY <1>8 DEF Kill, ProcessesKept
<1>9. ASSUME UNCHANGED vars PROVE alive' = alive /\ ProcessesKept'
  BY <1>9 DEF vars, ProcessesKept
<1> QED BY <1>3, <1>4, <1>5, <1>6, <1>7, <1>8, <1>9

\* The running process has a pid
LEMMA RunnerType ==
    ASSUME ProcessesKept, Executes
    PROVE  running \in alive /\ running \in 1 .. MaxPid /\ running # 0
BY DescriptorConstants DEF ProcessesKept, Executes

-----------------------------------------------------------------------------
(* The types                                                               *)

Lists(l, P) == l \in [P -> Seq(Fd \cup {Gap})]

\* A list with one more gap is a list of descriptors and gaps
LEMMA EmptiedType ==
    ASSUME NEW p, list[p] \in Seq(Fd \cup {Gap})
    PROVE  Emptied(p) \in Seq(Fd \cup {Gap})
<1>1. ASSUME NEW s \in Seq(Fd \cup {Gap}), NEW i
      PROVE  [s EXCEPT ![i] = Gap] \in Seq(Fd \cup {Gap})
  <2> DEFINE n == Len(s)
             T == Fd \cup {Gap}
             e == [j \in 1 .. n |-> IF j = i THEN Gap ELSE s[j]]
  <2>1. n \in Nat /\ DOMAIN s = 1 .. n /\ \A j \in 1 .. n : s[j] \in T
    OBVIOUS
  <2>2. [s EXCEPT ![i] = Gap] = e
    BY <2>1
  <2>3. Gap \in T
    OBVIOUS
  <2> HIDE DEF T, n
  <2>4. e \in Seq(T)
    BY <2>1, <2>3
  <2> QED BY <2>2, <2>4 DEF T
<1> QED BY <1>1 DEF Emptied

\* A process that is born has an empty list, and nobody's changes
LEMMA LoadsLists ==
    ASSUME DescriptorsTypeOK, NewList, alive' = alive \cup {born + 1}
    PROVE  /\ Lists(list, alive)' /\ owner' = owner /\ hung' = hung
           /\ \A p \in alive' : list'[p] = IF p \in alive THEN list[p] ELSE <<>>
<1>1. \A p \in alive' : list'[p] = IF p \in alive THEN list[p] ELSE <<>>
  BY DEF NewList
<1>2. list' = [p \in alive' |-> list'[p]]
  BY DEF NewList
<1>3. <<>> \in Seq(Fd \cup {Gap})
  OBVIOUS
<1> QED BY <1>1, <1>2, <1>3 DEF NewList, Lists, DescriptorsTypeOK

\* A process that ends has no list any more, and its descriptors are free
LEMMA CleansLists ==
    ASSUME DescriptorsTypeOK, NEW p, ClosesListed(p), alive' \subseteq alive
    PROVE  /\ Lists(list, alive)' /\ hung' = hung
           /\ \A q \in alive' : list'[q] = list[q]
           /\ owner' \in [Fd -> 0 .. MaxPid]
           /\ \A f \in Fd : owner'[f] = IF f \in Listed(p) THEN 0 ELSE owner[f]
<1>1. \A q \in alive' : list'[q] = list[q]
  BY DEF ClosesListed
<1>2. list' = [q \in alive' |-> list'[q]]
  BY DEF ClosesListed
<1>3. owner \in [Fd -> 0 .. MaxPid] /\ 0 \in 0 .. MaxPid
  BY DescriptorConstants DEF DescriptorsTypeOK
<1>4. \A f \in Fd : owner'[f] = IF f \in Listed(p) THEN 0 ELSE owner[f]
  BY DEF ClosesListed
<1>5. owner' \in [Fd -> 0 .. MaxPid]
  BY <1>3 DEF ClosesListed
<1> QED BY <1>1, <1>2, <1>4, <1>5 DEF Lists, ClosesListed, DescriptorsTypeOK

\* An open takes the lowest free descriptor and lists it
LEMMA OpenStep ==
    ASSUME DInv, Open
    PROVE  \E f \in Fd \ Busy :
              /\ \A h \in Fd \ Busy : f <= h
              /\ owner' = [owner EXCEPT ![f] = running]
              /\ list' = [list EXCEPT ![running] = Append(@, f)]
              /\ alive' = alive /\ hung' = hung /\ ProcessesKept'
<1> DEFINE Free == Fd \ Busy
           f == CHOOSE g \in Free : \A h \in Free : g <= h
<1>1. Free # {} /\ Free \in SUBSET Nat
  <2>1. Busy \subseteq Fd /\ Busy # Fd /\ Fd \subseteq Nat
    BY DescriptorConstants DEF Open, Busy, Fd
  <2> QED BY <2>1
<1>2. f \in Free /\ \A h \in Free : f <= h
  <2> HIDE DEF Free
  <2>1. \E g \in Free : \A h \in Free : g <= h
    BY <1>1, LeastElement
  <2> QED BY <2>1
<1>3. /\ owner' = [owner EXCEPT ![f] = running]
      /\ list' = [list EXCEPT ![running] = Append(@, f)]
  BY DEF Open
<1>4. alive' = alive /\ ProcessesKept'
  BY ProcessSteps DEF Open, DInv
<1> HIDE DEF f
<1> QED BY <1>2, <1>3, <1>4 DEF Open

\* An open keeps the types
LEMMA OpenType ==
    ASSUME DInv, Open
    PROVE  DInv'
<1>1. PICK f \in Fd \ Busy :
          /\ owner' = [owner EXCEPT ![f] = running]
          /\ list' = [list EXCEPT ![running] = Append(@, f)]
          /\ alive' = alive /\ hung' = hung /\ ProcessesKept'
  BY OpenStep
<1>2. running \in alive /\ running \in 0 .. MaxPid
  BY RunnerType DEF Open, DInv
<1>3. DescriptorsTypeOK
  BY DEF DInv
<1>4. owner' \in [Fd -> 0 .. MaxPid]
  BY <1>1, <1>2, <1>3 DEF DescriptorsTypeOK
<1>6. Append(list[running], f) \in Seq(Fd \cup {Gap})
  <2>1. list[running] \in Seq(Fd \cup {Gap}) /\ f \in Fd \cup {Gap}
    BY <1>2, <1>3 DEF DescriptorsTypeOK
  <2> QED BY <2>1, AppendProperties
<1>7. list' \in [alive' -> Seq(Fd \cup {Gap})]
  BY <1>1, <1>2, <1>3, <1>6 DEF DescriptorsTypeOK
<1> QED BY <1>1, <1>3, <1>4, <1>7 DEF DInv, DescriptorsTypeOK

\* A close keeps the types
LEMMA CloseType ==
    ASSUME DInv, NEW f \in Fd, Close(f)
    PROVE  DInv'
<1>1. /\ owner' = [owner EXCEPT ![f] = 0]
      /\ list' = [list EXCEPT ![running] = Emptied(running)]
      /\ hung' \in BOOLEAN
  BY DEF Close
<1>2. running \in alive /\ DescriptorsTypeOK
  BY RunnerType DEF Close, DInv
<1>3. alive' = alive /\ ProcessesKept'
  BY ProcessSteps DEF Close, DInv
<1>4. owner' \in [Fd -> 0 .. MaxPid]
  BY <1>1, <1>2, DescriptorConstants DEF DescriptorsTypeOK
<1>5. Emptied(running) \in Seq(Fd \cup {Gap})
  BY <1>2, EmptiedType DEF DescriptorsTypeOK
<1>6. list' \in [alive' -> Seq(Fd \cup {Gap})]
  BY <1>1, <1>2, <1>3, <1>5 DEF DescriptorsTypeOK
<1> QED BY <1>1, <1>3, <1>4, <1>6 DEF DInv, DescriptorsTypeOK

\* sys_sched_process_load, in sched_program and in the shell's exec
LEMMA LoadStep ==
    ASSUME DInv, Load \/ Exec
    PROVE  NewList /\ alive' = alive \cup {born + 1} /\ ProcessesKept'
BY ProcessSteps DEF Load, Exec, DInv

\* A process ends by itself or is killed
LEMMA EndStep ==
    ASSUME DInv, Exit \/ KillProcess
    PROVE  \E p \in alive : ClosesListed(p) /\ alive' = alive \ {p} /\ ProcessesKept'
<1>1. CASE Exit
  BY <1>1, ProcessSteps, RunnerType DEF Exit, DInv
<1>2. CASE KillProcess
  <2>1. PICK p \in alive \ alive' : ClosesListed(p)
    BY <1>2 DEF KillProcess
  <2>2. (\E q \in alive : alive' = alive \ {q}) /\ ProcessesKept'
    BY <1>2, ProcessSteps DEF KillProcess, DInv
  <2> QED BY <2>1, <2>2
<1> QED BY <1>1, <1>2

\* The rest of a step leaves the descriptors alone
LEMMA QuietStep ==
    ASSUME DInv, Yield \/ UNCHANGED dvars
    PROVE  alive' = alive /\ UNCHANGED <<owner, list, hung>> /\ ProcessesKept'
BY ProcessSteps DEF Yield, NothingOpens, dvars, DInv

\* Every step keeps the types
LEMMA NextType == DInv /\ [DNext]_dvars => DInv'
<1> SUFFICES ASSUME DInv, [DNext]_dvars PROVE DInv'
  OBVIOUS
<1>1. CASE Open
  BY <1>1, OpenType
<1>2. ASSUME NEW f \in Fd, Close(f) PROVE DInv'
  BY <1>2, CloseType
<1>3. CASE Load \/ Exec
  BY <1>3, LoadStep, LoadsLists DEF DInv, DescriptorsTypeOK, Lists
<1>4. CASE Exit \/ KillProcess
  <2>1. PICK p \in alive : ClosesListed(p) /\ alive' = alive \ {p} /\ ProcessesKept'
    BY <1>4, EndStep
  <2> QED BY <2>1, CleansLists DEF DInv, DescriptorsTypeOK, Lists
<1>5. CASE Yield \/ UNCHANGED dvars
  BY <1>5, QuietStep DEF DInv, DescriptorsTypeOK
<1> QED BY <1>1, <1>2, <1>3, <1>4, <1>5 DEF DNext

\* The types hold in the initial state
LEMMA InitType == DInit => DInv
<1> SUFFICES ASSUME DInit PROVE DInv
  OBVIOUS
<1>1. born = 0 /\ alive = {} /\ waiting = {} /\ running = 0
  BY DEF DInit, Init
<1>2. list \in [alive -> Seq(Fd \cup {Gap})] /\ hung \in BOOLEAN
  BY <1>1 DEF DInit
<1>3. owner \in [Fd -> 0 .. MaxPid]
  BY DescriptorConstants DEF DInit
<1>4. ProcessesKept
  BY <1>1, DescriptorConstants DEF ProcessesKept
<1> QED BY <1>1, <1>2, <1>3, <1>4 DEF DInv, DescriptorsTypeOK

\* A list of descriptors exists for exactly the live processes: a control
\* block is never walked that sys_sched_clean_pcb has cleaned.
THEOREM DescriptorTypes == DSpec => []DescriptorsTypeOK
<1>1. DSpec => []DInv
  BY InitType, NextType, PTL DEF DSpec
<1>2. DInv => DescriptorsTypeOK
  BY DEF DInv
<1> QED BY <1>1, <1>2, PTL

-----------------------------------------------------------------------------
(* No leak                                                                 *)

\* A column has a number
LEMMA ColumnType ==
    ASSUME DescriptorsTypeOK, NEW p \in alive, NEW i \in DOMAIN list[p]
    PROVE  Column(p, i) \in Nat /\ (list[p][i] # Gap => Column(p, i) >= 1)
<1> DEFINE S == {j \in 1 .. i : list[p][j] # Gap}
<1>1. i \in Nat /\ i \in 1 .. i
  BY DEF DescriptorsTypeOK
<1>2. IsFiniteSet(S)
  <2>1. IsFiniteSet(1 .. i)
    BY <1>1, FS_Interval
  <2> QED BY <2>1, FS_Subset
<1>3. list[p][i] # Gap => S # {}
  BY <1>1
<1> HIDE DEF S
<1>4. Cardinality(S) \in Nat /\ (S # {} => Cardinality(S) # 0)
  BY <1>2, FS_CardinalityType, FS_EmptySet
<1> QED BY <1>3, <1>4 DEF Column, S

\* sys_sched_process_rm_fd finds nothing among low descriptors
LEMMA NothingMatches ==
    ASSUME DescriptorsTypeOK, LowListed, NEW p \in alive
    PROVE  Matches(p) = {}
<1> SUFFICES ASSUME NEW j \in DOMAIN list[p], list[p][j] # Gap,
                    list[p][j] = FirstColumn + Column(p, j) - 1
             PROVE  FALSE
  BY DEF Matches
<1>1. Column(p, j) \in Nat /\ Column(p, j) >= 1
  BY ColumnType
<1>2. list[p][j] < FirstColumn
  BY DEF LowListed, Range
<1> QED BY <1>1, <1>2, DescriptorConstants

\* The lowest free descriptor is low: all below it are open
LEMMA LowestIsLow ==
    ASSUME DescriptorsTypeOK, FewOpen', NEW f \in Fd \ Busy,
           \A h \in Fd \ Busy : f <= h,
           NEW p, p # 0, owner' = [owner EXCEPT ![f] = p]
    PROVE  f < FirstColumn
<1>1. owner \in [Fd -> 0 .. MaxPid] /\ f \in Nat /\ MaxFd \in Nat /\ f \in 0 .. MaxFd - 1
  BY DescriptorConstants DEF DescriptorsTypeOK, Fd
<1>2. 0 .. f \subseteq Busy'
  <2>1. SUFFICES ASSUME NEW h \in 0 .. f PROVE h \in Fd /\ owner'[h] # 0
    BY DEF Busy
  <2>2. h \in Fd
    BY <1>1 DEF Fd
  <2>3. CASE h = f
    BY <1>1, <2>2, <2>3
  <2>4. CASE h # f
    <3>1. h \in Busy
      BY <1>1, <2>2, <2>4
    <3> QED BY <1>1, <2>2, <2>4, <3>1 DEF Busy
  <2> QED BY <2>2, <2>3, <2>4
<1>3. IsFiniteSet(Busy')
  <2>1. Busy' \subseteq 0 .. MaxFd - 1
    BY DEF Busy, Fd
  <2>2. IsFiniteSet(0 .. MaxFd - 1)
    BY <1>1, FS_Interval
  <2> QED BY <2>1, <2>2, FS_Subset
<1>4. Cardinality(0 .. f) = f + 1
  BY <1>1, FS_Interval
<1>5. Cardinality(0 .. f) <= Cardinality(Busy') /\ Cardinality(Busy') \in Nat
  BY <1>2, <1>3, FS_Subset, FS_CardinalityType
<1>6. Cardinality(Busy') <= FirstColumn
  BY DEF FewOpen
<1> QED BY <1>1, <1>4, <1>5, <1>6, DescriptorConstants

\* An open leaks no descriptor
LEMMA OpenNoLeak ==
    ASSUME LInv, DInv', FewOpen', Open
    PROVE  LInv'
<1>1. PICK f \in Fd \ Busy :
          /\ \A h \in Fd \ Busy : f <= h
          /\ owner' = [owner EXCEPT ![f] = running]
          /\ list' = [list EXCEPT ![running] = Append(@, f)]
          /\ alive' = alive /\ hung' = hung
  BY OpenStep DEF LInv
<1>2. running \in alive /\ DescriptorsTypeOK
  BY RunnerType DEF Open, LInv, DInv
<1>3. /\ owner \in [Fd -> 0 .. MaxPid] /\ DOMAIN list = alive
      /\ list[running] \in Seq(Fd \cup {Gap})
  BY <1>2 DEF DescriptorsTypeOK
<1>4. Range(Append(list[running], f)) = Range(list[running]) \cup {f}
  BY <1>3, AppendProperties DEF Range
<1>5. list'[running] = Append(list[running], f)
      /\ \A p \in alive : p # running => list'[p] = list[p]
  BY <1>1, <1>2, <1>3
<1>6. \A p \in alive' : Gap \notin Range(list'[p])
  BY <1>1, <1>4, <1>5 DEF LInv, NoGap, Fd, Gap
<1>8. LowListed'
  <2>1. f < FirstColumn
    BY <1>1, <1>2, RunnerType, LowestIsLow DEF Open, LInv, DInv
  <2> QED BY <1>1, <1>4, <1>5, <2>1 DEF LInv, LowListed
<1>7. ASSUME NEW g \in Fd, owner'[g] # 0
      PROVE  owner'[g] \in alive' /\ g \in Range(list'[owner'[g]]) \ {Gap}
  <2>1. CASE g = f
    BY <1>1, <1>2, <1>3, <1>4, <1>5, <2>1 DEF Fd, Gap
  <2>2. CASE g # f
    <3>1. owner'[g] = owner[g] /\ g \in Busy
      BY <1>1, <1>3, <1>7, <2>2 DEF Busy
    <3>2. owner[g] \in alive /\ g \in Range(list[owner[g]]) \ {Gap}
      BY <3>1 DEF LInv, NoDescriptorLeaks, Listed
    <3>3. Range(list[owner[g]]) \subseteq Range(list'[owner[g]])
      BY <1>4, <1>5, <3>2
    <3> QED BY <1>1, <3>1, <3>2, <3>3
  <2> QED BY <2>1, <2>2
<1> QED BY <1>1, <1>6, <1>7, <1>8 DEF LInv, NoGap, LowListed, NoDescriptorLeaks, KernelReturns, Busy, Listed

\* A close leaks no descriptor
LEMMA CloseNoLeak ==
    ASSUME LInv, DInv', NEW f \in Fd, Close(f)
    PROVE  LInv'
<1>1. running \in alive /\ DescriptorsTypeOK /\ ProcessesKept /\ ~hung
  BY RunnerType DEF Close, LInv, DInv, Executes
<1>2. Matches(running) = {}
  BY <1>1, NothingMatches DEF LInv
<1>3. /\ owner' = [owner EXCEPT ![f] = 0] /\ owner \in [Fd -> 0 .. MaxPid]
      /\ list' = list /\ hung' = FALSE /\ alive' = alive
  <2>1. list' = [list EXCEPT ![running] = list[running]]
    BY <1>2 DEF Close, Emptied
  <2>2. list = [p \in alive |-> list[p]]
    BY <1>1 DEF DescriptorsTypeOK
  <2>3. list' = list
    BY <2>1, <2>2
  <2>4. hung' = FALSE
    BY <1>2 DEF Close
  <2>5. alive' = alive
    BY <1>1, ProcessSteps DEF Close
  <2> QED BY <1>1, <2>3, <2>4, <2>5 DEF Close, DescriptorsTypeOK
<1>4. Busy' \subseteq Busy /\ \A g \in Busy' : owner'[g] = owner[g]
  BY <1>3 DEF Busy
<1> QED BY <1>3, <1>4 DEF LInv, NoGap, LowListed, NoDescriptorLeaks, KernelReturns, Listed

\* A load leaks no descriptor
LEMMA LoadNoLeak ==
    ASSUME LInv, DInv', Load \/ Exec
    PROVE  LInv'
<1>1. NewList /\ alive' = alive \cup {born + 1}
  BY LoadStep DEF LInv
<1>2. /\ owner' = owner /\ hung' = hung
      /\ \A p \in alive' : list'[p] = IF p \in alive THEN list[p] ELSE <<>>
  BY <1>1, LoadsLists DEF LInv, DInv
<1>3. Range(<<>>) = {}
  BY DEF Range
<1>4. NoGap' /\ LowListed'
  BY <1>2, <1>3 DEF LInv, NoGap, LowListed
<1>5. NoDescriptorLeaks'
  BY <1>1, <1>2 DEF LInv, NoDescriptorLeaks, Busy, Listed
<1> QED BY <1>2, <1>4, <1>5 DEF LInv, KernelReturns

\* What the process that ends had open is in its own list, and is closed
LEMMA EndNoLeak ==
    ASSUME LInv, DInv', Exit \/ KillProcess
    PROVE  LInv'
<1>1. PICK p \in alive : ClosesListed(p) /\ alive' = alive \ {p}
  BY EndStep DEF LInv
<1>2. /\ hung' = hung /\ \A q \in alive' : list'[q] = list[q]
      /\ \A f \in Fd : owner'[f] = IF f \in Listed(p) THEN 0 ELSE owner[f]
  BY <1>1, CleansLists DEF LInv, DInv
<1>3. NoGap' /\ LowListed'
  BY <1>1, <1>2 DEF LInv, NoGap, LowListed
<1>4. ASSUME NEW f \in Fd, owner'[f] # 0
      PROVE  owner'[f] \in alive' /\ f \in Range(list'[owner'[f]]) \ {Gap}
  <2>1. f \notin Listed(p) /\ owner'[f] = owner[f] /\ f \in Busy
    BY <1>2, <1>4 DEF Busy
  <2>2. owner[f] \in alive /\ f \in Listed(owner[f])
    BY <2>1 DEF LInv, NoDescriptorLeaks
  <2>3. owner[f] # p
    BY <2>1, <2>2
  <2> QED BY <1>1, <1>2, <2>1, <2>2, <2>3 DEF Listed
<1> QED BY <1>2, <1>3, <1>4 DEF LInv, NoDescriptorLeaks, KernelReturns, Busy, Listed

\* No step leaks a descriptor
LEMMA NextNoLeak == LInv /\ FewOpen' /\ [DNext]_dvars => LInv'
<1> SUFFICES ASSUME LInv, FewOpen', [DNext]_dvars PROVE LInv'
  OBVIOUS
<1>1. DInv'
  BY NextType DEF LInv
<1>2. CASE Open
  BY <1>1, <1>2, OpenNoLeak
<1>3. ASSUME NEW f \in Fd, Close(f) PROVE LInv'
  BY <1>1, <1>3, CloseNoLeak
<1>4. CASE Load \/ Exec
  BY <1>1, <1>4, LoadNoLeak
<1>5. CASE Exit \/ KillProcess
  BY <1>1, <1>5, EndNoLeak
<1>6. CASE Yield \/ UNCHANGED dvars
  <2>1. alive' = alive /\ UNCHANGED <<owner, list, hung>>
    BY <1>6, QuietStep DEF LInv
  <2> QED BY <1>1, <2>1 DEF LInv, NoGap, LowListed, NoDescriptorLeaks, KernelReturns, Busy, Listed
<1> QED BY <1>2, <1>3, <1>4, <1>5, <1>6 DEF DNext

\* It is an invariant, as long as few are open
LEMMA LInvariance == DSpec /\ []FewOpen => []LInv
<1>1. DInit => LInv
  BY InitType
     DEF DInit, Init, LInv, NoDescriptorLeaks, NoGap, LowListed, KernelReturns, Busy
<1>2. LInv /\ FewOpen' /\ [DNext]_dvars => LInv'
  BY NextNoLeak
<1> QED BY <1>1, <1>2, PTL DEF DSpec

\* However many processes open, close, exit and are killed, and whoever
\* closes whose descriptors: what is open is in the list of the live process
\* that opened it, so sys_sched_clean_pcb will close it (kernel/04_sched.kga).
THEOREM NoLeak == DSpec /\ []FewOpen => []NoDescriptorLeaks
<1>1. LInv => NoDescriptorLeaks
  BY DEF LInv
<1> QED BY <1>1, LInvariance, PTL

\* and no list ever has two separators with nothing between them, on which
\* sys_remove_unneeded_spaces would loop.
THEOREM NoHang == DSpec /\ []FewOpen => []KernelReturns
<1>1. LInv => KernelReturns
  BY DEF LInv
<1> QED BY <1>1, LInvariance, PTL

\* A table that is no larger than the columns before a list keeps to that:
\* nothing has to be assumed of the programs.
THEOREM SmallTable == MaxFd <= FirstColumn /\ DSpec => []FewOpen
<1> SUFFICES ASSUME MaxFd <= FirstColumn PROVE DSpec => []FewOpen
  OBVIOUS
<1>1. FewOpen
  <2>1. MaxFd \in Nat /\ FirstColumn \in Nat
    BY DescriptorConstants
  <2>2. IsFiniteSet(0 .. MaxFd - 1) /\ Cardinality(0 .. MaxFd - 1) = MaxFd
    BY <2>1, FS_Interval
  <2>3. Busy \subseteq 0 .. MaxFd - 1
    BY DEF Busy, Fd
  <2>4. Cardinality(Busy) \in Nat /\ Cardinality(Busy) <= MaxFd
    BY <2>2, <2>3, FS_Subset, FS_CardinalityType
  <2> QED BY <2>1, <2>4 DEF FewOpen
<1> QED BY <1>1, PTL
=============================================================================
