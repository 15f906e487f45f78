--------------------------- MODULE AssemblerProofs ---------------------------
(***************************************************************************)
(* Proofs about the assembler, for every set of lines, every table of      *)
(* symbols and sources of any length: a source has an error exactly if one *)
(* is reported, and the image and the map of one that has none mean what   *)
(* its lines say.                                                          *)
(***************************************************************************)
EXTENDS Assembler, Lemmas

\* A sequence of whatever its elements are
SeqOK(s) == s \in Seq(Range(s))

\* The types, with what is known of the tables before they are complete
TInv ==
    /\ AssemblerTypeOK
    /\ SeqOK(instrs) /\ SeqOK(variables) /\ SeqOK(constants) /\ SeqOK(output)
    /\ phase # "done" => errors <= MaxErrors
    /\ \A k \in DOMAIN instrs : instrs[k].lex = Lexemes(lines[instrs[k].line])

\* The constants that are numbers
LEMMA Numbers == First \in Nat /\ MaxErrors \in Nat /\ MaxLines \in Nat
BY AssemblerConstants

\* A sequence is one of its own elements
LEMMA SeqAny ==
    ASSUME NEW T, NEW s \in Seq(T)
    PROVE  SeqOK(s) /\ Len(s) \in Nat /\ DOMAIN s = 1 .. Len(s)
<1>1. Len(s) \in Nat /\ DOMAIN s = 1 .. Len(s) /\ s = [i \in 1 .. Len(s) |-> s[i]]
  BY LenProperties
<1>2. \A i \in 1 .. Len(s) : s[i] \in Range(s)
  BY <1>1 DEF Range
<1> QED BY <1>1, <1>2 DEF SeqOK

\* One more element, at the end
LEMMA SeqAppend ==
    ASSUME NEW s, NEW e, SeqOK(s)
    PROVE  /\ SeqOK(Append(s, e))
           /\ Len(s) \in Nat /\ DOMAIN s = 1 .. Len(s)
           /\ Len(Append(s, e)) = Len(s) + 1
           /\ DOMAIN Append(s, e) = 1 .. Len(s) + 1
           /\ \A i \in DOMAIN s : Append(s, e)[i] = s[i]
           /\ Append(s, e)[Len(s) + 1] = e
<1> DEFINE T == Range(s) \cup {e}
<1>1. Len(s) \in Nat /\ DOMAIN s = 1 .. Len(s) /\ s = [i \in 1 .. Len(s) |-> s[i]]
  BY LenProperties DEF SeqOK
<1>2. s \in Seq(T)
  <2>1. \A i \in 1 .. Len(s) : s[i] \in T
    BY <1>1 DEF Range
  <2> HIDE DEF T
  <2> QED BY <1>1, <2>1
<1>3. e \in T
  OBVIOUS
<1> HIDE DEF T
<1>4. /\ Append(s, e) \in Seq(T) /\ Len(Append(s, e)) = Len(s) + 1
      /\ \A i \in 1 .. Len(s) : Append(s, e)[i] = s[i]
      /\ Append(s, e)[Len(s) + 1] = e
  BY <1>2, <1>3, AppendProperties
<1>5. SeqOK(Append(s, e)) /\ DOMAIN Append(s, e) = 1 .. Len(Append(s, e))
  BY <1>4, SeqAny
<1> QED BY <1>1, <1>4, <1>5

\* A function on 1 .. n is a sequence of n elements
LEMMA SeqMake ==
    ASSUME NEW n \in Nat, NEW f, f = [i \in 1 .. n |-> f[i]]
    PROVE  SeqOK(f) /\ Len(f) = n /\ DOMAIN f = 1 .. n
<1>1. \A i \in 1 .. n : f[i] \in Range(f)
  BY DEF Range
<1>2. f \in Seq(Range(f)) /\ Len(f) = n
  BY <1>1
<1> QED BY <1>2, LenProperties DEF SeqOK

\* A line that is read is the last one, and the others stay
LEMMA LinesGrow ==
    ASSUME NEW l \in Line, Reads(l), lines \in Seq(Line)
    PROVE  /\ phase = "pass1" /\ lines' \in Seq(Line)
           /\ Len(lines) \in Nat /\ DOMAIN lines = 1 .. Len(lines)
           /\ Len(lines') = Len(lines) + 1 /\ DOMAIN lines' = 1 .. Len(lines) + 1
           /\ Len(lines') <= MaxLines
           /\ \A i \in DOMAIN lines : lines'[i] = lines[i]
           /\ lines'[Len(lines) + 1] = l
<1>1. phase = "pass1" /\ lines' = Append(lines, l) /\ Len(lines) < MaxLines
  BY DEF Reads
<1>2. /\ Append(lines, l) \in Seq(Line) /\ Len(Append(lines, l)) = Len(lines) + 1
      /\ \A i \in 1 .. Len(lines) : Append(lines, l)[i] = lines[i]
      /\ Append(lines, l)[Len(lines) + 1] = l
  BY AppendProperties
<1>3. /\ Len(lines) \in Nat /\ DOMAIN lines = 1 .. Len(lines)
      /\ DOMAIN Append(lines, l) = 1 .. Len(Append(lines, l))
  BY <1>2, SeqAny
<1>4. Len(lines) + 1 <= MaxLines
  BY <1>1, <1>3, Numbers
<1> QED BY <1>1, <1>2, <1>3, <1>4

-----------------------------------------------------------------------------
(* Types *)

\* A step in which nothing is decided
Steady == UNCHANGED <<phase, errors, result>>

\* Before the end there is no result, and there are not too many errors
LEMMA Running ==
    ASSUME TInv, phase # "done"
    PROVE  errors \in Nat /\ errors <= MaxErrors /\ result = "none"
<1>1. errors \in 0 .. MaxErrors + 1 /\ result = "none"
  BY DEF TInv, AssemblerTypeOK
<1>2. errors <= MaxErrors
  BY DEF TInv
<1> QED BY <1>1, <1>2, Numbers

\* Errors end the run once they are too many, and only then
LEMMA FailsType ==
    ASSUME TInv, NEW n \in Nat, phase \in {"pass1", "pass2"}, Fails(n)
    PROVE  /\ errors' \in 0 .. MaxErrors + 1
           /\ phase' # "done" => errors' <= MaxErrors
           /\ phase' = "done" <=> result' # "none"
           /\ result' \in {"none", "aborted"}
           /\ phase' = phase \/ phase' = "done"
           /\ phase' = phase => errors' = errors + n
           /\ phase' = "done" => errors' = MaxErrors + 1
<1>1. errors \in Nat /\ MaxErrors \in Nat /\ errors <= MaxErrors /\ result = "none"
  BY Running, Numbers
<1>2. CASE errors + n > MaxErrors
  BY <1>1, <1>2 DEF Fails
<1>3. CASE ~(errors + n > MaxErrors)
  BY <1>1, <1>3 DEF Fails
<1> QED BY <1>2, <1>3

\* The types hold in the initial state
LEMMA TInit == Init => TInv
<1> SUFFICES ASSUME Init PROVE TInv
  OBVIOUS
<1>1. \A T : <<>> \in Seq(T)
  OBVIOUS
<1>2. SeqOK(<<>>)
  BY <1>1 DEF SeqOK
<1>3. Len(<<>>) = 0 /\ DOMAIN <<>> = {}
  OBVIOUS
<1>4. AssemblerTypeOK
  <2>1. lines \in Seq(Line) /\ Len(lines) <= MaxLines /\ next = First + Len(instrs)
        /\ errors \in 0 .. MaxErrors + 1 /\ Len(output) <= Len(instrs)
    BY <1>1, <1>3, Numbers DEF Init
  <2>2. DOMAIN instrs = {} /\ DOMAIN labels = {} /\ phase = "pass1" /\ result = "none"
    BY <1>3 DEF Init
  <2> QED BY <2>1, <2>2 DEF AssemblerTypeOK
<1>5. errors <= MaxErrors /\ DOMAIN instrs = {}
  BY <1>3, Numbers DEF Init
<1> QED BY <1>2, <1>4, <1>5 DEF Init, TInv

\* What a line leaves behind of the right type
LEMMA ReadType ==
    ASSUME TInv, NEW l \in Line, Reads(l), Goes \/ Fails(1),
           SeqOK(instrs'), SeqOK(variables'), SeqOK(constants'),
           \A k \in DOMAIN instrs' : /\ instrs'[k].line \in DOMAIN lines'
                                     /\ instrs'[k].lex = Lexemes(lines'[instrs'[k].line]),
           \A n \in DOMAIN labels' : labels'[n] \in First .. First + Len(instrs'),
           next' = First + Len(instrs'), Len(instrs) <= Len(instrs')
    PROVE  TInv'
<1>1. /\ phase = "pass1" /\ lines' \in Seq(Line) /\ Len(lines') <= MaxLines
  BY LinesGrow DEF TInv, AssemblerTypeOK
<1>2. output' = output
  BY DEF Reads
<1>3. /\ errors' \in 0 .. MaxErrors + 1
      /\ phase' # "done" => errors' <= MaxErrors
      /\ phase' = "done" <=> result' # "none"
      /\ result' \in {"none", "aborted"}
      /\ phase' \in {"pass1", "done"}
  <2>1. CASE Goes
    <3>1. errors \in Nat /\ errors <= MaxErrors /\ result = "none"
      BY <1>1, Running
    <3> QED BY <1>1, <2>1, <3>1, Numbers DEF Goes
  <2>2. CASE Fails(1)
    BY <1>1, <2>2, FailsType
  <2> QED BY <2>1, <2>2
<1>4. Len(output') <= Len(instrs')
  <2>1. Len(output) \in Nat /\ Len(instrs) \in Nat /\ Len(instrs') \in Nat
    BY SeqAny DEF TInv, SeqOK
  <2>2. Len(output) <= Len(instrs)
    BY DEF TInv, AssemblerTypeOK
  <2> QED BY <1>2, <2>1, <2>2
<1>5. AssemblerTypeOK'
  BY <1>1, <1>3, <1>4 DEF AssemblerTypeOK
<1>6. SeqOK(output')
  BY <1>2 DEF TInv
<1> QED BY <1>3, <1>5, <1>6 DEF TInv

\* The instructions that were there stay what they were
LEMMA InstrsKept ==
    ASSUME TInv, NEW l \in Line, Reads(l), NEW k \in DOMAIN instrs
    PROVE  /\ instrs[k].line \in DOMAIN lines /\ instrs[k].line \in DOMAIN lines'
           /\ lines'[instrs[k].line] = lines[instrs[k].line]
           /\ instrs[k].lex = Lexemes(lines'[instrs[k].line])
<1>1. instrs[k].line \in DOMAIN lines /\ instrs[k].lex = Lexemes(lines[instrs[k].line])
  BY DEF TInv, AssemblerTypeOK
<1>2. lines \in Seq(Line)
  BY DEF TInv, AssemblerTypeOK
<1>3. DOMAIN lines \subseteq DOMAIN lines' /\ \A i \in DOMAIN lines : lines'[i] = lines[i]
  BY <1>2, LinesGrow
<1> QED BY <1>1, <1>3

\* In pass 1 the next address is that of the next instruction, and no label is
\* behind it
LEMMA LabelNumbers ==
    ASSUME TInv, phase = "pass1"
    PROVE  /\ next = First + Len(instrs) /\ Len(instrs) \in Nat
           /\ \A n \in DOMAIN labels : labels[n] \in First .. First + Len(instrs)
<1>1. Len(instrs) \in Nat
  BY SeqAny DEF TInv, SeqOK
<1> QED BY <1>1 DEF TInv, AssemblerTypeOK

\* A line that is skipped or refused keeps the types
LEMMA QuietLineType ==
    ASSUME TInv, NEW l \in Line, Reads(l), Goes \/ Fails(1),
           UNCHANGED <<instrs, labels, constants, next>>, SeqOK(variables')
    PROVE  TInv'
<1>1. phase = "pass1"
  BY DEF Reads
<1>2. next' = First + Len(instrs') /\ Len(instrs) <= Len(instrs')
      /\ \A n \in DOMAIN labels' : labels'[n] \in First .. First + Len(instrs')
  BY <1>1, LabelNumbers
<1>3. SeqOK(instrs') /\ SeqOK(constants')
  BY DEF TInv
<1>4. \A k \in DOMAIN instrs' : /\ instrs'[k].line \in DOMAIN lines'
                                /\ instrs'[k].lex = Lexemes(lines'[instrs'[k].line])
  BY InstrsKept
<1> QED BY <1>2, <1>3, <1>4, ReadType

\* The declaration of a variable keeps the types
LEMMA DeclareVariableType ==
    ASSUME TInv, NEW l \in Line, DeclareVariable(l) PROVE TInv'
<1>1. Reads(l) /\ Goes
  BY DEF DeclareVariable, Accepted
<1>2. SeqOK(variables')
  <2>1. SeqOK(variables)
    BY DEF TInv
  <2> QED BY <2>1, SeqAppend DEF DeclareVariable
<1> QED BY <1>1, <1>2, QuietLineType DEF DeclareVariable

\* The declaration of a label keeps the types
LEMMA DeclareLabelType ==
    ASSUME TInv, NEW l \in Line, DeclareLabel(l) PROVE TInv'
<1>1. Reads(l) /\ Goes /\ phase = "pass1"
  BY DEF DeclareLabel, Accepted, Reads
<1>2. UNCHANGED <<instrs, variables, constants, next>>
  BY DEF DeclareLabel
<1>3. /\ next = First + Len(instrs) /\ Len(instrs) \in Nat
      /\ \A n \in DOMAIN labels : labels[n] \in First .. First + Len(instrs)
  BY <1>1, LabelNumbers
<1>4. \A n \in DOMAIN labels' : labels'[n] \in First .. First + Len(instrs')
  <2>1. \A n \in DOMAIN labels' : labels'[n] = next \/ (n \in DOMAIN labels /\ labels'[n] = labels[n])
    BY DEF DeclareLabel
  <2>2. next \in First .. First + Len(instrs)
    BY <1>3, Numbers
  <2> QED BY <1>2, <1>3, <2>1, <2>2
<1>5. SeqOK(instrs') /\ SeqOK(constants') /\ SeqOK(variables')
  BY <1>2 DEF TInv
<1>6. \A k \in DOMAIN instrs' : /\ instrs'[k].line \in DOMAIN lines'
                                /\ instrs'[k].lex = Lexemes(lines'[instrs'[k].line])
  BY <1>1, <1>2, InstrsKept
<1> QED BY <1>1, <1>2, <1>3, <1>4, <1>5, <1>6, ReadType

\* The table of constants stays a sequence
LEMMA WithConstantIs ==
    ASSUME NEW cs, NEW x, SeqOK(cs)
    PROVE  SeqOK(WithConstant(cs, x))
BY SeqAppend DEF WithConstant

\* An instruction keeps the types
LEMMA AddInstructionType ==
    ASSUME TInv, NEW l \in Line, AddInstruction(l) PROVE TInv'
<1>1. Reads(l) /\ Goes /\ phase = "pass1"
  BY DEF AddInstruction, Accepted, Reads
<1>2. UNCHANGED <<labels, variables>> /\ next' = next + 1
  BY DEF AddInstruction
<1>3. /\ next = First + Len(instrs) /\ Len(instrs) \in Nat
      /\ \A n \in DOMAIN labels : labels[n] \in First .. First + Len(instrs)
  BY <1>1, LabelNumbers
<1> DEFINE new == [lex |-> Lexemes(l), line |-> Len(lines')]
<1>4. /\ SeqOK(instrs')
      /\ DOMAIN instrs = 1 .. Len(instrs)
      /\ Len(instrs') = Len(instrs) + 1
      /\ DOMAIN instrs' = 1 .. Len(instrs) + 1
      /\ \A i \in DOMAIN instrs : instrs'[i] = instrs[i]
      /\ instrs'[Len(instrs) + 1] = new
  <2>1. SeqOK(instrs) /\ instrs' = Append(instrs, new)
    BY DEF TInv, AddInstruction
  <2> HIDE DEF new
  <2> QED BY <2>1, SeqAppend
<1>5. SeqOK(constants') /\ SeqOK(variables')
  BY <1>2, WithConstantIs DEF TInv, AddInstruction
<1>6. \A n \in DOMAIN labels' : labels'[n] \in First .. First + Len(instrs')
  BY <1>2, <1>3, <1>4, Numbers
<1>7. ASSUME NEW k \in DOMAIN instrs'
      PROVE  /\ instrs'[k].line \in DOMAIN lines'
             /\ instrs'[k].lex = Lexemes(lines'[instrs'[k].line])
  <2>1. CASE k \in DOMAIN instrs
    BY <1>1, <1>4, <2>1, InstrsKept
  <2>2. CASE k \notin DOMAIN instrs
    <3>1. k = Len(instrs) + 1 /\ instrs'[k].lex = Lexemes(l) /\ instrs'[k].line = Len(lines')
      BY <1>3, <1>4, <2>2
    <3>2. lines \in Seq(Line)
      BY DEF TInv, AssemblerTypeOK
    <3>3. Len(lines') \in DOMAIN lines' /\ lines'[Len(lines')] = l
      BY <1>1, <3>2, LinesGrow
    <3> QED BY <3>1, <3>3
  <2> QED BY <2>1, <2>2
<1>8. next' = First + Len(instrs') /\ Len(instrs) <= Len(instrs')
  BY <1>2, <1>3, <1>4, Numbers
<1> QED BY <1>1, <1>4, <1>5, <1>6, <1>7, <1>8, ReadType

\* What a later step leaves behind of the right type
LEMMA StepType ==
    ASSUME TInv, UNCHANGED <<lines, instrs, labels>>,
           SeqOK(variables'), SeqOK(constants'), SeqOK(output'),
           Len(output') <= Len(instrs),
           phase' \in {"addresses", "open", "pass2", "map", "done"},
           errors' \in 0 .. MaxErrors + 1,
           phase' # "done" => errors' <= MaxErrors,
           phase' = "done" <=> result' # "none",
           result' \in {"none", "succeeded", "warned", "failed", "aborted"},
           phase' = "addresses" => next' = First + Len(instrs),
           phase' \in {"open", "pass2", "map"} =>
              next' = First + Len(instrs) + Len(constants') + Len(variables')
    PROVE  TInv'
<1>1. AssemblerTypeOK'
  <2>1. /\ lines \in Seq(Line) /\ Len(lines) <= MaxLines
        /\ \A i \in DOMAIN instrs : instrs[i].line \in DOMAIN lines
        /\ \A n \in DOMAIN labels : labels[n] \in First .. First + Len(instrs)
    BY DEF TInv, AssemblerTypeOK
  <2> QED BY <2>1 DEF AssemblerTypeOK
<1>2. SeqOK(instrs') /\ \A k \in DOMAIN instrs' : instrs'[k].lex = Lexemes(lines'[instrs'[k].line])
  BY DEF TInv
<1> QED BY <1>1, <1>2 DEF TInv

\* What most of them keep
LEMMA StepKeeps ==
    ASSUME TInv
    PROVE  /\ SeqOK(variables) /\ SeqOK(constants) /\ SeqOK(output)
           /\ Len(variables) \in Nat /\ Len(constants) \in Nat
           /\ Len(output) \in Nat /\ Len(instrs) \in Nat /\ Len(output) <= Len(instrs)
           /\ errors \in 0 .. MaxErrors + 1
           /\ phase \in {"open", "pass2", "map"} =>
                 next = First + Len(instrs) + Len(constants) + Len(variables)
           /\ phase \in {"pass1", "addresses"} => next = First + Len(instrs)
<1>1. SeqOK(instrs) /\ SeqOK(variables) /\ SeqOK(constants) /\ SeqOK(output)
  BY DEF TInv
<1>2. /\ Len(variables) \in Nat /\ Len(constants) \in Nat
      /\ Len(output) \in Nat /\ Len(instrs) \in Nat
  BY <1>1, SeqAny DEF SeqOK
<1> QED BY <1>1, <1>2 DEF TInv, AssemblerTypeOK

\* The end of pass 1 keeps the types
LEMMA EndOfSourceType == ASSUME TInv, EndOfSource PROVE TInv'
<1>1. phase = "pass1" /\ UNCHANGED <<source, errors, output>>
  BY DEF EndOfSource
<1>2. errors \in Nat /\ errors <= MaxErrors /\ result = "none"
  BY <1>1, Running
<1>3. \/ phase' = "addresses" /\ result' = "none"
      \/ phase' = "done" /\ result' = "failed"
  BY <1>2 DEF EndOfSource, Return
<1> QED BY <1>1, <1>2, <1>3, StepKeeps, StepType DEF source

\* A file that cannot be opened keeps the types
LEMMA CannotOpenType == ASSUME TInv, CannotOpen PROVE TInv'
<1>1. UNCHANGED <<source, errors, output>> /\ phase' = "done" /\ result' = "failed"
  BY DEF CannotOpen, Return
<1> QED BY <1>1, StepKeeps, StepType DEF source

\* The tables keep their lengths when they get addresses
LEMMA CalculateAddressesIs ==
    ASSUME TInv, CalculateAddresses
    PROVE  /\ phase = "addresses" /\ phase' = "open"
           /\ SeqOK(constants') /\ Len(constants') = Len(constants)
           /\ DOMAIN constants' = 1 .. Len(constants) /\ DOMAIN constants = 1 .. Len(constants)
           /\ SeqOK(variables') /\ Len(variables') = Len(variables)
           /\ DOMAIN variables' = 1 .. Len(variables) /\ DOMAIN variables = 1 .. Len(variables)
<1>1. SeqOK(constants) /\ SeqOK(variables)
  BY DEF TInv
<1>2. /\ DOMAIN constants = 1 .. Len(constants) /\ Len(constants) \in Nat
      /\ DOMAIN variables = 1 .. Len(variables) /\ Len(variables) \in Nat
  BY <1>1, SeqAny DEF SeqOK
<1>3. constants' = [i \in 1 .. Len(constants) |-> constants'[i]]
  BY <1>2 DEF CalculateAddresses
<1>4. variables' = [i \in 1 .. Len(variables) |-> variables'[i]]
  BY <1>2 DEF CalculateAddresses
<1>5. SeqOK(constants') /\ Len(constants') = Len(constants) /\ DOMAIN constants' = 1 .. Len(constants)
  BY <1>2, <1>3, SeqMake
<1>6. SeqOK(variables') /\ Len(variables') = Len(variables) /\ DOMAIN variables' = 1 .. Len(variables)
  BY <1>2, <1>4, SeqMake
<1> QED BY <1>2, <1>5, <1>6 DEF CalculateAddresses

\* The addresses keep the types
LEMMA CalculateAddressesType == ASSUME TInv, CalculateAddresses PROVE TInv'
<1>1. /\ UNCHANGED <<lines, instrs, labels, errors, output, result>>
      /\ next' = next + Len(constants) + Len(variables)
  BY DEF CalculateAddresses
<1>2. /\ phase = "addresses" /\ phase' = "open"
      /\ SeqOK(constants') /\ Len(constants') = Len(constants)
      /\ SeqOK(variables') /\ Len(variables') = Len(variables)
  BY CalculateAddressesIs
<1>3. errors \in Nat /\ errors <= MaxErrors /\ result = "none"
  BY <1>2, Running
<1>4. next' = First + Len(instrs) + Len(constants') + Len(variables')
  BY <1>1, <1>2, StepKeeps, Numbers
<1> QED BY <1>1, <1>2, <1>3, <1>4, StepKeeps, StepType

\* The image that is opened keeps the types
LEMMA OpenType == ASSUME TInv, Open PROVE TInv'
<1>1. UNCHANGED <<source, errors, output, result>> /\ phase = "open" /\ phase' = "pass2"
  BY DEF Open
<1>2. errors \in Nat /\ errors <= MaxErrors /\ result = "none"
  BY <1>1, Running
<1> QED BY <1>1, <1>2, StepKeeps, StepType DEF source

\* The lexemes of an instruction are finite in number
UndefinedOf(lex) == {i \in DOMAIN lex : Undefined(lex[1].v, i, lex[i])}

\* An instruction has the lexemes of its line, finitely many of them undefined
LEMMA LexemesOf ==
    ASSUME TInv, NEW k \in DOMAIN instrs
    PROVE  /\ instrs[k].line \in DOMAIN lines /\ lines[instrs[k].line] \in Line
           /\ instrs[k].lex = Lexemes(lines[instrs[k].line])
           /\ IsFiniteSet(UndefinedOf(instrs[k].lex))
<1>1. /\ instrs[k].line \in DOMAIN lines /\ lines \in Seq(Line)
      /\ instrs[k].lex = Lexemes(lines[instrs[k].line])
  BY DEF TInv, AssemblerTypeOK
<1>2. PICK l \in Line : l = lines[instrs[k].line]
  BY <1>1
<1>3. l.tokens \in Seq(Range(l.tokens))
  BY AssemblerConstants
<1>4. DOMAIN l.tokens = 1 .. Len(l.tokens) /\ Len(l.tokens) \in Nat
  BY <1>3, SeqAny
<1>5. DOMAIN instrs[k].lex = 1 .. Len(l.tokens)
  BY <1>1, <1>2, <1>4 DEF Lexemes
<1>6. IsFiniteSet(DOMAIN instrs[k].lex)
  BY <1>4, <1>5, FS_Interval
<1>7. UndefinedOf(instrs[k].lex) \subseteq DOMAIN instrs[k].lex
  BY DEF UndefinedOf
<1> QED BY <1>1, <1>2, <1>6, <1>7, FS_Subset

\* Pass 2 appends the code of the next instruction
LEMMA EmitInstructionIs ==
    ASSUME TInv, EmitInstruction
    PROVE  /\ phase = "pass2" /\ Len(output) + 1 \in DOMAIN instrs
           /\ SeqOK(output') /\ Len(output') = Len(output) + 1
           /\ DOMAIN output = 1 .. Len(output)
           /\ DOMAIN output' = 1 .. Len(output) + 1
           /\ \A k \in DOMAIN output : output'[k] = output[k]
           /\ output'[Len(output) + 1] = Encoded(instrs[Len(output) + 1].lex)
           /\ Cardinality(UndefinedOf(instrs[Len(output) + 1].lex)) \in Nat
           /\ Fails(Cardinality(UndefinedOf(instrs[Len(output) + 1].lex)))
<1> DEFINE k == Len(output) + 1
<1>1. /\ phase = "pass2" /\ Len(output) < Len(instrs)
      /\ output' = Append(output, Encoded(instrs[k].lex))
      /\ Fails(Cardinality(UndefinedOf(instrs[k].lex)))
  BY DEF EmitInstruction, UndefinedOf
<1>2. SeqOK(output) /\ SeqOK(instrs)
  BY DEF TInv
<1>3. k \in DOMAIN instrs
  <2>1. DOMAIN instrs = 1 .. Len(instrs) /\ Len(instrs) \in Nat /\ Len(output) \in Nat
    BY <1>2, SeqAny DEF SeqOK
  <2> QED BY <1>1, <2>1
<1>4. Cardinality(UndefinedOf(instrs[k].lex)) \in Nat
  BY <1>3, LexemesOf, FS_CardinalityType
<1> DEFINE e == Encoded(instrs[k].lex)
<1> HIDE DEF e
<1>5. output' = Append(output, e)
  BY <1>1 DEF e
<1>6. /\ SeqOK(output') /\ Len(output') = Len(output) + 1
      /\ DOMAIN output = 1 .. Len(output)
      /\ DOMAIN output' = 1 .. Len(output) + 1
      /\ \A i \in DOMAIN output : output'[i] = output[i]
      /\ output'[Len(output) + 1] = e
  BY <1>2, <1>5, SeqAppend
<1> QED BY <1>1, <1>3, <1>4, <1>6 DEF e

\* An instruction that is encoded keeps the types
LEMMA EmitInstructionType == ASSUME TInv, EmitInstruction PROVE TInv'
<1>1. UNCHANGED source
  BY DEF EmitInstruction
<1>2. PICK n \in Nat : Fails(n)
  BY EmitInstructionIs
<1>3. phase = "pass2" /\ SeqOK(output') /\ Len(output') <= Len(instrs)
  <2>1. Len(output) + 1 \in DOMAIN instrs /\ Len(output') = Len(output) + 1
        /\ phase = "pass2" /\ SeqOK(output')
    BY EmitInstructionIs
  <2>2. SeqOK(instrs)
    BY DEF TInv
  <2>3. DOMAIN instrs = 1 .. Len(instrs)
    BY <2>2, SeqAny DEF SeqOK
  <2> QED BY <2>1, <2>3, StepKeeps
<1>4. /\ errors' \in 0 .. MaxErrors + 1
      /\ phase' # "done" => errors' <= MaxErrors
      /\ phase' = "done" <=> result' # "none"
      /\ result' \in {"none", "aborted"}
      /\ phase' = phase \/ phase' = "done"
  BY <1>2, <1>3, FailsType
<1> QED BY <1>1, <1>3, <1>4, StepKeeps, StepType DEF source

\* The image that is written keeps the types
LEMMA WriteImageType == ASSUME TInv, WriteImage PROVE TInv'
<1>1. /\ phase = "pass2" /\ UNCHANGED <<source, output>>
      /\ errors' = errors \/ errors' = errors + 1
      /\ IF errors' > 0 THEN Return("failed") ELSE phase' = "map" /\ UNCHANGED result
  BY DEF WriteImage
<1>2. errors \in Nat /\ errors <= MaxErrors /\ result = "none"
  BY <1>1, Running
<1>3. errors' \in 0 .. MaxErrors + 1
  BY <1>1, <1>2, Numbers
<1>4. \/ phase' = "map" /\ result' = "none" /\ errors' <= MaxErrors
      \/ phase' = "done" /\ result' = "failed"
  BY <1>1, <1>2, <1>3, Numbers DEF Return
<1> QED BY <1>1, <1>3, <1>4, StepKeeps, StepType DEF source

\* The map that is written keeps the types
LEMMA WriteMapType == ASSUME TInv, WriteMap PROVE TInv'
<1>1. /\ UNCHANGED <<source, errors, output>>
      /\ phase' = "done" /\ result' \in {"succeeded", "warned"}
  BY DEF WriteMap, Return
<1> QED BY <1>1, StepKeeps, StepType DEF source

\* Every step keeps the types
LEMMA TNext == TInv /\ [Next]_vars => TInv'
<1> SUFFICES ASSUME TInv, [Next]_vars PROVE TInv'
  OBVIOUS
<1>1. CASE ProcessLine
  <2>1. PICK l \in Line : \/ Skip(l) \/ Refuse(l)
                          \/ DeclareVariable(l) \/ DeclareLabel(l) \/ AddInstruction(l)
    BY <1>1 DEF ProcessLine
  <2>2. SeqOK(variables)
    BY DEF TInv
  <2>3. CASE Skip(l)
    BY <2>2, <2>3, QuietLineType DEF Skip
  <2>4. CASE Refuse(l)
    BY <2>2, <2>4, QuietLineType DEF Refuse
  <2> QED BY <2>1, <2>3, <2>4, DeclareVariableType, DeclareLabelType, AddInstructionType
<1>2. CASE UNCHANGED vars
  BY <1>2 DEF vars, source, files, TInv, AssemblerTypeOK
<1> QED
  BY <1>1, <1>2, EndOfSourceType, CannotOpenType, CalculateAddressesType, OpenType,
     EmitInstructionType, WriteImageType, WriteMapType DEF Next

\* The tables of the assembler have their types: every instruction has a line,
\* every label an address of the code, the next address counts what is placed,
\* and there is a result if and only if compile has returned.
THEOREM AssemblerTypes == Spec => []AssemblerTypeOK
<1>1. TInv => AssemblerTypeOK
  BY DEF TInv
<1> QED BY <1>1, TInit, TNext, PTL DEF Spec

-----------------------------------------------------------------------------
(* Lines and their lexemes *)

\* No text in quotes behind the value of a write, in the comment say, takes its
\* place (AssemblerQuote.cfg)
ReadAsWritten == \A l \in Line : Tokens(l) = l.tokens

\* A line without an error of its own, and the name that it declares
LexOf(l)  == [k \in DOMAIN l.tokens |-> Parse(l.tokens[k])]
Is(l, cs) == l.tokens # <<>> /\ Command(l) \in cs
Well(l)   == l.tokens # <<>> => Matches(l, LexOf(l))
Name(l)   == LexOf(l)[2].v

\* A line without quotes in its comment has the lexemes of its tokens
LEMMA LexemesAsWritten ==
    ASSUME ReadAsWritten, NEW l \in Line
    PROVE  Lexemes(l) = LexOf(l)
BY DEF ReadAsWritten, Lexemes, LexOf

\* The tokens and the lexemes of a line are numbered alike
LEMMA TokensOf ==
    ASSUME NEW l \in Line
    PROVE  /\ Len(l.tokens) \in Nat /\ DOMAIN l.tokens = 1 .. Len(l.tokens)
           /\ DOMAIN LexOf(l) = 1 .. Len(l.tokens) /\ Len(LexOf(l)) = Len(l.tokens)
           /\ \A k \in 1 .. Len(l.tokens) : LexOf(l)[k] = Parse(l.tokens[k])
<1>1. l.tokens \in Seq(Range(l.tokens))
  BY AssemblerConstants
<1>2. DOMAIN l.tokens = 1 .. Len(l.tokens) /\ Len(l.tokens) \in Nat
  BY <1>1, SeqAny
<1> DEFINE f == LexOf(l)
<1>3. f = [k \in 1 .. Len(l.tokens) |-> f[k]]
  BY <1>2 DEF LexOf
<1> HIDE DEF f
<1>4. Len(f) = Len(l.tokens) /\ DOMAIN f = 1 .. Len(l.tokens)
  BY <1>2, <1>3, SeqMake
<1>5. \A k \in 1 .. Len(l.tokens) : f[k] = Parse(l.tokens[k])
  BY <1>2 DEF f, LexOf
<1> QED BY <1>2, <1>4, <1>5 DEF f

\* Only the text of a command is a command
LEMMA TypeCommand ==
    ASSUME NEW k, Type(k) = "cmd"
    PROVE  k.text \in Commands
<1>1. k.form \notin {"quoted", "digits", "var:", "label:", "junk"}
  BY DEF Type
<1>2. Type(k) = IF k.text = "to" THEN "kto"
                ELSE IF k.text \in Commands THEN "cmd"
                ELSE IF k.text \in DOMAIN Symbol THEN Symbol[k.text].t
                ELSE "nam"
  BY <1>1 DEF Type
<1>3. ASSUME k.text \in DOMAIN Symbol PROVE Symbol[k.text].t # "cmd"
  BY <1>3, AssemblerConstants
<1> QED BY <1>2, <1>3

\* The pattern of each command
LEMMA Patterns ==
    /\ \A c \in {"var", "label"} : Pattern(c) = <<{<<"_", "nam">>}>>
    /\ \A c \in {"cpu_exec"} \cup Marks : Pattern(c) = <<>>
    /\ \A c \in Jumps : Pattern(c) = <<JumpPlace>>
    /\ Pattern("write") = <<Literal, {<<"_", "kto">>}, Place>>
    /\ Pattern("copy") = <<Place \cup {<<"at", "var">>}, {<<"_", "kto">>}, Place>>
<1>1. \A c \in {"var", "label"} : Pattern(c) = <<{<<"_", "nam">>}>>
  BY DEF Pattern, Marks, Jumps
<1>2. \A c \in {"cpu_exec"} \cup Marks : Pattern(c) = <<>>
  BY DEF Pattern, Marks, Jumps
<1>3. \A c \in Jumps : Pattern(c) = <<JumpPlace>>
  BY DEF Pattern, Marks, Jumps
<1>4. Pattern("write") = <<Literal, {<<"_", "kto">>}, Place>>
  BY DEF Pattern, Marks, Jumps
<1>5. Pattern("copy") = <<Place \cup {<<"at", "var">>}, {<<"_", "kto">>}, Place>>
  BY DEF Pattern, Marks, Jumps
<1> QED BY <1>1, <1>2, <1>3, <1>4, <1>5

\* The types that the patterns admit
LEMMA PatternTypes ==
    /\ \A p, t : <<p, t>> \in Place => t \in {"num", "reg", "var"}
    /\ \A p, t : <<p, t>> \in JumpPlace => t \in {"num", "reg", "var", "lbl"}
    /\ \A p, t : <<p, t>> \in Literal => t \in {"str", "num", "opr", "sys", "clr", "mod", "lbl"}
BY DEF Place, JumpPlace, Literal, Types

\* How many lexemes a pattern stands for, and what it says of each
LEMMA PatternOne ==
    ASSUME NEW p, NEW a, NEW n, NEW x, p = <<a>>, n = Len(p) + 1,
           \A k \in DOMAIN p : <<x[k + 1].p, x[k + 1].t>> \in p[k]
    PROVE  n = 2 /\ <<x[2].p, x[2].t>> \in a
<1>1. Len(p) = 1 /\ 1 \in DOMAIN p /\ p[1] = a /\ 1 + 1 = 2
  OBVIOUS
<1>2. <<x[1 + 1].p, x[1 + 1].t>> \in p[1]
  BY <1>1
<1> QED BY <1>1, <1>2

\* The same for a pattern of three
LEMMA PatternThree ==
    ASSUME NEW p, NEW a, NEW b, NEW c, NEW n, NEW x, p = <<a, b, c>>, n = Len(p) + 1,
           \A k \in DOMAIN p : <<x[k + 1].p, x[k + 1].t>> \in p[k]
    PROVE  /\ n = 4
           /\ <<x[2].p, x[2].t>> \in a /\ <<x[3].p, x[3].t>> \in b /\ <<x[4].p, x[4].t>> \in c
<1>1. /\ Len(p) = 3 /\ {1, 2, 3} \subseteq DOMAIN p /\ p[1] = a /\ p[2] = b /\ p[3] = c
      /\ 1 + 1 = 2 /\ 2 + 1 = 3 /\ 3 + 1 = 4
  OBVIOUS
<1>2. /\ <<x[1 + 1].p, x[1 + 1].t>> \in p[1]
      /\ <<x[2 + 1].p, x[2 + 1].t>> \in p[2]
      /\ <<x[3 + 1].p, x[3 + 1].t>> \in p[3]
  BY <1>1
<1> QED BY <1>1, <1>2

\* A line that matches has a command and as many lexemes as its pattern asks for
LEMMA WellShape ==
    ASSUME NEW l \in Line, l.tokens # <<>>, Well(l)
    PROVE  /\ Command(l) \in Commands
           /\ LexOf(l)[1].v = Command(l) /\ LexOf(l)[1].t = "cmd"
           /\ Len(l.tokens) = Len(Pattern(Command(l))) + 1
           /\ \A k \in DOMAIN Pattern(Command(l)) :
                 <<LexOf(l)[k + 1].p, LexOf(l)[k + 1].t>> \in Pattern(Command(l))[k]
<1> DEFINE p == Pattern(Command(l))
           x == LexOf(l)
<1>1. /\ IsCommand(l.tokens[1])
      /\ Len(x) = Len(p) + 1
      /\ \A k \in DOMAIN p : <<x[k + 1].p, x[k + 1].t>> \in p[k]
  BY DEF Well, Matches
<1>2. Type(l.tokens[1]) = "cmd" /\ Command(l) = l.tokens[1].text
  BY <1>1 DEF IsCommand, Command
<1>3. Len(x) = Len(l.tokens) /\ x[1] = Parse(l.tokens[1])
  <2>1. Len(l.tokens) \in Nat /\ Len(l.tokens) # 0
    <3>1. l.tokens \in Seq(Range(l.tokens))
      BY AssemblerConstants
    <3> QED BY <3>1, EmptySeq, TokensOf
  <2>2. 1 \in 1 .. Len(l.tokens)
    BY <2>1
  <2> QED BY <2>2, TokensOf
<1>4. x[1].v = Command(l) /\ x[1].t = "cmd"
  BY <1>2, <1>3 DEF Parse
<1>5. Command(l) \in Commands
  BY <1>2, TypeCommand
<1> QED BY <1>1, <1>3, <1>4, <1>5

\* The name that a line declares
LEMMA DeclaredName ==
    ASSUME NEW l \in Line, Well(l), Is(l, {"var", "label"})
    PROVE  /\ Name(l) = l.tokens[2].text /\ LexOf(l)[2].v = Name(l)
           /\ LexOf(l)[2] = [p |-> "_", t |-> "nam", v |-> Name(l)]
           /\ Len(l.tokens) = 2
<1>1. l.tokens # <<>> /\ Command(l) \in {"var", "label"}
  BY DEF Is
<1>2. Pattern(Command(l)) = <<{<<"_", "nam">>}>>
  BY <1>1, Patterns
<1>3. /\ Len(l.tokens) = Len(Pattern(Command(l))) + 1
      /\ \A k \in DOMAIN Pattern(Command(l)) :
            <<LexOf(l)[k + 1].p, LexOf(l)[k + 1].t>> \in Pattern(Command(l))[k]
  BY <1>1, WellShape
<1>4. PICK x : x = LexOf(l)
  OBVIOUS
<1>5. Len(l.tokens) = 2 /\ <<x[2].p, x[2].t>> \in {<<"_", "nam">>}
  BY <1>2, <1>3, <1>4, PatternOne
<1>6. x[2].p = "_" /\ x[2].t = "nam"
  BY <1>5
<1>7. x[2] = Parse(l.tokens[2])
  <2>1. Len(l.tokens) = 2
    BY <1>5
  <2>2. 2 \in 1 .. Len(l.tokens)
    BY <2>1
  <2> QED BY <1>4, <2>2, TokensOf
<1>8. PICK k : k = l.tokens[2]
  OBVIOUS
<1>9. x[2] = [p |-> k.p, t |-> Type(k), v |-> k.text]
  BY <1>7, <1>8 DEF Parse
<1>10. PICK ty, y : ty = Type(k) /\ y = x[2]
  OBVIOUS
<1>11. k.p = "_" /\ ty = "nam" /\ x[2].v = k.text
  <2>1. y = [p |-> k.p, t |-> ty, v |-> k.text] /\ y.p = "_" /\ y.t = "nam"
    BY <1>6, <1>9, <1>10
  <2>2. y.p = k.p /\ y.t = ty /\ y.v = k.text
    BY <2>1
  <2> QED BY <1>10, <2>1, <2>2
<1>12. x[2] = [p |-> "_", t |-> "nam", v |-> k.text]
  BY <1>9, <1>10, <1>11
<1>13. Name(l) = k.text
  BY <1>4, <1>11 DEF Name
<1> QED BY <1>4, <1>5, <1>8, <1>11, <1>12, <1>13

\* The lines that become a cell of code
Instr == {l \in Line : Is(l, Commands \ {"var", "label"})}

\* The lexemes of an instruction: what has an address, and what does not
LEMMA InstrShape ==
    ASSUME NEW l \in Instr, Well(l)
    PROVE  LET c == Command(l)
               x == LexOf(l)
               n == Len(l.tokens)
           IN  /\ c \in Commands \ {"var", "label"} /\ l.tokens # <<>> /\ l \in Line
               /\ x[1].v = c /\ x[1].t = "cmd"
               /\ \/ n = 1 /\ c # "write"
                  \/ n = 2 /\ c # "write" /\ x[2].t \in {"num", "reg", "var", "lbl"}
                  \/ /\ n = 4 /\ x[3].t = "kto"
                     /\ x[4].t \in {"num", "reg", "var"}
                     /\ IF c = "write"
                        THEN x[2].t \in {"str", "num", "opr", "sys", "clr", "mod", "lbl"}
                        ELSE x[2].t \in {"num", "reg", "var"}
<1> DEFINE c == Command(l)
           x == LexOf(l)
           n == Len(l.tokens)
           p == Pattern(c)
<1>1. l \in Line /\ l.tokens # <<>> /\ c \in Commands \ {"var", "label"}
  BY DEF Instr, Is
<1>2. /\ x[1].v = c /\ x[1].t = "cmd" /\ n = Len(p) + 1
      /\ \A k \in DOMAIN p : <<x[k + 1].p, x[k + 1].t>> \in p[k]
  BY <1>1, WellShape
<1>3. c \in {"cpu_exec"} \cup Marks \/ c \in Jumps \/ c = "write" \/ c = "copy"
  BY <1>1 DEF Commands
<1> HIDE DEF c, x, n, p
<1>4. CASE c \in {"cpu_exec"} \cup Marks
  <2>1. p = <<>> /\ c # "write"
    BY <1>4, Patterns DEF p, Marks
  <2>2. n = 1
    BY <1>2, <2>1
  <2> QED BY <1>1, <1>2, <2>1, <2>2 DEF c, x, n
<1>5. CASE c \in Jumps
  <2>1. p = <<JumpPlace>> /\ c # "write"
    BY <1>5, Patterns DEF p, Jumps
  <2>2. n = 2 /\ <<x[2].p, x[2].t>> \in JumpPlace
    BY <1>2, <2>1, PatternOne
  <2>3. x[2].t \in {"num", "reg", "var", "lbl"}
    BY <2>2, PatternTypes
  <2> QED BY <1>1, <1>2, <2>1, <2>2, <2>3 DEF c, x, n
<1>6. CASE c = "write"
  <2>1. p = <<Literal, {<<"_", "kto">>}, Place>>
    BY <1>6, Patterns DEF p
  <2>2. /\ n = 4 /\ <<x[2].p, x[2].t>> \in Literal
        /\ <<x[3].p, x[3].t>> \in {<<"_", "kto">>} /\ <<x[4].p, x[4].t>> \in Place
    BY <1>2, <2>1, PatternThree
  <2>3. /\ x[2].t \in {"str", "num", "opr", "sys", "clr", "mod", "lbl"}
        /\ x[3].t = "kto" /\ x[4].t \in {"num", "reg", "var"}
    BY <2>2, PatternTypes
  <2> QED BY <1>1, <1>2, <1>6, <2>2, <2>3 DEF c, x, n
<1>7. CASE c = "copy"
  <2>1. p = <<Place \cup {<<"at", "var">>}, {<<"_", "kto">>}, Place>>
    BY <1>7, Patterns DEF p
  <2> DEFINE q == Place \cup {<<"at", "var">>}
  <2> HIDE DEF q
  <2>2. /\ n = 4 /\ <<x[2].p, x[2].t>> \in q
        /\ <<x[3].p, x[3].t>> \in {<<"_", "kto">>} /\ <<x[4].p, x[4].t>> \in Place
    <3>1. p = <<q, {<<"_", "kto">>}, Place>>
      BY <2>1 DEF q
    <3> QED BY <1>2, <3>1, PatternThree
  <2>3. x[2].t \in {"num", "reg", "var"} /\ x[3].t = "kto" /\ x[4].t \in {"num", "reg", "var"}
    BY <2>2, PatternTypes DEF q
  <2> QED BY <1>1, <1>2, <1>7, <2>2, <2>3 DEF c, x, n
<1> QED BY <1>3, <1>4, <1>5, <1>6, <1>7

-----------------------------------------------------------------------------
(* Declarations *)

\* Every entry of a table is declared by a line, and by one only
DeclarationsOK ==
    /\ \A k \in DOMAIN variables :
          LET l == lines[variables[k].line]
          IN  /\ variables[k].line \in DOMAIN lines
              /\ Well(l) /\ Is(l, {"var"}) /\ variables[k].name = Name(l)
    /\ \A k, m \in DOMAIN variables : variables[k].name = variables[m].name => k = m
    /\ \A n \in DOMAIN labels : \E i \in DOMAIN lines :
          Well(lines[i]) /\ Is(lines[i], {"label"}) /\ n = Name(lines[i])

\* The line that is read
LEMMA ReadsOne ==
    ASSUME TInv, NEW l \in Line, Reads(l)
    PROVE  /\ Len(lines) \in Nat /\ DOMAIN lines = 1 .. Len(lines)
           /\ Len(lines') = Len(lines) + 1
           /\ DOMAIN lines' = 1 .. Len(lines) + 1
           /\ DOMAIN lines' = DOMAIN lines \cup {Len(lines) + 1}
           /\ \A i \in DOMAIN lines : lines'[i] = lines[i] /\ lines[i] \in Line
           /\ lines'[Len(lines) + 1] = l
<1>1. lines \in Seq(Line)
  BY DEF TInv, AssemblerTypeOK
<1>2. /\ Len(lines) \in Nat /\ DOMAIN lines = 1 .. Len(lines)
      /\ Len(lines') = Len(lines) + 1 /\ DOMAIN lines' = 1 .. Len(lines) + 1
      /\ \A i \in DOMAIN lines : lines'[i] = lines[i]
      /\ lines'[Len(lines) + 1] = l
  BY <1>1, LinesGrow
<1>3. \A i \in DOMAIN lines : lines[i] \in Line
  BY <1>1
<1>4. DOMAIN lines' = DOMAIN lines \cup {Len(lines) + 1}
  BY <1>2
<1> QED BY <1>2, <1>3, <1>4

\* What is accepted matches, and declares no name again
LEMMA AcceptedIs ==
    ASSUME ReadAsWritten, NEW l \in Line, NEW c, Accepted(l, c)
    PROVE  /\ Reads(l) /\ Goes /\ phase = "pass1"
           /\ Is(l, c) /\ Well(l) /\ Lexemes(l) = LexOf(l)
           /\ Command(l) = "var" => l.tokens[2].text \notin Names
           /\ Command(l) = "label" => l.tokens[2].text \notin DOMAIN labels
<1>1. Lexemes(l) = LexOf(l)
  BY LexemesAsWritten
<1>2. Reads(l) /\ Goes /\ l.tokens # <<>> /\ Command(l) \in c /\ ~Refused(l)
  BY DEF Accepted
<1>3. phase = "pass1"
  BY <1>2 DEF Reads
<1> QED BY <1>1, <1>2, <1>3 DEF Refused, Is, Well

\* No step forgets a line, or renames a variable
LinesStay == \A i \in DOMAIN lines : i \in DOMAIN lines' /\ lines'[i] = lines[i]

\* Declarations stay true of more lines
LEMMA DeclarationsKept ==
    ASSUME DeclarationsOK, LinesStay, labels' = labels,
           DOMAIN variables' = DOMAIN variables,
           \A k \in DOMAIN variables : /\ variables'[k].name = variables[k].name
                                       /\ variables'[k].line = variables[k].line
    PROVE  DeclarationsOK'
<1>1. ASSUME NEW k \in DOMAIN variables
      PROVE  LET l == lines'[variables'[k].line]
             IN  /\ variables'[k].line \in DOMAIN lines'
                 /\ Well(l) /\ Is(l, {"var"}) /\ variables'[k].name = Name(l)
  BY DEF DeclarationsOK, LinesStay
<1>2. \A k, m \in DOMAIN variables : variables'[k].name = variables'[m].name => k = m
  BY DEF DeclarationsOK
<1>3. ASSUME NEW n \in DOMAIN labels
      PROVE  \E i \in DOMAIN lines' :
                Well(lines'[i]) /\ Is(lines'[i], {"label"}) /\ n = Name(lines'[i])
  <2>1. PICK i \in DOMAIN lines :
            Well(lines[i]) /\ Is(lines[i], {"label"}) /\ n = Name(lines[i])
    BY DEF DeclarationsOK
  <2> QED BY <2>1 DEF LinesStay
<1> QED BY <1>1, <1>2, <1>3 DEF DeclarationsOK

\* A variable that is declared is new, and the last of the table
LEMMA VariableDeclared ==
    ASSUME ReadAsWritten, TInv, DeclarationsOK, NEW l \in Line, DeclareVariable(l)
    PROVE  /\ Len(variables) \in Nat /\ DOMAIN variables = 1 .. Len(variables)
           /\ DOMAIN variables' = 1 .. Len(variables) + 1
           /\ \A k \in DOMAIN variables : /\ variables'[k] = variables[k]
                                          /\ variables[k].name # Name(l)
           /\ variables'[Len(variables) + 1]
                 = [name |-> Name(l), line |-> Len(lines) + 1, addr |-> 0]
           /\ Is(l, {"var"}) /\ Well(l) /\ Reads(l)
<1>1. Accepted(l, {"var"})
  BY DEF DeclareVariable
<1>2. Reads(l) /\ Is(l, {"var"}) /\ Well(l) /\ l.tokens[2].text \notin Names
  BY <1>1, AcceptedIs DEF Is
<1>3. Name(l) = l.tokens[2].text
  <2>1. Is(l, {"var", "label"})
    BY <1>2 DEF Is
  <2> QED BY <1>2, <2>1, DeclaredName
<1>4. Len(lines') = Len(lines) + 1
  BY <1>2, ReadsOne
<1> DEFINE new == [name |-> Name(l), line |-> Len(lines) + 1, addr |-> 0]
<1>5. variables' = Append(variables, new) /\ SeqOK(variables)
  BY <1>3, <1>4 DEF DeclareVariable, TInv
<1> HIDE DEF new
<1>6. /\ Len(variables) \in Nat /\ DOMAIN variables = 1 .. Len(variables)
      /\ DOMAIN variables' = 1 .. Len(variables) + 1
      /\ \A k \in DOMAIN variables : variables'[k] = variables[k]
      /\ variables'[Len(variables) + 1] = new
  BY <1>5, SeqAppend
<1>7. \A k \in DOMAIN variables : variables[k].name # Name(l)
  BY <1>2, <1>3 DEF Names
<1> QED BY <1>2, <1>6, <1>7 DEF new

\* The declaration of a variable is one of a line
LEMMA DeclareVariableKeeps ==
    ASSUME ReadAsWritten, TInv, DeclarationsOK, NEW l \in Line, DeclareVariable(l)
    PROVE  DeclarationsOK'
<1> DEFINE n == Len(variables) + 1
<1>1. /\ Len(variables) \in Nat /\ DOMAIN variables = 1 .. Len(variables)
      /\ DOMAIN variables' = 1 .. n
      /\ \A k \in DOMAIN variables : /\ variables'[k] = variables[k]
                                     /\ variables[k].name # Name(l)
      /\ variables'[n] = [name |-> Name(l), line |-> Len(lines) + 1, addr |-> 0]
      /\ Is(l, {"var"}) /\ Well(l) /\ Reads(l)
  BY VariableDeclared
<1>2. DOMAIN variables' = DOMAIN variables \cup {n} /\ n \notin DOMAIN variables
  BY <1>1
<1>3. /\ DOMAIN lines' = DOMAIN lines \cup {Len(lines) + 1}
      /\ \A i \in DOMAIN lines : lines'[i] = lines[i]
      /\ lines'[Len(lines) + 1] = l
  BY <1>1, ReadsOne
<1>4. labels' = labels
  BY DEF DeclareVariable
<1> HIDE DEF n
<1>5. variables'[n].name = Name(l) /\ variables'[n].line = Len(lines) + 1
  BY <1>1
<1>6. ASSUME NEW k \in DOMAIN variables'
      PROVE  LET m == lines'[variables'[k].line]
             IN  /\ variables'[k].line \in DOMAIN lines'
                 /\ Well(m) /\ Is(m, {"var"}) /\ variables'[k].name = Name(m)
  <2>1. CASE k = n
    BY <1>1, <1>3, <1>5, <2>1
  <2>2. CASE k # n
    <3>1. k \in DOMAIN variables /\ variables'[k] = variables[k]
      BY <1>1, <1>2, <2>2
    <3>2. LET m == lines[variables[k].line]
          IN  /\ variables[k].line \in DOMAIN lines
              /\ Well(m) /\ Is(m, {"var"}) /\ variables[k].name = Name(m)
      BY <3>1 DEF DeclarationsOK
    <3> QED BY <1>3, <3>1, <3>2
  <2> QED BY <2>1, <2>2
<1>7. ASSUME NEW k \in DOMAIN variables', NEW m \in DOMAIN variables',
             variables'[k].name = variables'[m].name
      PROVE  k = m
  <2>1. CASE k \in DOMAIN variables /\ m \in DOMAIN variables
    BY <1>1, <1>7, <2>1 DEF DeclarationsOK
  <2>2. CASE k = n
    BY <1>1, <1>2, <1>5, <1>7, <2>2
  <2>3. CASE m = n
    BY <1>1, <1>2, <1>5, <1>7, <2>3
  <2> QED BY <1>2, <2>1, <2>2, <2>3
<1>8. ASSUME NEW x \in DOMAIN labels'
      PROVE  \E i \in DOMAIN lines' :
                Well(lines'[i]) /\ Is(lines'[i], {"label"}) /\ x = Name(lines'[i])
  <2>1. PICK i \in DOMAIN lines :
            Well(lines[i]) /\ Is(lines[i], {"label"}) /\ x = Name(lines[i])
    BY <1>4 DEF DeclarationsOK
  <2> QED BY <1>3, <2>1
<1> QED BY <1>6, <1>7, <1>8 DEF DeclarationsOK

\* The declaration of a label is one of a line
LEMMA DeclareLabelKeeps ==
    ASSUME ReadAsWritten, TInv, DeclarationsOK, NEW l \in Line, DeclareLabel(l)
    PROVE  DeclarationsOK'
<1>1. Accepted(l, {"label"}) /\ variables' = variables
      /\ DOMAIN labels' = DOMAIN labels \cup {l.tokens[2].text}
  BY DEF DeclareLabel
<1>2. Reads(l) /\ Is(l, {"label"}) /\ Well(l)
  BY <1>1, AcceptedIs
<1>3. Name(l) = l.tokens[2].text
  <2>1. Is(l, {"var", "label"})
    BY <1>2 DEF Is
  <2> QED BY <1>2, <2>1, DeclaredName
<1>4. /\ DOMAIN lines' = DOMAIN lines \cup {Len(lines) + 1}
      /\ \A i \in DOMAIN lines : lines'[i] = lines[i]
      /\ lines'[Len(lines) + 1] = l
  BY <1>2, ReadsOne
<1>5. ASSUME NEW k \in DOMAIN variables'
      PROVE  LET m == lines'[variables'[k].line]
             IN  /\ variables'[k].line \in DOMAIN lines'
                 /\ Well(m) /\ Is(m, {"var"}) /\ variables'[k].name = Name(m)
  BY <1>1, <1>4 DEF DeclarationsOK
<1>6. \A k, m \in DOMAIN variables' : variables'[k].name = variables'[m].name => k = m
  BY <1>1 DEF DeclarationsOK
<1>7. ASSUME NEW x \in DOMAIN labels'
      PROVE  \E i \in DOMAIN lines' :
                Well(lines'[i]) /\ Is(lines'[i], {"label"}) /\ x = Name(lines'[i])
  <2>1. CASE x \in DOMAIN labels
    <3>1. PICK i \in DOMAIN lines :
              Well(lines[i]) /\ Is(lines[i], {"label"}) /\ x = Name(lines[i])
      BY <2>1 DEF DeclarationsOK
    <3> QED BY <1>4, <3>1
  <2>2. CASE x = l.tokens[2].text
    BY <1>2, <1>3, <1>4, <2>2
  <2> QED BY <1>1, <2>1, <2>2
<1> QED BY <1>5, <1>6, <1>7 DEF DeclarationsOK

-----------------------------------------------------------------------------
(* Errors of the lines *)

\* Two lines declare one name; a line is wrong, alone or with another
Twice(l, m) == \E c \in {"var", "label"} :
                  Is(l, {c}) /\ Is(m, {c}) /\ LexOf(l)[2] = LexOf(m)[2]

Bad == \/ \E i \in DOMAIN lines : ~Well(lines[i])
       \/ \E i, j \in DOMAIN lines : i # j /\ Twice(lines[i], lines[j])

\* An error of the lines does not go away
LEMMA BadStays == Bad /\ LinesStay => Bad'
<1> SUFFICES ASSUME Bad, LinesStay PROVE Bad'
  OBVIOUS
<1>1. CASE \E i \in DOMAIN lines : ~Well(lines[i])
  <2>1. PICK i \in DOMAIN lines : ~Well(lines[i])
    BY <1>1
  <2>2. i \in DOMAIN lines' /\ ~Well(lines'[i])
    BY <2>1 DEF LinesStay
  <2> QED BY <2>2 DEF Bad
<1>2. CASE \E i, j \in DOMAIN lines : i # j /\ Twice(lines[i], lines[j])
  <2>1. PICK i \in DOMAIN lines, j \in DOMAIN lines : i # j /\ Twice(lines[i], lines[j])
    BY <1>2
  <2>2. i \in DOMAIN lines' /\ j \in DOMAIN lines' /\ Twice(lines'[i], lines'[j])
    BY <2>1 DEF LinesStay
  <2> QED BY <2>1, <2>2 DEF Bad
<1> QED BY <1>1, <1>2 DEF Bad

\* The lines before a good one stay good
LEMMA GoodStays ==
    ASSUME TInv, ~Bad, NEW l \in Line, Reads(l), Well(l),
           \A i \in DOMAIN lines : ~Twice(lines[i], l)
    PROVE  ~Bad'
<1> DEFINE n == Len(lines) + 1
<1>1. /\ DOMAIN lines' = DOMAIN lines \cup {n}
      /\ \A i \in DOMAIN lines : lines'[i] = lines[i]
      /\ lines'[n] = l
  BY ReadsOne
<1> HIDE DEF n
<1>2. \A i \in DOMAIN lines' : Well(lines'[i])
  BY <1>1 DEF Bad
<1>3. \A x, y : Twice(x, y) => Twice(y, x)
  BY DEF Twice
<1>4. ASSUME NEW i \in DOMAIN lines', NEW j \in DOMAIN lines', i # j
      PROVE  ~Twice(lines'[i], lines'[j])
  <2>1. CASE i = n
    BY <1>1, <1>3, <1>4, <2>1
  <2>2. CASE j = n
    BY <1>1, <1>4, <2>2
  <2>3. CASE i # n /\ j # n
    BY <1>1, <1>4, <2>3 DEF Bad
  <2> QED BY <2>1, <2>2, <2>3
<1> QED BY <1>2, <1>4 DEF Bad

\* What is refused is wrong
LEMMA RefusedIsBad ==
    ASSUME ReadAsWritten, TInv, DeclarationsOK, NEW l \in Line,
           Reads(l), l.tokens # <<>>, Refused(l)
    PROVE  Bad'
<1> DEFINE n == Len(lines) + 1
<1>1. /\ DOMAIN lines' = DOMAIN lines \cup {n} /\ n \notin DOMAIN lines
      /\ \A i \in DOMAIN lines : lines'[i] = lines[i] /\ lines[i] \in Line
      /\ lines'[n] = l
  <2>1. Len(lines) \in Nat /\ DOMAIN lines = 1 .. Len(lines)
    BY ReadsOne
  <2>2. n \notin DOMAIN lines
    BY <2>1
  <2> QED BY <2>2, ReadsOne
<1> HIDE DEF n
<1>2. CASE ~Well(l)
  BY <1>1, <1>2 DEF Bad
<1>3. CASE Well(l)
  <2>1. Matches(l, Lexemes(l))
    BY <1>3, LexemesAsWritten DEF Well
  <2>2. \/ Command(l) = "var" /\ l.tokens[2].text \in Names
        \/ Command(l) = "label" /\ l.tokens[2].text \in DOMAIN labels
    BY <2>1 DEF Refused
  <2>3. ASSUME NEW c \in {"var", "label"}, Command(l) = c,
               NEW i \in DOMAIN lines, Well(lines[i]), Is(lines[i], {c}),
               l.tokens[2].text = Name(lines[i])
        PROVE  Bad'
    <3>1. Is(l, {c}) /\ Is(l, {"var", "label"}) /\ Is(lines[i], {"var", "label"})
      BY <2>3 DEF Is
    <3>2. /\ Name(l) = l.tokens[2].text
          /\ LexOf(l)[2] = [p |-> "_", t |-> "nam", v |-> Name(l)]
      BY <1>3, <3>1, DeclaredName
    <3>3. LexOf(lines[i])[2] = [p |-> "_", t |-> "nam", v |-> Name(lines[i])]
      BY <1>1, <2>3, <3>1, DeclaredName
    <3>4. Twice(lines[i], l)
      BY <2>3, <3>1, <3>2, <3>3 DEF Twice
    <3> QED BY <1>1, <3>4 DEF Bad
  <2>4. CASE Command(l) = "var" /\ l.tokens[2].text \in Names
    <3>1. PICK k \in DOMAIN variables : l.tokens[2].text = variables[k].name
      BY <2>4 DEF Names
    <3>2. LET m == lines[variables[k].line]
          IN  /\ variables[k].line \in DOMAIN lines
              /\ Well(m) /\ Is(m, {"var"}) /\ variables[k].name = Name(m)
      BY DEF DeclarationsOK
    <3> QED BY <2>3, <2>4, <3>1, <3>2
  <2>5. CASE Command(l) = "label" /\ l.tokens[2].text \in DOMAIN labels
    <3>1. PICK i \in DOMAIN lines : /\ Well(lines[i]) /\ Is(lines[i], {"label"})
                                    /\ l.tokens[2].text = Name(lines[i])
      BY <2>5 DEF DeclarationsOK
    <3> QED BY <2>3, <2>5, <3>1
  <2> QED BY <2>2, <2>4, <2>5
<1> QED BY <1>2, <1>3

-----------------------------------------------------------------------------
(* What pass 1 has made of lines without an error *)

\* The instructions up to the line i
N(i) == Num(lines, Instr, i)

\* Nothing is missing: the lines, in their order, are what the tables hold
Complete ==
    /\ Len(instrs) = N(Len(lines))
    /\ \A i \in DOMAIN lines :
          /\ lines[i] \in Instr => instrs[N(i)].line = i
          /\ Is(lines[i], {"label"}) =>
                Name(lines[i]) \in DOMAIN labels /\ labels[Name(lines[i])] = First + N(i - 1)
          /\ Is(lines[i], {"var"}) => \E k \in DOMAIN variables : variables[k].line = i
          /\ Is(lines[i], {"write"}) =>
                \E k \in DOMAIN constants : SameConstant(constants[k], LexOf(lines[i])[2])

\* The numbers of the instructions
LEMMA Numbering ==
    ASSUME TInv
    PROVE  /\ Len(lines) \in Nat /\ DOMAIN lines = 1 .. Len(lines)
           /\ \A i \in 0 .. Len(lines) : N(i) \in Nat
           /\ \A i \in DOMAIN lines : lines[i] \in Instr =>
                 /\ N(i) = N(i - 1) + 1 /\ N(i) \in 1 .. N(Len(lines))
<1>1. lines \in Seq(Line)
  BY DEF TInv, AssemblerTypeOK
<1>2. Len(lines) \in Nat /\ DOMAIN lines = 1 .. Len(lines)
  BY <1>1, LenProperties
<1>3. \A i \in Nat : N(i) \in Nat
  BY NumIsFinite DEF N
<1>4. ASSUME NEW i \in DOMAIN lines, lines[i] \in Instr
      PROVE  N(i) = N(i - 1) + 1 /\ N(i) \in 1 .. N(Len(lines))
  <2>1. i \in 1 .. Len(lines) /\ i - 1 \in Nat /\ i \in Nat
    BY <1>2
  <2>2. N(i - 1) + 1 = N(i) /\ N(i) <= N(Len(lines))
    BY <1>2, <1>4, <2>1, NumAt DEF N
  <2>3. N(i - 1) \in Nat /\ N(i) \in Nat /\ N(Len(lines)) \in Nat
    BY <1>2, <1>3, <2>1
  <2> QED BY <2>2, <2>3
<1> QED BY <1>2, <1>3, <1>4

\* A line that is read counts if it is an instruction
LEMMA NumberingGrows ==
    ASSUME TInv, NEW l \in Line, Reads(l)
    PROVE  /\ \A i \in 0 .. Len(lines) : Num(lines', Instr, i) = N(i)
           /\ Num(lines', Instr, Len(lines) + 1) = N(Len(lines)) + IF l \in Instr THEN 1 ELSE 0
<1>1. lines \in Seq(Line) /\ lines' = Append(lines, l)
  BY DEF TInv, AssemblerTypeOK, Reads
<1>2. Len(lines') = Len(lines) + 1
  BY ReadsOne
<1>3. /\ \A i \in 0 .. Len(lines) : Num(Append(lines, l), Instr, i) = Num(lines, Instr, i)
      /\ Num(Append(lines, l), Instr, Len(Append(lines, l)))
            = Num(lines, Instr, Len(lines)) + IF l \in Instr THEN 1 ELSE 0
  BY <1>1, NumAppend
<1> QED BY <1>1, <1>2, <1>3 DEF N

\* One more line
LEMMA CompleteGrows ==
    ASSUME TInv, Complete, NEW l \in Line, Reads(l),
           IF l \in Instr
           THEN /\ Len(instrs') = Len(instrs) + 1
                /\ instrs'[Len(instrs) + 1].line = Len(lines) + 1
           ELSE Len(instrs') = Len(instrs),
           \A k \in DOMAIN instrs : instrs'[k] = instrs[k],
           \A x \in DOMAIN labels : x \in DOMAIN labels' /\ labels'[x] = labels[x],
           Is(l, {"label"}) =>
              Name(l) \in DOMAIN labels' /\ labels'[Name(l)] = First + Len(instrs),
           \A k \in DOMAIN variables : k \in DOMAIN variables' /\ variables'[k] = variables[k],
           Is(l, {"var"}) => \E k \in DOMAIN variables' : variables'[k].line = Len(lines) + 1,
           \A k \in DOMAIN constants : k \in DOMAIN constants' /\ constants'[k] = constants[k],
           Is(l, {"write"}) =>
              \E k \in DOMAIN constants' : SameConstant(constants'[k], LexOf(l)[2])
    PROVE  Complete'
<1> DEFINE n == Len(lines) + 1
           M(i) == Num(lines', Instr, i)
<1>1. /\ Len(lines) \in Nat /\ DOMAIN lines = 1 .. Len(lines)
      /\ Len(lines') = n /\ n - 1 = Len(lines)
      /\ DOMAIN lines' = DOMAIN lines \cup {n}
      /\ \A i \in DOMAIN lines : lines'[i] = lines[i]
      /\ lines'[n] = l
  <2>1. Len(lines) \in Nat
    BY ReadsOne
  <2>2. n - 1 = Len(lines)
    BY <2>1
  <2> QED BY <2>2, ReadsOne
<1>2. /\ \A i \in 0 .. Len(lines) : M(i) = N(i)
      /\ M(n) = N(Len(lines)) + IF l \in Instr THEN 1 ELSE 0
  BY NumberingGrows
<1>3. Len(instrs) = N(Len(lines)) /\ Len(instrs) \in Nat /\ DOMAIN instrs = 1 .. Len(instrs)
  BY SeqAny DEF Complete, TInv, SeqOK
<1> HIDE DEF n, M
<1>4. Len(instrs') = M(n)
  BY <1>2, <1>3
<1>5. ASSUME NEW i \in DOMAIN lines'
      PROVE  /\ lines'[i] \in Instr => instrs'[M(i)].line = i
             /\ Is(lines'[i], {"label"}) =>
                   /\ Name(lines'[i]) \in DOMAIN labels'
                   /\ labels'[Name(lines'[i])] = First + M(i - 1)
             /\ Is(lines'[i], {"var"}) => \E k \in DOMAIN variables' : variables'[k].line = i
             /\ Is(lines'[i], {"write"}) =>
                   \E k \in DOMAIN constants' : SameConstant(constants'[k], LexOf(lines'[i])[2])
  <2>1. CASE i \in DOMAIN lines
    <3>1. lines'[i] = lines[i] /\ M(i) = N(i) /\ M(i - 1) = N(i - 1)
      <4>1. i \in 0 .. Len(lines) /\ i - 1 \in 0 .. Len(lines)
        BY <1>1, <2>1
      <4> QED BY <1>1, <1>2, <2>1, <4>1
    <3>2. lines[i] \in Instr => instrs'[N(i)].line = i
      <4>1. ASSUME lines[i] \in Instr PROVE N(i) \in DOMAIN instrs /\ instrs[N(i)].line = i
        BY <1>3, <2>1, <4>1, Numbering DEF Complete
      <4> QED BY <4>1
    <3>3. Is(lines[i], {"label"}) =>
             Name(lines[i]) \in DOMAIN labels' /\ labels'[Name(lines[i])] = First + N(i - 1)
      BY <2>1 DEF Complete
    <3>4. Is(lines[i], {"var"}) => \E k \in DOMAIN variables' : variables'[k].line = i
      <4>1. ASSUME Is(lines[i], {"var"})
            PROVE  \E k \in DOMAIN variables' : variables'[k].line = i
        <5>1. PICK k \in DOMAIN variables : variables[k].line = i
          BY <2>1, <4>1 DEF Complete
        <5> QED BY <5>1
      <4> QED BY <4>1
    <3>5. Is(lines[i], {"write"}) =>
             \E k \in DOMAIN constants' : SameConstant(constants'[k], LexOf(lines[i])[2])
      <4>1. ASSUME Is(lines[i], {"write"})
            PROVE  \E k \in DOMAIN constants' : SameConstant(constants'[k], LexOf(lines[i])[2])
        <5>1. PICK k \in DOMAIN constants : SameConstant(constants[k], LexOf(lines[i])[2])
          BY <2>1, <4>1 DEF Complete
        <5> QED BY <5>1
      <4> QED BY <4>1
    <3> QED BY <3>1, <3>2, <3>3, <3>4, <3>5
  <2>2. CASE i = n
    <3>1. lines'[i] = l /\ M(i - 1) = Len(instrs)
      <4>1. i - 1 \in 0 .. Len(lines) /\ i - 1 = Len(lines)
        BY <1>1, <2>2
      <4> QED BY <1>1, <1>2, <1>3, <2>2, <4>1
    <3>2. l \in Instr => M(i) = Len(instrs) + 1
      BY <1>2, <1>3, <2>2
    <3>3. l \in Instr => instrs'[M(i)].line = n
      BY <3>2 DEF n
    <3>4. Is(l, {"var"}) => \E k \in DOMAIN variables' : variables'[k].line = n
      BY DEF n
    <3> QED BY <2>2, <3>1, <3>3, <3>4
  <2> QED BY <1>1, <2>1, <2>2
<1> QED BY <1>1, <1>4, <1>5 DEF Complete, N, M

\* An empty line asks for nothing
LEMMA SkipCompletes ==
    ASSUME TInv, Complete, NEW l \in Line, Skip(l)
    PROVE  Complete' /\ Well(l)
<1>1. /\ l.tokens = <<>> /\ Reads(l)
      /\ UNCHANGED <<instrs, labels, variables, constants>>
  BY DEF Skip
<1>2. \A c : ~Is(l, c)
  BY <1>1 DEF Is
<1>3. l \notin Instr
  BY <1>2 DEF Instr
<1>4. Complete'
  BY <1>1, <1>2, <1>3, CompleteGrows
<1> QED BY <1>1, <1>4 DEF Well

\* A line has one command
LEMMA OneCommand ==
    ASSUME NEW l \in Line
    PROVE  /\ Is(l, {"var"}) \/ Is(l, {"label"}) => l \notin Instr /\ ~Is(l, {"write"})
           /\ Is(l, {"var"}) => ~Is(l, {"label"})
           /\ Is(l, Commands \ {"var", "label"}) =>
                 l \in Instr /\ ~Is(l, {"var"}) /\ ~Is(l, {"label"})
BY DEF Is, Instr

\* A variable is in the table once its line is read
LEMMA VariableCompletes ==
    ASSUME ReadAsWritten, TInv, DeclarationsOK, Complete, NEW l \in Line, DeclareVariable(l)
    PROVE  Complete'
<1>1. /\ DOMAIN variables' = 1 .. Len(variables) + 1 /\ Len(variables) \in Nat
      /\ DOMAIN variables = 1 .. Len(variables)
      /\ \A k \in DOMAIN variables : variables'[k] = variables[k]
      /\ variables'[Len(variables) + 1]
            = [name |-> Name(l), line |-> Len(lines) + 1, addr |-> 0]
      /\ Is(l, {"var"}) /\ Reads(l)
  BY VariableDeclared
<1>2. UNCHANGED <<instrs, labels, constants>>
  BY DEF DeclareVariable
<1>3. l \notin Instr /\ ~Is(l, {"write"}) /\ ~Is(l, {"label"})
  BY <1>1, OneCommand
<1>4. \E k \in DOMAIN variables' : variables'[k].line = Len(lines) + 1
  <2>1. Len(variables) + 1 \in DOMAIN variables'
    BY <1>1
  <2>2. variables'[Len(variables) + 1].line = Len(lines) + 1
    BY <1>1
  <2> QED BY <2>1, <2>2
<1>5. \A k \in DOMAIN variables : k \in DOMAIN variables' /\ variables'[k] = variables[k]
  BY <1>1
<1> QED BY <1>1, <1>2, <1>3, <1>4, <1>5, CompleteGrows

\* A label has the address of the next instruction
LEMMA LabelCompletes ==
    ASSUME ReadAsWritten, TInv, Complete, NEW l \in Line, DeclareLabel(l)
    PROVE  Complete'
<1>1. Accepted(l, {"label"}) /\ UNCHANGED <<instrs, variables, constants>>
  BY DEF DeclareLabel
<1>2. /\ Reads(l) /\ Is(l, {"label"}) /\ Well(l) /\ phase = "pass1"
      /\ l.tokens[2].text \notin DOMAIN labels
  BY <1>1, AcceptedIs DEF Is
<1>3. Name(l) = l.tokens[2].text
  <2>1. Is(l, {"var", "label"})
    BY <1>2 DEF Is
  <2> QED BY <1>2, <2>1, DeclaredName
<1>4. l \notin Instr /\ ~Is(l, {"write"}) /\ ~Is(l, {"var"})
  BY <1>2, OneCommand
<1>5. next = First + Len(instrs)
  BY <1>2, LabelNumbers
<1>6. /\ Name(l) \in DOMAIN labels' /\ labels'[Name(l)] = First + Len(instrs)
      /\ \A x \in DOMAIN labels : x \in DOMAIN labels' /\ labels'[x] = labels[x]
  BY <1>2, <1>3, <1>5 DEF DeclareLabel
<1> QED BY <1>1, <1>2, <1>4, <1>6, CompleteGrows

\* What an instruction adds
LEMMA InstructionAdded ==
    ASSUME ReadAsWritten, TInv, NEW l \in Line, AddInstruction(l)
    PROVE  /\ Reads(l) /\ Well(l) /\ Is(l, Commands \ {"var", "label"}) /\ l \in Instr
           /\ UNCHANGED <<labels, variables, output>>
           /\ Len(instrs') = Len(instrs) + 1
           /\ instrs'[Len(instrs) + 1].line = Len(lines) + 1
           /\ \A k \in DOMAIN instrs : instrs'[k] = instrs[k]
           /\ constants' = IF Is(l, {"write"}) THEN WithConstant(constants, LexOf(l)[2])
                                               ELSE constants
<1>1. Accepted(l, Commands \ {"var", "label"}) /\ UNCHANGED <<labels, variables>>
  BY DEF AddInstruction
<1>2. /\ Reads(l) /\ Well(l) /\ Is(l, Commands \ {"var", "label"})
      /\ Lexemes(l) = LexOf(l)
  BY <1>1, AcceptedIs
<1>3. l \in Instr /\ output' = output
  BY <1>2, OneCommand DEF Reads
<1>4. Len(lines') = Len(lines) + 1
  BY <1>2, ReadsOne
<1> DEFINE new == [lex |-> Lexemes(l), line |-> Len(lines) + 1]
<1>5. instrs' = Append(instrs, new) /\ SeqOK(instrs)
  BY <1>4 DEF AddInstruction, TInv
<1>6. new.line = Len(lines) + 1
  OBVIOUS
<1> HIDE DEF new
<1>7. /\ Len(instrs') = Len(instrs) + 1 /\ instrs'[Len(instrs) + 1] = new
      /\ \A k \in DOMAIN instrs : instrs'[k] = instrs[k]
  BY <1>5, SeqAppend
<1>8. constants' = IF Is(l, {"write"}) THEN WithConstant(constants, LexOf(l)[2]) ELSE constants
  BY <1>2 DEF AddInstruction, Is
<1> QED BY <1>1, <1>2, <1>3, <1>6, <1>7, <1>8

\* A constant is there once it is added, and those before it stay
LEMMA ConstantAdded ==
    ASSUME NEW cs, SeqOK(cs), NEW x
    PROVE  /\ \A k \in DOMAIN cs : /\ k \in DOMAIN WithConstant(cs, x)
                                   /\ WithConstant(cs, x)[k] = cs[k]
           /\ \E k \in DOMAIN WithConstant(cs, x) : SameConstant(WithConstant(cs, x)[k], x)
           /\ \A k \in DOMAIN WithConstant(cs, x) \ DOMAIN cs :
                 /\ WithConstant(cs, x)[k].t = x.t /\ WithConstant(cs, x)[k].v = x.v
                 /\ WithConstant(cs, x)[k].val = Evaluated(x)
<1>1. CASE \E i \in DOMAIN cs : SameConstant(cs[i], x)
  BY <1>1 DEF WithConstant
<1>2. CASE ~ \E i \in DOMAIN cs : SameConstant(cs[i], x)
  <2> DEFINE new == [t |-> x.t, v |-> x.v, val |-> Evaluated(x), addr |-> 0]
  <2>1. WithConstant(cs, x) = Append(cs, new)
    BY <1>2 DEF WithConstant
  <2>2. new.t = x.t /\ new.v = x.v /\ new.val = Evaluated(x)
    OBVIOUS
  <2>3. SameConstant(new, x)
    BY <2>2 DEF SameConstant
  <2> HIDE DEF new
  <2>4. /\ Len(cs) \in Nat /\ DOMAIN cs = 1 .. Len(cs)
        /\ DOMAIN Append(cs, new) = 1 .. Len(cs) + 1
        /\ \A k \in DOMAIN cs : Append(cs, new)[k] = cs[k]
        /\ Append(cs, new)[Len(cs) + 1] = new
    BY SeqAppend
  <2>5. /\ \A k \in DOMAIN cs : k \in DOMAIN Append(cs, new)
        /\ Len(cs) + 1 \in DOMAIN Append(cs, new)
        /\ \A k \in DOMAIN Append(cs, new) \ DOMAIN cs : k = Len(cs) + 1
    BY <2>4
  <2> QED BY <2>1, <2>2, <2>3, <2>4, <2>5
<1> QED BY <1>1, <1>2

\* An instruction is in the program once its line is read, and so is its constant
LEMMA InstructionCompletes ==
    ASSUME ReadAsWritten, TInv, Complete, NEW l \in Line, AddInstruction(l)
    PROVE  Complete'
<1>1. /\ Reads(l) /\ Is(l, Commands \ {"var", "label"}) /\ l \in Instr
      /\ UNCHANGED <<labels, variables>>
      /\ Len(instrs') = Len(instrs) + 1
      /\ instrs'[Len(instrs) + 1].line = Len(lines) + 1
      /\ \A k \in DOMAIN instrs : instrs'[k] = instrs[k]
      /\ constants' = IF Is(l, {"write"}) THEN WithConstant(constants, LexOf(l)[2])
                                          ELSE constants
  BY InstructionAdded
<1>2. ~Is(l, {"var"}) /\ ~Is(l, {"label"})
  BY <1>1, OneCommand
<1>3. SeqOK(constants)
  BY DEF TInv
<1>4. /\ \A k \in DOMAIN constants : k \in DOMAIN constants' /\ constants'[k] = constants[k]
      /\ Is(l, {"write"}) =>
            \E k \in DOMAIN constants' : SameConstant(constants'[k], LexOf(l)[2])
  <2>1. CASE Is(l, {"write"})
    <3>1. constants' = WithConstant(constants, LexOf(l)[2])
      BY <1>1, <2>1
    <3> QED BY <1>3, <3>1, ConstantAdded
  <2>2. CASE ~Is(l, {"write"})
    BY <1>1, <2>2
  <2> QED BY <2>1, <2>2
<1> QED BY <1>1, <1>2, <1>4, CompleteGrows

\* After pass 1 nothing that was read is lost
LEMMA CompleteStays ==
    ASSUME TInv, Complete, UNCHANGED <<lines, instrs, labels>>,
           DOMAIN variables' = DOMAIN variables,
           \A k \in DOMAIN variables : variables'[k].line = variables[k].line,
           DOMAIN constants' = DOMAIN constants,
           \A k \in DOMAIN constants : /\ constants'[k].t = constants[k].t
                                       /\ constants'[k].v = constants[k].v
    PROVE  Complete'
<1>1. \A i : N(i)' = N(i)
  BY DEF N
<1>2. ASSUME NEW i \in DOMAIN lines, Is(lines[i], {"var"})
      PROVE  \E k \in DOMAIN variables' : variables'[k].line = i
  <2>1. PICK k \in DOMAIN variables : variables[k].line = i
    BY <1>2 DEF Complete
  <2> QED BY <2>1
<1>3. ASSUME NEW i \in DOMAIN lines, Is(lines[i], {"write"})
      PROVE  \E k \in DOMAIN constants' : SameConstant(constants'[k], LexOf(lines[i])[2])
  <2>1. PICK k \in DOMAIN constants : SameConstant(constants[k], LexOf(lines[i])[2])
    BY <1>3 DEF Complete
  <2> QED BY <2>1 DEF SameConstant
<1> QED BY <1>1, <1>2, <1>3 DEF Complete

-----------------------------------------------------------------------------
(* Addresses *)

\* What the symbol of a constant says in the end
Value(c) == IF c.t = "lbl" /\ c.v \in DOMAIN labels THEN Digits(labels[c.v]) ELSE Evaluated(c)

\* There is an image
Succeeded == result \in {"succeeded", "warned"}

\* The entries have these fields and no others
RecordsOK ==
    /\ \A k \in DOMAIN constants :
          constants[k] = [t |-> constants[k].t, v |-> constants[k].v,
                          val |-> constants[k].val, addr |-> constants[k].addr]
    /\ \A k \in DOMAIN variables :
          variables[k] = [name |-> variables[k].name, line |-> variables[k].line,
                          addr |-> variables[k].addr]

\* Constants follow the code, and variables the constants, one cell each
PlacesOK ==
    /\ RecordsOK
    /\ phase \in {"pass1", "addresses"} =>
          \A k \in DOMAIN constants : constants[k].val = Evaluated(constants[k])
    /\ phase \in {"open", "pass2", "map"} \/ Succeeded =>
          /\ \A k \in DOMAIN constants :
                /\ constants[k].addr = First + Len(instrs) + k - 1
                /\ constants[k].val = Value(constants[k])
          /\ \A k \in DOMAIN variables :
                variables[k].addr = First + Len(instrs) + Len(constants) + k - 1

\* The value of a constant follows from its type and text
LEMMA EvaluatedSame ==
    ASSUME NEW x, NEW y, x.t = y.t, x.v = y.v
    PROVE  Evaluated(x) = Evaluated(y)
BY DEF Evaluated

\* An instruction adds no constant but the value of a write
LEMMA ConstantsOfLine ==
    ASSUME PlacesOK, SeqOK(constants), NEW x, phase = "pass1"
    PROVE  \A k \in DOMAIN WithConstant(constants, x) :
              LET c == WithConstant(constants, x)[k]
              IN  /\ c = [t |-> c.t, v |-> c.v, val |-> c.val, addr |-> c.addr]
                  /\ c.val = Evaluated(c)
<1> DEFINE new == [t |-> x.t, v |-> x.v, val |-> Evaluated(x), addr |-> 0]
           cs == WithConstant(constants, x)
<1>1. /\ new = [t |-> new.t, v |-> new.v, val |-> new.val, addr |-> new.addr]
      /\ new.t = x.t /\ new.v = x.v /\ new.val = Evaluated(x)
  OBVIOUS
<1>2. cs = constants \/ cs = Append(constants, new)
  BY DEF WithConstant
<1> HIDE DEF new, cs
<1>3. new.val = Evaluated(new)
  BY <1>1, EvaluatedSame
<1>4. ASSUME NEW k \in DOMAIN cs
      PROVE  LET c == cs[k]
             IN  /\ c = [t |-> c.t, v |-> c.v, val |-> c.val, addr |-> c.addr]
                 /\ c.val = Evaluated(c)
  <2>1. ASSUME NEW j \in DOMAIN constants
        PROVE  LET c == constants[j]
               IN  /\ c = [t |-> c.t, v |-> c.v, val |-> c.val, addr |-> c.addr]
                   /\ c.val = Evaluated(c)
    BY DEF PlacesOK, RecordsOK
  <2>2. CASE cs = constants
    BY <2>1, <2>2
  <2>3. CASE cs = Append(constants, new)
    <3>1. /\ Len(constants) \in Nat /\ DOMAIN constants = 1 .. Len(constants)
          /\ DOMAIN cs = 1 .. Len(constants) + 1
          /\ \A j \in DOMAIN constants : cs[j] = constants[j]
          /\ cs[Len(constants) + 1] = new
      BY <2>3, SeqAppend
    <3>2. k \in DOMAIN constants \/ k = Len(constants) + 1
      BY <3>1
    <3>3. k \in DOMAIN constants => cs[k] = constants[k]
      BY <3>1
    <3>4. k = Len(constants) + 1 => cs[k] = new
      BY <3>1
    <3> QED BY <1>1, <1>3, <2>1, <3>2, <3>3, <3>4
  <2> QED BY <1>2, <2>2, <2>3
<1> QED BY <1>4 DEF cs

\* What is declared is a record
LEMMA VariableRecord ==
    ASSUME ReadAsWritten, TInv, DeclarationsOK, PlacesOK, NEW l \in Line, DeclareVariable(l)
    PROVE  \A k \in DOMAIN variables' :
              variables'[k] = [name |-> variables'[k].name, line |-> variables'[k].line,
                               addr |-> variables'[k].addr]
<1> DEFINE new == [name |-> Name(l), line |-> Len(lines) + 1, addr |-> 0]
<1>1. new = [name |-> new.name, line |-> new.line, addr |-> new.addr]
  OBVIOUS
<1>2. /\ Len(variables) \in Nat /\ DOMAIN variables = 1 .. Len(variables)
      /\ DOMAIN variables' = 1 .. Len(variables) + 1
      /\ \A k \in DOMAIN variables : variables'[k] = variables[k]
      /\ variables'[Len(variables) + 1] = new
  BY VariableDeclared
<1> HIDE DEF new
<1>3. DOMAIN variables' = DOMAIN variables \cup {Len(variables) + 1}
  BY <1>2
<1>4. ASSUME NEW k \in DOMAIN variables
      PROVE  variables'[k] = [name |-> variables'[k].name, line |-> variables'[k].line,
                              addr |-> variables'[k].addr]
  BY <1>2 DEF PlacesOK, RecordsOK
<1> QED BY <1>1, <1>2, <1>3, <1>4

\* Pass 1 gives no addresses
LEMMA LinePlaces ==
    ASSUME TInv, PlacesOK, phase = "pass1", Goes \/ Fails(1),
           \A k \in DOMAIN variables' :
              variables'[k] = [name |-> variables'[k].name, line |-> variables'[k].line,
                               addr |-> variables'[k].addr],
           \A k \in DOMAIN constants' :
              LET c == constants'[k]
              IN  /\ c = [t |-> c.t, v |-> c.v, val |-> c.val, addr |-> c.addr]
                  /\ c.val = Evaluated(c)
    PROVE  PlacesOK'
<1>1. phase' \in {"pass1", "done"} /\ result' \in {"none", "aborted"}
  <2>1. CASE Goes
    BY <2>1, Running DEF Goes
  <2>2. CASE Fails(1)
    BY <2>2, FailsType
  <2> QED BY <2>1, <2>2
<1>2. ~Succeeded'
  BY <1>1 DEF Succeeded
<1> QED BY <1>1, <1>2 DEF PlacesOK, RecordsOK

\* What a constant and a variable become when they get addresses
LEMMA AddressesOf ==
    ASSUME TInv, PlacesOK, CalculateAddresses
    PROVE  /\ \A k \in DOMAIN constants :
                 constants'[k] = [t |-> constants[k].t, v |-> constants[k].v,
                                  val |-> Value(constants[k]),
                                  addr |-> First + Len(instrs) + k - 1]
           /\ \A k \in DOMAIN variables :
                 variables'[k] = [name |-> variables[k].name, line |-> variables[k].line,
                                  addr |-> First + Len(instrs) + Len(constants) + k - 1]
<1>1. phase = "addresses" /\ next = First + Len(instrs)
  <2>1. phase = "addresses"
    BY DEF CalculateAddresses
  <2> QED BY <2>1, StepKeeps
<1>2. ASSUME NEW k \in DOMAIN constants
      PROVE  constants'[k] = [t |-> constants[k].t, v |-> constants[k].v,
                              val |-> Value(constants[k]),
                              addr |-> First + Len(instrs) + k - 1]
  <2>1. PICK c : c = constants[k]
    OBVIOUS
  <2>2. c = [t |-> c.t, v |-> c.v, val |-> c.val, addr |-> c.addr] /\ c.val = Evaluated(c)
    BY <1>1, <2>1 DEF PlacesOK, RecordsOK
  <2>3. PICK w : w = Value(c)
    OBVIOUS
  <2>4. w = IF c.t = "lbl" /\ c.v \in DOMAIN labels THEN Digits(labels[c.v]) ELSE c.val
    BY <2>2, <2>3 DEF Value
  <2>5. constants'[k] = [c EXCEPT !.addr = next + k - 1, !.val = w]
    BY <2>1, <2>4 DEF CalculateAddresses
  <2>6. constants'[k] = [t |-> c.t, v |-> c.v, val |-> w, addr |-> next + k - 1]
    BY <2>2, <2>5
  <2> QED BY <1>1, <2>1, <2>3, <2>6
<1>3. ASSUME NEW k \in DOMAIN variables
      PROVE  variables'[k] = [name |-> variables[k].name, line |-> variables[k].line,
                              addr |-> First + Len(instrs) + Len(constants) + k - 1]
  <2>1. PICK c : c = variables[k]
    OBVIOUS
  <2>2. c = [name |-> c.name, line |-> c.line, addr |-> c.addr]
    BY <2>1 DEF PlacesOK, RecordsOK
  <2>3. variables'[k] = [c EXCEPT !.addr = next + Len(constants) + k - 1]
    BY <2>1 DEF CalculateAddresses
  <2>4. variables'[k] = [name |-> c.name, line |-> c.line, addr |-> next + Len(constants) + k - 1]
    BY <2>2, <2>3
  <2> QED BY <1>1, <2>1, <2>4
<1> QED BY <1>2, <1>3

\* The addresses follow the code, the constants before the variables
LEMMA CalculatePlaces ==
    ASSUME TInv, PlacesOK, CalculateAddresses
    PROVE  PlacesOK'
<1>1. /\ phase' = "open" /\ UNCHANGED <<instrs, labels>>
      /\ DOMAIN constants' = DOMAIN constants /\ Len(constants') = Len(constants)
      /\ DOMAIN variables' = DOMAIN variables
  BY CalculateAddressesIs DEF CalculateAddresses
<1>2. ASSUME NEW k \in DOMAIN constants, NEW c, c = constants'[k]
      PROVE  /\ c = [t |-> c.t, v |-> c.v, val |-> c.val, addr |-> c.addr]
             /\ c.addr = First + Len(instrs) + k - 1
             /\ c.val = IF c.t = "lbl" /\ c.v \in DOMAIN labels'
                        THEN Digits(labels'[c.v]) ELSE Evaluated(c)
  <2>1. PICK w, b, a : w = Value(b) /\ b = constants[k] /\ a = First + Len(instrs) + k - 1
    OBVIOUS
  <2>2. c = [t |-> b.t, v |-> b.v, val |-> w, addr |-> a]
    BY <1>2, <2>1, AddressesOf
  <2>3. /\ c.t = b.t /\ c.v = b.v /\ c.val = w /\ c.addr = a
        /\ c = [t |-> c.t, v |-> c.v, val |-> c.val, addr |-> c.addr]
    BY <2>2
  <2>4. Evaluated(c) = Evaluated(b)
    BY <2>3, EvaluatedSame
  <2> QED BY <1>1, <2>1, <2>3, <2>4 DEF Value
<1>3. ASSUME NEW k \in DOMAIN variables, NEW c, c = variables'[k]
      PROVE  /\ c = [name |-> c.name, line |-> c.line, addr |-> c.addr]
             /\ c.addr = First + Len(instrs) + Len(constants) + k - 1
  <2>1. PICK b, a : b = variables[k] /\ a = First + Len(instrs) + Len(constants) + k - 1
    OBVIOUS
  <2>2. c = [name |-> b.name, line |-> b.line, addr |-> a]
    BY <1>3, <2>1, AddressesOf
  <2> QED BY <2>1, <2>2
<1>4. RecordsOK'
  BY <1>1, <1>2, <1>3 DEF RecordsOK
<1>5. \A k \in DOMAIN constants' : /\ constants'[k].addr = First + Len(instrs') + k - 1
                                   /\ constants'[k].val = Value(constants[k])'
  BY <1>1, <1>2 DEF Value
<1> QED BY <1>1, <1>3, <1>4, <1>5 DEF PlacesOK

\* The later steps leave the addresses alone
LEMMA LaterPlaces ==
    ASSUME PlacesOK, UNCHANGED source,
           \/ phase \in {"open", "pass2", "map"} \/ Succeeded
           \/ phase' \notin {"open", "pass2", "map"} /\ ~Succeeded',
           phase' \in {"pass1", "addresses"} => phase \in {"pass1", "addresses"}
    PROVE  PlacesOK'
<1>1. UNCHANGED <<instrs, labels, variables, constants>>
  BY DEF source
<1>2. RecordsOK'
  BY <1>1 DEF PlacesOK, RecordsOK
<1>3. \A c : Value(c)' = Value(c)
  BY <1>1 DEF Value
<1> QED BY <1>1, <1>2, <1>3 DEF PlacesOK

\* Every step keeps the addresses
LEMMA PlacesNext ==
    ASSUME ReadAsWritten, TInv, DeclarationsOK, PlacesOK, [Next]_vars
    PROVE  PlacesOK'
<1>1. ASSUME NEW l \in Line, Skip(l) \/ Refuse(l) \/ DeclareLabel(l) PROVE PlacesOK'
  <2>1. /\ phase = "pass1" /\ (Goes \/ Fails(1)) /\ UNCHANGED <<variables, constants>>
    BY <1>1 DEF Skip, Refuse, DeclareLabel, Accepted, Reads
  <2> QED BY <2>1, LinePlaces DEF PlacesOK, RecordsOK
<1>2. ASSUME NEW l \in Line, DeclareVariable(l) PROVE PlacesOK'
  <2>1. phase = "pass1" /\ Goes /\ constants' = constants
    BY <1>2 DEF DeclareVariable, Accepted, Reads
  <2>2. \A k \in DOMAIN constants' :
           LET c == constants'[k]
           IN  /\ c = [t |-> c.t, v |-> c.v, val |-> c.val, addr |-> c.addr]
               /\ c.val = Evaluated(c)
    BY <2>1 DEF PlacesOK, RecordsOK
  <2>3. \A k \in DOMAIN variables' :
           variables'[k] = [name |-> variables'[k].name, line |-> variables'[k].line,
                            addr |-> variables'[k].addr]
    BY <1>2, VariableRecord
  <2> QED BY <2>1, <2>2, <2>3, LinePlaces
<1>3. ASSUME NEW l \in Line, AddInstruction(l) PROVE PlacesOK'
  <2>1. /\ phase = "pass1" /\ Goes /\ variables' = variables
        /\ \/ constants' = constants
           \/ constants' = WithConstant(constants, LexOf(l)[2])
    BY <1>3, InstructionAdded DEF AddInstruction, Accepted, Reads
  <2>2. SeqOK(constants)
    BY DEF TInv
  <2>3. \A k \in DOMAIN constants' :
           LET c == constants'[k]
           IN  /\ c = [t |-> c.t, v |-> c.v, val |-> c.val, addr |-> c.addr]
               /\ c.val = Evaluated(c)
    <3>1. CASE constants' = constants
      BY <2>1, <3>1 DEF PlacesOK, RecordsOK
    <3>2. CASE constants' = WithConstant(constants, LexOf(l)[2])
      BY <2>1, <2>2, <3>2, ConstantsOfLine
    <3> QED BY <2>1, <3>1, <3>2
  <2>4. \A k \in DOMAIN variables' :
           variables'[k] = [name |-> variables'[k].name, line |-> variables'[k].line,
                            addr |-> variables'[k].addr]
    BY <2>1 DEF PlacesOK, RecordsOK
  <2> QED BY <2>1, <2>3, <2>4, LinePlaces
<1>4. CASE EndOfSource \/ CannotOpen
  <2>1. /\ UNCHANGED source
        /\ phase' \in {"addresses", "done"} /\ ~Succeeded'
        /\ phase' = "addresses" => phase = "pass1"
    <3>1. CASE EndOfSource
      <4>1. phase = "pass1"
        BY <3>1 DEF EndOfSource
      <4>2. result = "none"
        BY <4>1, Running
      <4> QED BY <3>1, <4>1, <4>2 DEF EndOfSource, Return, Succeeded
    <3>2. CASE CannotOpen
      BY <3>2 DEF CannotOpen, Return, Succeeded
    <3> QED BY <1>4, <3>1, <3>2
  <2> QED BY <2>1, LaterPlaces
<1>5. CASE Open \/ EmitInstruction \/ WriteImage \/ WriteMap
  <2>1. UNCHANGED source /\ phase \in {"open", "pass2", "map"}
    BY <1>5 DEF Open, EmitInstruction, WriteImage, WriteMap
  <2>2. phase' \notin {"pass1", "addresses"}
    <3>1. CASE EmitInstruction
      BY <2>1, <3>1 DEF EmitInstruction, Fails
    <3>2. CASE Open \/ WriteImage \/ WriteMap
      BY <3>2 DEF Open, WriteImage, WriteMap, Return
    <3> QED BY <1>5, <3>1, <3>2
  <2> QED BY <2>1, <2>2, LaterPlaces
<1>6. CASE UNCHANGED vars
  <2>1. UNCHANGED source /\ UNCHANGED <<phase, result>>
    BY <1>6 DEF vars
  <2> QED BY <2>1, LaterPlaces DEF Succeeded
<1>7. CASE ProcessLine
  <2>1. PICK l \in Line : \/ Skip(l) \/ Refuse(l)
                          \/ DeclareVariable(l) \/ DeclareLabel(l) \/ AddInstruction(l)
    BY <1>7 DEF ProcessLine
  <2> QED BY <1>1, <1>2, <1>3, <2>1
<1> QED BY <1>4, <1>5, <1>6, <1>7, CalculatePlaces DEF Next

-----------------------------------------------------------------------------
(* The image and the map *)

\* The output is the encoded code as far as it has come, the image all of it,
\* and the map what MapOf makes of the tables
OutputOK ==
    /\ phase \in {"pass1", "addresses", "open"} => output = <<>>
    /\ \A k \in DOMAIN output : output[k] = Encoded(instrs[k].lex)
    /\ phase = "map" \/ Succeeded =>
          /\ Len(output) = Len(instrs) /\ output # <<>>
          /\ image = output \o [i \in DOMAIN constants |-> Text(constants[i].val)]
                            \o [i \in DOMAIN variables |-> Text(Blank)]
    /\ result = "succeeded" => map = MapOf

\* Pass 2 encodes with tables that stay as they are
LEMMA EncodedStays ==
    ASSUME UNCHANGED source, NEW lex
    PROVE  /\ Encoded(lex)' = Encoded(lex) /\ UndefinedOf(lex)' = UndefinedOf(lex)
           /\ MapOf' = MapOf
<1>1. UNCHANGED <<lines, instrs, labels, variables, constants>>
  BY DEF source
<1>2. \A c, i, x : Undefined(c, i, x)' = Undefined(c, i, x)
  BY <1>1 DEF Undefined, Names
<1>3. \A x : ConstantAt(x)' = ConstantAt(x) /\ VariableAt(x)' = VariableAt(x)
  BY <1>1 DEF ConstantAt, VariableAt
<1>4. \A c, i, x : Operand(c, i, x)' = Operand(c, i, x)
  <2> SUFFICES ASSUME NEW c, NEW i, NEW x PROVE Operand(c, i, x)' = Operand(c, i, x)
    OBVIOUS
  <2>1. Undefined(c, i, x)' = Undefined(c, i, x)
    BY <1>2
  <2>2. ConstantAt(x)' = ConstantAt(x) /\ VariableAt(x.v)' = VariableAt(x.v)
    BY <1>3
  <2>3. PICK a, b, d : /\ a = constants[ConstantAt(x)].addr /\ b = labels[x.v]
                       /\ d = variables[VariableAt(x.v)].addr
    OBVIOUS
  <2>4. /\ a = (constants[ConstantAt(x)].addr)' /\ b = labels'[x.v]
        /\ d = (variables[VariableAt(x.v)].addr)'
    BY <1>1, <2>2, <2>3
  <2> DEFINE Made == << CASE IsValue(c, i) -> <<"_", a>>
                          [] ~IsValue(c, i) /\ x.t = "lbl" -> <<"_", b>>
                          [] x.t = "var" -> <<x.p, d>>
                          [] x.t = "reg" -> <<x.p, Symbol[x.v].v>>
                          [] ~IsValue(c, i) /\ x.t = "num" -> <<x.p, x.v>> >>
  <2>5. Operand(c, i, x) = IF i = 1 \/ x.t = "kto" \/ Undefined(c, i, x) THEN <<>> ELSE Made
    BY <2>3 DEF Operand
  <2>6. Operand(c, i, x)' = IF i = 1 \/ x.t = "kto" \/ Undefined(c, i, x)' THEN <<>> ELSE Made
    BY <2>4 DEF Operand
  <2> HIDE DEF Made
  <2> QED BY <2>1, <2>5, <2>6
<1>5. Encoded(lex)' = Encoded(lex)
  BY <1>4 DEF Encoded
<1>6. UndefinedOf(lex)' = UndefinedOf(lex)
  BY <1>2 DEF UndefinedOf
<1>7. MapOf' = MapOf
  BY <1>1 DEF MapOf
<1> QED BY <1>5, <1>6, <1>7

\* Every step keeps the output, the image and the map
LEMMA OutputNext ==
    ASSUME TInv, OutputOK, [Next]_vars
    PROVE  OutputOK'
<1>1. ASSUME output = <<>>, output' = output, phase' \in {"pass1", "addresses", "open", "pass2", "done"},
             result' \in {"none", "aborted", "failed"}
      PROVE  OutputOK'
  <2>1. DOMAIN output' = {}
    BY <1>1
  <2> QED BY <1>1, <2>1 DEF OutputOK, Succeeded
<1>2. CASE ProcessLine
  <2>1. PICK l \in Line : Reads(l) /\ (Goes \/ Fails(1))
    BY <1>2 DEF ProcessLine, Skip, Refuse, DeclareVariable, DeclareLabel, AddInstruction, Accepted
  <2>2. phase = "pass1" /\ output' = output
    BY <2>1 DEF Reads
  <2>3. result = "none"
    BY <2>2, Running
  <2>4. /\ phase' \in {"pass1", "addresses", "open", "pass2", "done"}
        /\ result' \in {"none", "aborted", "failed"}
    BY <2>1, <2>2, <2>3 DEF Goes, Fails
  <2> QED BY <1>1, <2>2, <2>4 DEF OutputOK
<1>3. CASE EndOfSource \/ CannotOpen \/ CalculateAddresses \/ Open
  <2>1. phase \in {"pass1", "addresses", "open"} /\ output' = output
    BY <1>3 DEF EndOfSource, CannotOpen, CalculateAddresses, Open
  <2>2. result = "none"
    BY <2>1, Running
  <2>3. /\ phase' \in {"pass1", "addresses", "open", "pass2", "done"}
        /\ result' \in {"none", "aborted", "failed"}
    BY <1>3, <2>2 DEF EndOfSource, CannotOpen, CalculateAddresses, Open, Return
  <2> QED BY <1>1, <2>1, <2>3 DEF OutputOK
<1>4. CASE EmitInstruction
  <2>1. UNCHANGED source /\ instrs' = instrs
    BY <1>4 DEF EmitInstruction, source
  <2> DEFINE n == Len(output) + 1
  <2>2. /\ phase = "pass2" /\ DOMAIN output' = 1 .. n /\ DOMAIN output = 1 .. Len(output)
        /\ \A k \in DOMAIN output : output'[k] = output[k]
        /\ output'[n] = Encoded(instrs[n].lex)
    BY <1>4, EmitInstructionIs
  <2>3. PICK m \in Nat : Fails(m)
    BY <1>4, EmitInstructionIs
  <2>4. phase' \in {"pass2", "done"} /\ result' \in {"none", "aborted"}
    BY <2>2, <2>3, FailsType
  <2>5. ASSUME NEW k \in DOMAIN output' PROVE output'[k] = Encoded(instrs[k].lex)
    <3>1. CASE k = n
      BY <2>2, <3>1
    <3>2. CASE k # n
      <4>1. Len(output) \in Nat
        BY StepKeeps
      <4>2. k \in DOMAIN output
        BY <2>2, <3>2, <4>1
      <4> QED BY <2>2, <4>2 DEF OutputOK
    <3> QED BY <3>1, <3>2
  <2>6. \A k \in DOMAIN output' : output'[k] = Encoded(instrs[k].lex)'
    <3>1. ASSUME NEW lex PROVE Encoded(lex)' = Encoded(lex)
      BY <2>1, EncodedStays
    <3> QED BY <2>1, <2>5, <3>1
  <2> QED BY <2>4, <2>6 DEF OutputOK, Succeeded
<1>5. CASE WriteImage
  <2>1. /\ phase = "pass2" /\ UNCHANGED <<source, output>> /\ Len(output) = Len(instrs)
        /\ image' = output \o [i \in DOMAIN constants |-> Text(constants[i].val)]
                           \o [i \in DOMAIN variables |-> Text(Blank)]
        /\ errors' = IF output = <<>> THEN errors + 1 ELSE errors
        /\ IF errors' > 0 THEN Return("failed") ELSE phase' = "map" /\ UNCHANGED result
    BY <1>5 DEF WriteImage
  <2>2. errors \in Nat /\ result = "none"
    BY <2>1, Running
  <2>3. /\ phase' \in {"map", "done"} /\ result' \in {"none", "failed"}
        /\ phase' = "map" => output # <<>>
    BY <2>1, <2>2 DEF Return
  <2>4. UNCHANGED <<instrs, constants, variables>>
    BY <2>1 DEF source
  <2>5. \A k \in DOMAIN output' : output'[k] = Encoded(instrs[k].lex)'
    <3>1. ASSUME NEW lex PROVE Encoded(lex)' = Encoded(lex)
      BY <2>1, EncodedStays
    <3> QED BY <2>1, <2>4, <3>1 DEF OutputOK
  <2> QED BY <2>1, <2>3, <2>4, <2>5 DEF OutputOK, Succeeded
<1>6. CASE WriteMap
  <2>1. /\ phase = "map" /\ UNCHANGED <<source, output, image>> /\ phase' = "done"
        /\ \/ result' = "succeeded" /\ map' = MapOf
           \/ result' = "warned"
    BY <1>6 DEF WriteMap, Return
  <2>2. UNCHANGED <<instrs, constants, variables>> /\ MapOf' = MapOf
    BY <2>1, EncodedStays DEF source
  <2>3. \A k \in DOMAIN output' : output'[k] = Encoded(instrs[k].lex)'
    <3>1. ASSUME NEW lex PROVE Encoded(lex)' = Encoded(lex)
      BY <2>1, EncodedStays
    <3> QED BY <2>1, <2>2, <3>1 DEF OutputOK
  <2> QED BY <2>1, <2>2, <2>3 DEF OutputOK
<1>7. CASE UNCHANGED vars
  <2>1. UNCHANGED <<source, phase, output, image, map, result, instrs, constants, variables>>
    BY <1>7 DEF vars, source, files
  <2>2. MapOf' = MapOf
    BY <2>1, EncodedStays
  <2>3. \A k \in DOMAIN output' : output'[k] = Encoded(instrs[k].lex)'
    <3>1. ASSUME NEW lex PROVE Encoded(lex)' = Encoded(lex)
      BY <2>1, EncodedStays
    <3> QED BY <2>1, <3>1 DEF OutputOK
  <2> QED BY <2>1, <2>2, <2>3 DEF OutputOK, Succeeded
<1> QED BY <1>2, <1>3, <1>4, <1>5, <1>6, <1>7 DEF Next

-----------------------------------------------------------------------------
(* What a source means, in terms of its lines *)

\* The meaning of a line is one of the line alone
LEMMA InTermsOfLines ==
    ASSUME TInv
    PROVE  /\ \A i \in DOMAIN lines : Lex(i) = LexOf(lines[i])
           /\ \A i \in DOMAIN lines : \A c : Has(i, c) <=> Is(lines[i], c)
           /\ Places = {i \in DOMAIN lines : lines[i] \in Instr}
           /\ \A i \in DOMAIN lines : lines[i] \in Line
<1>1. lines \in Seq(Line)
  BY DEF TInv, AssemblerTypeOK
<1>2. \A i \in DOMAIN lines : lines[i] \in Line
  BY <1>1
<1>3. \A i \in DOMAIN lines : Lex(i) = LexOf(lines[i])
  BY DEF Lex, LexOf
<1>4. \A i \in DOMAIN lines : \A c : Has(i, c) <=> Is(lines[i], c)
  BY DEF Has, Is
<1>5. Places = {i \in DOMAIN lines : lines[i] \in Instr}
  BY <1>2, <1>4 DEF Places, Instr
<1> QED BY <1>2, <1>3, <1>4, <1>5

\* A line that is none, and a name declared twice, are errors of the source
LEMMA BadIsUnsound == TInv /\ Bad => ~Sound
<1> SUFFICES ASSUME TInv, Bad, Sound PROVE FALSE
  OBVIOUS
<1>1. ASSUME NEW i \in DOMAIN lines, ~Well(lines[i]) PROVE FALSE
  <2>1. lines[i].tokens # <<>> /\ ~Matches(lines[i], Lex(i))
    BY <1>1, InTermsOfLines DEF Well
  <2> QED BY <2>1 DEF Sound
<1>2. ASSUME NEW i \in DOMAIN lines, NEW j \in DOMAIN lines, i # j, Twice(lines[i], lines[j])
      PROVE  FALSE
  <2>1. PICK c \in {"var", "label"} : /\ Is(lines[i], {c}) /\ Is(lines[j], {c})
                                      /\ LexOf(lines[i])[2] = LexOf(lines[j])[2]
    BY <1>2 DEF Twice
  <2>2. Has(i, {c}) /\ Has(j, {c}) /\ Lex(i)[2] = Lex(j)[2]
    BY <2>1, InTermsOfLines
  <2> QED BY <1>2, <2>2 DEF Sound
<1> QED BY <1>1, <1>2 DEF Bad

\* What is declared is what pass 1 has found
LEMMA DeclaredIs ==
    ASSUME TInv, DeclarationsOK, ~Bad, Complete
    PROVE  Declared("var") = Names /\ Declared("label") = DOMAIN labels
<1>1. \A c : Declared(c) = {Name(lines[i]) : i \in {j \in DOMAIN lines : Is(lines[j], {c})}}
  <2> TAKE c
  <2>1. {j \in DOMAIN lines : Has(j, {c})} = {j \in DOMAIN lines : Is(lines[j], {c})}
    BY InTermsOfLines
  <2>2. \A i \in DOMAIN lines : Lex(i)[2].v = Name(lines[i])
    BY InTermsOfLines DEF Name
  <2> QED BY <2>1, <2>2 DEF Declared
<1>2. ASSUME NEW n \in Declared("var") PROVE n \in Names
  <2>1. PICK i \in DOMAIN lines : Is(lines[i], {"var"}) /\ n = Name(lines[i])
    BY <1>1, <1>2
  <2>2. PICK k \in DOMAIN variables : variables[k].line = i
    BY <2>1 DEF Complete
  <2>3. variables[k].name = Name(lines[i])
    BY <2>2 DEF DeclarationsOK
  <2> QED BY <2>1, <2>3 DEF Names
<1>3. ASSUME NEW n \in Names PROVE n \in Declared("var")
  <2>1. PICK k \in DOMAIN variables : n = variables[k].name
    BY <1>3 DEF Names
  <2>2. PICK i \in DOMAIN lines : Is(lines[i], {"var"}) /\ n = Name(lines[i])
    BY <2>1 DEF DeclarationsOK
  <2> QED BY <1>1, <2>2
<1>4. ASSUME NEW n \in Declared("label") PROVE n \in DOMAIN labels
  <2>1. PICK i \in DOMAIN lines : Is(lines[i], {"label"}) /\ n = Name(lines[i])
    BY <1>1, <1>4
  <2> QED BY <2>1 DEF Complete
<1>5. ASSUME NEW n \in DOMAIN labels PROVE n \in Declared("label")
  <2>1. PICK i \in DOMAIN lines : Is(lines[i], {"label"}) /\ n = Name(lines[i])
    BY <1>5 DEF DeclarationsOK
  <2> QED BY <1>1, <2>1
<1> QED BY <1>2, <1>3, <1>4, <1>5

\* An instruction and its line
LEMMA LineOfInstr ==
    ASSUME ReadAsWritten, TInv, Complete, NEW k \in DOMAIN instrs
    PROVE  LET i == instrs[k].line
           IN  /\ i \in DOMAIN lines /\ i \in Places /\ lines[i] \in Instr
               /\ N(i) = k /\ instrs[k].lex = LexOf(lines[i])
<1>1. /\ Len(instrs) \in Nat /\ DOMAIN instrs = 1 .. Len(instrs)
      /\ Len(instrs) = Num(lines, Instr, Len(lines)) /\ Len(lines) \in Nat
      /\ DOMAIN lines = 1 .. Len(lines)
  BY SeqAny, Numbering DEF TInv, SeqOK, Complete, N
<1>2. PICK i \in 1 .. Len(lines) : lines[i] \in Instr /\ Num(lines, Instr, i) = k
  <2>1. \A m \in 1 .. Num(lines, Instr, Len(lines)) :
           \E i \in 1 .. Len(lines) : lines[i] \in Instr /\ Num(lines, Instr, i) = m
    <3>1. Len(lines) \in Nat
      BY <1>1
    <3> QED BY <3>1, NumReaches
  <2> QED BY <1>1, <2>1
<1>3. instrs[k].line = i
  BY <1>1, <1>2 DEF Complete, N
<1>4. instrs[k].lex = Lexemes(lines[i]) /\ lines[i] \in Line
  BY <1>3, LexemesOf
<1>5. instrs[k].lex = LexOf(lines[i])
  BY <1>4, LexemesAsWritten
<1>6. i \in Places
  BY <1>1, <1>2, InTermsOfLines
<1> QED BY <1>1, <1>2, <1>3, <1>5, <1>6 DEF N

\* A line and its instruction
LEMMA InstrOfLine ==
    ASSUME TInv, Complete, NEW i \in Places
    PROVE  /\ i \in DOMAIN lines /\ lines[i] \in Instr
           /\ N(i) \in DOMAIN instrs /\ instrs[N(i)].line = i
<1>1. i \in DOMAIN lines /\ lines[i] \in Instr
  BY InTermsOfLines
<1>2. DOMAIN instrs = 1 .. Len(instrs) /\ Len(instrs) = N(Len(lines))
  BY SeqAny DEF TInv, SeqOK, Complete
<1> QED BY <1>1, <1>2, Numbering DEF Complete

\* A name is undefined in pass 2 if and only if no line declares it
LEMMA UndefinedIs ==
    ASSUME TInv, DeclarationsOK, ~Bad, Complete, NEW i \in Places
    PROVE  UndefinedOf(LexOf(lines[i])) = {k \in DOMAIN Lex(i) : ~Defined(i, k)}
<1>1. i \in DOMAIN lines /\ lines[i] \in Instr /\ Lex(i) = LexOf(lines[i])
  BY InTermsOfLines
<1> DEFINE x == LexOf(lines[i])
           c == Command(lines[i])
<1>2. Well(lines[i])
  BY <1>1 DEF Bad
<1>3. /\ x[1].v = c
      /\ c = "write" => x[2].t # "var"
  <2>1. PICK n, y : n = Len(lines[i].tokens) /\ y = x
    OBVIOUS
  <2>2. /\ y[1].v = c
        /\ \/ n = 1 /\ c # "write"
           \/ n = 2 /\ c # "write" /\ y[2].t \in {"num", "reg", "var", "lbl"}
           \/ /\ n = 4
              /\ IF c = "write"
                 THEN y[2].t \in {"str", "num", "opr", "sys", "clr", "mod", "lbl"}
                 ELSE y[2].t \in {"num", "reg", "var"}
    BY <1>1, <1>2, <2>1, InstrShape
  <2>3. c = "write" => y[2].t # "var"
    BY <2>2
  <2> QED BY <2>1, <2>2, <2>3
<1>4. Declared("var") = Names /\ Declared("label") = DOMAIN labels
  BY DeclaredIs
<1> HIDE DEF x, c
<1>5. ASSUME NEW k \in DOMAIN x
      PROVE  Undefined(x[1].v, k, x[k]) <=> ~Defined(i, k)
  <2>1. Defined(i, k) <=> /\ x[k].t = "var" => x[k].v \in Names
                          /\ x[k].t = "lbl" => x[k].v \in DOMAIN labels \/ IsValue(c, k)
    BY <1>1, <1>4 DEF Defined, x, c
  <2>2. IsValue(c, k) => x[k].t # "var"
    BY <1>3 DEF IsValue
  <2> QED BY <1>3, <2>1, <2>2 DEF Undefined
<1> QED BY <1>1, <1>5 DEF UndefinedOf, x

-----------------------------------------------------------------------------
(* Errors *)

\* Errors are counted if and only if there are some: those of the lines up to
\* the end of pass 1, and undefined names in pass 2
ErrorsOK ==
    /\ errors > 0 => IF phase = "pass1" THEN Bad ELSE ~Sound
    /\ phase \in {"addresses", "open", "map"} \/ Succeeded => errors = 0
    /\ errors = 0 \/ phase = "pass2" => ~Bad /\ Complete
    /\ errors = 0 => \A k \in DOMAIN output : UndefinedOf(instrs[k].lex) = {}

\* The inductive invariant
IInv == TInv /\ DeclarationsOK /\ PlacesOK /\ OutputOK /\ ErrorsOK

\* A line that is accepted, or empty
LEMMA AcceptedErrors ==
    ASSUME IInv, TInv', phase = "pass1", Goes, output' = output,
           Bad => Bad', ~Bad /\ Complete => ~Bad' /\ Complete'
    PROVE  ErrorsOK'
<1>1. /\ phase' = "pass1" /\ errors' = errors /\ result' = "none" /\ output' = <<>>
  BY Running DEF Goes, IInv, OutputOK
<1>2. DOMAIN output' = {}
  BY <1>1
<1>3. errors' > 0 => Bad'
  BY <1>1 DEF IInv, ErrorsOK
<1>4. errors' = 0 => ~Bad' /\ Complete'
  BY <1>1 DEF IInv, ErrorsOK
<1> QED BY <1>1, <1>2, <1>3, <1>4 DEF ErrorsOK, Succeeded

\* What is read is not forgotten
LEMMA LinesOnlyGrow ==
    ASSUME TInv, NEW l \in Line, Reads(l)
    PROVE  LinesStay
BY ReadsOne DEF LinesStay

\* An empty line is no error
LEMMA SkipErrors ==
    ASSUME IInv, TInv', NEW l \in Line, Skip(l)
    PROVE  ErrorsOK'
<1>1. /\ Reads(l) /\ phase = "pass1" /\ Goes /\ output' = output /\ l.tokens = <<>>
  BY DEF Skip, Reads
<1>2. Bad => Bad'
  BY <1>1, LinesOnlyGrow, BadStays DEF IInv
<1>3. ASSUME ~Bad, Complete PROVE ~Bad' /\ Complete'
  <2>1. Complete' /\ Well(l)
    BY <1>3, SkipCompletes DEF IInv
  <2>2. \A i \in DOMAIN lines : ~Twice(lines[i], l)
    BY <1>1 DEF Twice, Is
  <2> QED BY <1>1, <1>3, <2>1, <2>2, GoodStays DEF IInv
<1> QED BY <1>1, <1>2, <1>3, AcceptedErrors

\* A variable that is accepted is no error: nothing declares it before
LEMMA VariableErrors ==
    ASSUME ReadAsWritten, IInv, TInv', NEW l \in Line, DeclareVariable(l)
    PROVE  ErrorsOK'
<1>1. Accepted(l, {"var"})
  BY DEF DeclareVariable
<1>2. /\ Reads(l) /\ phase = "pass1" /\ Goes /\ output' = output
      /\ Is(l, {"var"}) /\ Well(l)
  BY <1>1, AcceptedIs DEF Reads
<1>3. Bad => Bad'
  BY <1>2, LinesOnlyGrow, BadStays DEF IInv
<1>4. ASSUME ~Bad, Complete PROVE ~Bad' /\ Complete'
  <2>1. Complete'
    BY <1>4, VariableCompletes DEF IInv
  <2>2. ASSUME NEW i \in DOMAIN lines, Twice(lines[i], l) PROVE FALSE
    <3>1. PICK c \in {"var", "label"} : /\ Is(lines[i], {c}) /\ Is(l, {c})
                                        /\ LexOf(lines[i])[2] = LexOf(l)[2]
      BY <2>2 DEF Twice
    <3>2. c = "var" /\ Name(lines[i]) = Name(l)
      BY <1>2, <3>1, OneCommand DEF Name
    <3>3. PICK k \in DOMAIN variables : variables[k].line = i
      BY <1>4, <3>1, <3>2 DEF Complete
    <3>4. variables[k].name = Name(lines[i])
      BY <3>3 DEF IInv, DeclarationsOK
    <3>5. variables[k].name # Name(l)
      BY VariableDeclared DEF IInv
    <3> QED BY <3>2, <3>4, <3>5
  <2> QED BY <1>2, <1>4, <2>1, <2>2, GoodStays DEF IInv
<1> QED BY <1>2, <1>3, <1>4, AcceptedErrors

\* A label that is accepted is no error: nothing declares it before
LEMMA LabelErrors ==
    ASSUME ReadAsWritten, IInv, TInv', NEW l \in Line, DeclareLabel(l)
    PROVE  ErrorsOK'
<1>1. Accepted(l, {"label"})
  BY DEF DeclareLabel
<1>2. /\ Reads(l) /\ phase = "pass1" /\ Goes /\ output' = output
      /\ Is(l, {"label"}) /\ Well(l) /\ l.tokens[2].text \notin DOMAIN labels
  BY <1>1, AcceptedIs DEF Reads, Is
<1>3. Bad => Bad'
  BY <1>2, LinesOnlyGrow, BadStays DEF IInv
<1>4. ASSUME ~Bad, Complete PROVE ~Bad' /\ Complete'
  <2>1. Complete'
    BY <1>4, LabelCompletes DEF IInv
  <2>2. ASSUME NEW i \in DOMAIN lines, Twice(lines[i], l) PROVE FALSE
    <3>1. PICK c \in {"var", "label"} : /\ Is(lines[i], {c}) /\ Is(l, {c})
                                        /\ LexOf(lines[i])[2] = LexOf(l)[2]
      BY <2>2 DEF Twice
    <3>2. c = "label" /\ Name(lines[i]) = Name(l)
      BY <1>2, <3>1, OneCommand DEF Name
    <3>3. Name(lines[i]) \in DOMAIN labels
      BY <1>4, <3>1, <3>2 DEF Complete
    <3>4. Name(l) = l.tokens[2].text
      <4>1. Is(l, {"var", "label"})
        BY <1>2 DEF Is
      <4> QED BY <1>2, <4>1, DeclaredName
    <3> QED BY <1>2, <3>2, <3>3, <3>4
  <2> QED BY <1>2, <1>4, <2>1, <2>2, GoodStays DEF IInv
<1> QED BY <1>2, <1>3, <1>4, AcceptedErrors

\* An instruction that is accepted is no error of pass 1
LEMMA InstructionErrors ==
    ASSUME ReadAsWritten, IInv, TInv', NEW l \in Line, AddInstruction(l)
    PROVE  ErrorsOK'
<1>1. /\ Reads(l) /\ phase = "pass1" /\ Goes /\ output' = output
      /\ Is(l, Commands \ {"var", "label"}) /\ Well(l)
  BY InstructionAdded DEF AddInstruction, Accepted, Reads, IInv
<1>2. Bad => Bad'
  BY <1>1, LinesOnlyGrow, BadStays DEF IInv
<1>3. ASSUME ~Bad, Complete PROVE ~Bad' /\ Complete'
  <2>1. Complete'
    BY <1>3, InstructionCompletes DEF IInv
  <2>2. ~Is(l, {"var"}) /\ ~Is(l, {"label"})
    BY <1>1, OneCommand
  <2>3. \A i \in DOMAIN lines : ~Twice(lines[i], l)
    BY <2>2 DEF Twice
  <2> QED BY <1>1, <1>3, <2>1, <2>3, GoodStays DEF IInv
<1> QED BY <1>1, <1>2, <1>3, AcceptedErrors

\* What is refused is an error of the source
LEMMA RefuseErrors ==
    ASSUME ReadAsWritten, IInv, TInv', NEW l \in Line, Refuse(l)
    PROVE  ErrorsOK'
<1>1. /\ Reads(l) /\ l.tokens # <<>> /\ Refused(l) /\ Fails(1) /\ phase = "pass1"
  BY DEF Refuse, Reads
<1>2. Bad' /\ ~Sound'
  <2>1. Bad'
    BY <1>1, RefusedIsBad DEF IInv
  <2>2. (TInv /\ Bad => ~Sound)'
    BY BadIsUnsound, PTL
  <2> QED BY <2>1, <2>2
<1>3. /\ errors' > 0 /\ phase' \in {"pass1", "done"} /\ result' \in {"none", "aborted"}
  <2>1. errors \in Nat
    BY <1>1, Running DEF IInv
  <2>2. /\ phase' = phase => errors' = errors + 1
        /\ phase' = "done" => errors' = MaxErrors + 1
        /\ phase' = phase \/ phase' = "done"
        /\ result' \in {"none", "aborted"}
    BY <1>1, FailsType DEF IInv
  <2> QED BY <1>1, <2>1, <2>2, Numbers
<1> QED BY <1>2, <1>3 DEF ErrorsOK, Succeeded

\* What a source means and the errors that it has follow from its lines
LEMMA SameLines ==
    ASSUME lines' = lines
    PROVE  (Bad' <=> Bad) /\ (Sound' <=> Sound)
<1>1. Bad' <=> Bad
  BY DEF Bad
<1>2. \A i : Lex(i)' = Lex(i)
  BY DEF Lex
<1>3. \A i, c : Has(i, c)' <=> Has(i, c)
  BY DEF Has
<1>4. Places' = Places
  BY <1>3 DEF Places
<1>5. \A c : Declared(c)' = Declared(c)
  BY <1>2, <1>3 DEF Declared
<1>6. \A i, k : Defined(i, k)' <=> Defined(i, k)
  BY <1>2, <1>5 DEF Defined
<1>7. Sound' <=> Sound
  BY <1>2, <1>3, <1>4, <1>6 DEF Sound
<1> QED BY <1>1, <1>7

\* A step that finds no error
LEMMA QuietErrors ==
    ASSUME IInv, UNCHANGED <<lines, errors, output>>, phase' # "pass1",
           phase = "pass1" => errors = 0 \/ Bad,
           phase' \in {"addresses", "open", "pass2", "map"} \/ Succeeded' => errors = 0,
           Complete => Complete',
           \A k \in DOMAIN output :
              UndefinedOf(instrs[k].lex) = {} => UndefinedOf(instrs[k].lex)' = {}
    PROVE  ErrorsOK'
<1>1. (Bad' <=> Bad) /\ (Sound' <=> Sound)
  BY SameLines
<1>2. errors' > 0 => ~Sound'
  BY <1>1, BadIsUnsound DEF IInv, ErrorsOK
<1>3. errors' = 0 => ~Bad' /\ Complete'
  BY <1>1 DEF IInv, ErrorsOK
<1>4. errors' = 0 => \A k \in DOMAIN output' : UndefinedOf(instrs[k].lex)' = {}
  BY DEF IInv, ErrorsOK
<1> QED BY <1>2, <1>3, <1>4 DEF ErrorsOK

\* The later steps leave alone what pass 1 has found
LEMMA SourceErrors ==
    ASSUME IInv, UNCHANGED source
    PROVE  /\ Complete => Complete'
           /\ \A k : UndefinedOf(instrs[k].lex)' = UndefinedOf(instrs[k].lex)
<1>1. UNCHANGED <<lines, instrs, labels, variables, constants>>
  BY DEF source
<1>2. Complete => Complete'
  BY <1>1, CompleteStays DEF IInv
<1>3. ASSUME NEW k PROVE UndefinedOf(instrs[k].lex)' = UndefinedOf(instrs[k].lex)
  <2>1. PICK lex : lex = instrs[k].lex
    OBVIOUS
  <2>2. UndefinedOf(lex)' = UndefinedOf(lex)
    BY EncodedStays
  <2>3. lex = (instrs[k].lex)'
    BY <1>1, <2>1
  <2> QED BY <2>1, <2>2, <2>3 DEF UndefinedOf
<1> QED BY <1>2, <1>3

\* The steps between the passes find no error
LEMMA QuietStepErrors ==
    ASSUME IInv, EndOfSource \/ CannotOpen \/ Open \/ WriteMap
    PROVE  ErrorsOK'
<1>1. UNCHANGED <<source, errors, output>>
  BY DEF EndOfSource, CannotOpen, Open, WriteMap
<1>2. /\ Complete => Complete'
      /\ \A k : UndefinedOf(instrs[k].lex)' = UndefinedOf(instrs[k].lex)
  BY <1>1, SourceErrors
<1>3. phase = "pass1" => errors = 0 \/ Bad
  <2>1. errors \in Nat
    BY DEF IInv, TInv, AssemblerTypeOK
  <2> QED BY <2>1 DEF IInv, ErrorsOK
<1>4. phase = "open" \/ phase = "map" => errors = 0
  BY DEF IInv, ErrorsOK
<1>5. /\ phase' # "pass1"
      /\ phase' \in {"addresses", "open", "pass2", "map"} \/ Succeeded' => errors = 0
  <2>1. CASE EndOfSource
    <3>1. phase = "pass1"
      BY <2>1 DEF EndOfSource
    <3>2. result = "none"
      BY <3>1, Running DEF IInv
    <3> QED BY <2>1, <3>2 DEF EndOfSource, Return, Succeeded
  <2>2. CASE CannotOpen
    BY <2>2 DEF CannotOpen, Return, Succeeded
  <2>3. CASE Open
    BY <1>4, <2>3 DEF Open
  <2>4. CASE WriteMap
    BY <1>4, <2>4 DEF WriteMap, Return
  <2> QED BY <2>1, <2>2, <2>3, <2>4
<1>6. lines' = lines
  BY <1>1 DEF source
<1> QED BY <1>1, <1>2, <1>3, <1>5, <1>6, QuietErrors

\* The addresses are no error
LEMMA CalculateErrors ==
    ASSUME IInv, CalculateAddresses
    PROVE  ErrorsOK'
<1>1. /\ phase = "addresses" /\ phase' = "open"
      /\ UNCHANGED <<lines, instrs, labels, errors, output, result>>
      /\ DOMAIN constants' = DOMAIN constants /\ DOMAIN variables' = DOMAIN variables
  BY CalculateAddressesIs DEF CalculateAddresses, IInv
<1>2. ASSUME NEW k \in DOMAIN variables PROVE variables'[k].line = variables[k].line
  <2>1. PICK a : a = First + Len(instrs) + Len(constants) + k - 1
    OBVIOUS
  <2>2. variables'[k] = [name |-> variables[k].name, line |-> variables[k].line, addr |-> a]
    BY <2>1, AddressesOf DEF IInv
  <2> QED BY <2>2
<1>3. ASSUME NEW k \in DOMAIN constants
      PROVE  constants'[k].t = constants[k].t /\ constants'[k].v = constants[k].v
  <2>1. PICK w, a : w = Value(constants[k]) /\ a = First + Len(instrs) + k - 1
    OBVIOUS
  <2>2. constants'[k] = [t |-> constants[k].t, v |-> constants[k].v, val |-> w, addr |-> a]
    BY <2>1, AddressesOf DEF IInv
  <2> QED BY <2>2
<1>4. Complete => Complete'
  BY <1>1, <1>2, <1>3, CompleteStays DEF IInv
<1>5. errors = 0 /\ output = <<>>
  BY <1>1 DEF IInv, ErrorsOK, OutputOK
<1>6. DOMAIN output = {}
  BY <1>5
<1> QED BY <1>1, <1>4, <1>5, <1>6, QuietErrors

\* An operand without an address is a name that no line declares
LEMMA EmitErrors ==
    ASSUME ReadAsWritten, IInv, EmitInstruction
    PROVE  ErrorsOK'
<1> DEFINE n == Len(output) + 1
<1>1. /\ phase = "pass2" /\ n \in DOMAIN instrs
      /\ DOMAIN output = 1 .. Len(output) /\ DOMAIN output' = 1 .. n
      /\ Cardinality(UndefinedOf(instrs[n].lex)) \in Nat
      /\ Fails(Cardinality(UndefinedOf(instrs[n].lex)))
  BY EmitInstructionIs DEF IInv
<1>2. DOMAIN output' = DOMAIN output \cup {n}
  <2>1. Len(output) \in Nat
    BY StepKeeps DEF IInv
  <2> QED BY <1>1, <2>1
<1> HIDE DEF n
<1>3. PICK m : m = Cardinality(UndefinedOf(instrs[n].lex))
  OBVIOUS
<1>4. /\ errors \in Nat /\ m \in Nat
      /\ phase' = "pass2" \/ phase' = "done"
      /\ phase' = "pass2" => errors' = errors + m
      /\ phase' = "done" => errors' = MaxErrors + 1
      /\ result' \in {"none", "aborted"}
  <2>1. errors \in Nat /\ m \in Nat /\ Fails(m)
    BY <1>1, <1>3, Running DEF IInv
  <2> QED BY <1>1, <2>1, FailsType DEF IInv
<1>5. UNCHANGED source /\ lines' = lines /\ instrs' = instrs
  BY DEF EmitInstruction, source
<1>6. Complete /\ ~Bad
  BY <1>1 DEF IInv, ErrorsOK
<1>7. /\ (Bad' <=> Bad) /\ (Sound' <=> Sound) /\ Complete'
      /\ \A k : UndefinedOf(instrs[k].lex)' = UndefinedOf(instrs[k].lex)
  BY <1>5, <1>6, SameLines, SourceErrors
<1>8. m = 0 \/ ~Sound
  <2>1. SUFFICES ASSUME m # 0 PROVE ~Sound
    OBVIOUS
  <2>2. PICK i : i = instrs[n].line
    OBVIOUS
  <2>3. i \in Places /\ lines[i] \in Instr /\ instrs[n].lex = LexOf(lines[i])
    BY <1>1, <1>6, <2>2, LineOfInstr DEF IInv
  <2>4. UndefinedOf(instrs[n].lex) = {k \in DOMAIN Lex(i) : ~Defined(i, k)}
    BY <1>6, <2>3, UndefinedIs DEF IInv
  <2>5. UndefinedOf(instrs[n].lex) # {}
    BY <1>3, <2>1, FS_EmptySet
  <2>6. PICK k \in DOMAIN Lex(i) : ~Defined(i, k)
    BY <2>4, <2>5
  <2> QED BY <2>3, <2>6 DEF Sound
<1>9. m = 0 => UndefinedOf(instrs[n].lex) = {}
  <2>1. IsFiniteSet(UndefinedOf(instrs[n].lex))
    BY <1>1, LexemesOf DEF IInv
  <2> QED BY <1>3, <2>1, FS_EmptySet
<1>10. errors' > 0 => ~Sound'
  <2>1. errors > 0 => ~Sound
    BY <1>1 DEF IInv, ErrorsOK
  <2>2. errors' > 0 => errors > 0 \/ m # 0 \/ phase' = "done"
    BY <1>4
  <2>3. phase' = "done" => errors > 0 \/ m # 0
    <3>1. phase' = "done" => errors + m > MaxErrors
      BY <1>1, <1>3 DEF Fails
    <3> QED BY <1>4, <3>1, Numbers
  <2> QED BY <1>7, <1>8, <2>1, <2>2, <2>3
<1>11. errors' = 0 => \A k \in DOMAIN output' : UndefinedOf(instrs[k].lex)' = {}
  <2>1. SUFFICES ASSUME errors' = 0 PROVE \A k \in DOMAIN output' : UndefinedOf(instrs[k].lex)' = {}
    OBVIOUS
  <2>2. errors = 0 /\ m = 0
    BY <1>4, <2>1, Numbers
  <2>3. \A k \in DOMAIN output : UndefinedOf(instrs[k].lex) = {}
    BY <2>2 DEF IInv, ErrorsOK
  <2> QED BY <1>2, <1>7, <1>9, <2>2, <2>3
<1>12. ~Succeeded' /\ phase' \notin {"pass1", "addresses", "open", "map"}
  BY <1>4 DEF Succeeded
<1> QED BY <1>6, <1>7, <1>10, <1>11, <1>12 DEF ErrorsOK

\* An image without an instruction is an error of the source
LEMMA WriteImageErrors ==
    ASSUME IInv, WriteImage
    PROVE  ErrorsOK'
<1>1. /\ phase = "pass2" /\ UNCHANGED <<source, output>> /\ Len(output) = Len(instrs)
      /\ errors' = IF output = <<>> THEN errors + 1 ELSE errors
      /\ IF errors' > 0 THEN Return("failed") ELSE phase' = "map" /\ UNCHANGED result
  BY DEF WriteImage
<1>2. errors \in Nat /\ result = "none"
  BY <1>1, Running DEF IInv
<1>3. /\ \/ phase' = "map" /\ result' = "none"
         \/ phase' = "done" /\ result' = "failed"
      /\ phase' = "map" => errors' = 0
  BY <1>1, <1>2 DEF Return
<1>4. lines' = lines /\ instrs' = instrs
  BY <1>1 DEF source
<1>5. Complete /\ ~Bad
  BY <1>1 DEF IInv, ErrorsOK
<1>6. /\ (Bad' <=> Bad) /\ (Sound' <=> Sound) /\ Complete'
      /\ \A k : UndefinedOf(instrs[k].lex)' = UndefinedOf(instrs[k].lex)
  BY <1>1, <1>4, <1>5, SameLines, SourceErrors
<1>7. output = <<>> => ~Sound
  <2>1. SUFFICES ASSUME output = <<>>, NEW i \in Places PROVE FALSE
    BY DEF Sound
  <2>2. N(i) \in DOMAIN instrs
    BY <1>5, InstrOfLine DEF IInv
  <2>3. Len(instrs) = 0 /\ DOMAIN instrs = 1 .. Len(instrs)
    BY <1>1, <2>1, SeqAny DEF IInv, TInv, SeqOK
  <2> QED BY <2>2, <2>3
<1>8. errors' > 0 => ~Sound'
  BY <1>1, <1>6, <1>7 DEF IInv, ErrorsOK
<1>9. errors' = 0 => \A k \in DOMAIN output' : UndefinedOf(instrs[k].lex)' = {}
  <2>1. errors' = 0 => errors = 0
    BY <1>1, <1>2
  <2> QED BY <1>1, <1>6, <2>1 DEF IInv, ErrorsOK
<1> QED BY <1>3, <1>5, <1>6, <1>8, <1>9 DEF ErrorsOK, Succeeded

-----------------------------------------------------------------------------
(* The invariant *)

\* Every step keeps the declarations
LEMMA DeclarationsNext ==
    ASSUME ReadAsWritten, IInv, [Next]_vars
    PROVE  DeclarationsOK'
<1>1. ASSUME NEW l \in Line, Skip(l) \/ Refuse(l) \/ AddInstruction(l) PROVE DeclarationsOK'
  <2>1. Reads(l) /\ UNCHANGED <<labels, variables>>
    BY <1>1 DEF Skip, Refuse, AddInstruction, Accepted
  <2>2. LinesStay
    BY <2>1, LinesOnlyGrow DEF IInv
  <2> QED BY <2>1, <2>2, DeclarationsKept DEF IInv
<1>2. CASE CalculateAddresses
  <2>1. /\ UNCHANGED <<lines, labels>> /\ DOMAIN variables' = DOMAIN variables
    BY <1>2, CalculateAddressesIs DEF CalculateAddresses, IInv
  <2>2. LinesStay
    BY <2>1 DEF LinesStay
  <2>3. ASSUME NEW k \in DOMAIN variables
        PROVE  /\ variables'[k].name = variables[k].name
               /\ variables'[k].line = variables[k].line
    <3>1. PICK a : a = First + Len(instrs) + Len(constants) + k - 1
      OBVIOUS
    <3>2. variables'[k] = [name |-> variables[k].name, line |-> variables[k].line, addr |-> a]
      BY <1>2, <3>1, AddressesOf DEF IInv
    <3> QED BY <3>2
  <2> QED BY <2>1, <2>2, <2>3, DeclarationsKept DEF IInv
<1>3. ASSUME UNCHANGED source PROVE DeclarationsOK'
  <2>1. UNCHANGED <<lines, labels, variables>>
    BY <1>3 DEF source
  <2>2. LinesStay
    BY <2>1 DEF LinesStay
  <2> QED BY <2>1, <2>2, DeclarationsKept DEF IInv
<1>4. CASE ProcessLine
  <2>1. PICK l \in Line : \/ Skip(l) \/ Refuse(l)
                          \/ DeclareVariable(l) \/ DeclareLabel(l) \/ AddInstruction(l)
    BY <1>4 DEF ProcessLine
  <2>2. CASE DeclareVariable(l)
    BY <2>2, DeclareVariableKeeps DEF IInv
  <2>3. CASE DeclareLabel(l)
    BY <2>3, DeclareLabelKeeps DEF IInv
  <2> QED BY <1>1, <2>1, <2>2, <2>3
<1>5. ASSUME EndOfSource \/ CannotOpen \/ Open \/ EmitInstruction \/ WriteImage \/ WriteMap
             \/ UNCHANGED vars
      PROVE  UNCHANGED source
  BY <1>5 DEF EndOfSource, CannotOpen, Open, EmitInstruction, WriteImage, WriteMap, vars
<1> QED BY <1>2, <1>3, <1>4, <1>5 DEF Next

\* Every step counts the errors of the source
LEMMA ErrorsNext ==
    ASSUME ReadAsWritten, IInv, TInv', [Next]_vars
    PROVE  ErrorsOK'
<1>1. CASE ProcessLine
  <2>1. PICK l \in Line : \/ Skip(l) \/ Refuse(l)
                          \/ DeclareVariable(l) \/ DeclareLabel(l) \/ AddInstruction(l)
    BY <1>1 DEF ProcessLine
  <2> QED
    BY <2>1, SkipErrors, RefuseErrors, VariableErrors, LabelErrors, InstructionErrors
<1>2. CASE UNCHANGED vars
  <2>1. UNCHANGED <<source, phase, errors, output, result, lines>>
    BY <1>2 DEF vars, source
  <2>2. /\ Complete => Complete'
        /\ \A k : UndefinedOf(instrs[k].lex)' = UndefinedOf(instrs[k].lex)
        /\ (Bad' <=> Bad) /\ (Sound' <=> Sound)
    BY <2>1, SourceErrors, SameLines
  <2> QED BY <2>1, <2>2 DEF IInv, ErrorsOK, Succeeded
<1> QED
  BY <1>1, <1>2, QuietStepErrors, CalculateErrors, EmitErrors, WriteImageErrors DEF Next

\* The invariant holds in the initial state
LEMMA IInvInit == Init => IInv
<1> SUFFICES ASSUME Init PROVE IInv
  OBVIOUS
<1>1. /\ phase = "pass1" /\ result = "none" /\ errors = 0
      /\ lines = <<>> /\ instrs = <<>> /\ labels = <<>> /\ variables = <<>>
      /\ constants = <<>> /\ output = <<>>
  BY DEF Init
<1>2. DOMAIN <<>> = {} /\ Len(<<>>) = 0
  OBVIOUS
<1>3. /\ DOMAIN lines = {} /\ DOMAIN labels = {} /\ DOMAIN variables = {}
      /\ DOMAIN constants = {} /\ DOMAIN output = {}
  BY <1>1, <1>2
<1>4. DeclarationsOK
  BY <1>3 DEF DeclarationsOK
<1>5. PlacesOK
  BY <1>1, <1>3 DEF PlacesOK, RecordsOK, Succeeded
<1>6. OutputOK
  BY <1>1, <1>3 DEF OutputOK, Succeeded
<1>7. ~Bad
  BY <1>3 DEF Bad
<1>8. Complete
  <2>1. Num(lines, Instr, 0) = 0
    BY NumStep
  <2>2. Len(lines) = 0 /\ Len(instrs) = 0
    BY <1>1, <1>2
  <2> QED BY <1>3, <2>1, <2>2 DEF Complete, N
<1>9. ErrorsOK
  BY <1>1, <1>3, <1>7, <1>8 DEF ErrorsOK, Succeeded
<1> QED BY <1>4, <1>5, <1>6, <1>9, TInit DEF IInv

\* Every step keeps it
LEMMA IInvNext == ReadAsWritten /\ IInv /\ [Next]_vars => IInv'
<1> SUFFICES ASSUME ReadAsWritten, IInv, [Next]_vars PROVE IInv'
  OBVIOUS
<1>1. TInv'
  BY TNext DEF IInv
<1>2. PlacesOK' /\ OutputOK'
  BY PlacesNext, OutputNext DEF IInv
<1> QED BY <1>1, <1>2, DeclarationsNext, ErrorsNext DEF IInv

\* The invariant holds of every run whose lines hold no text in quotes behind a
\* write.
THEOREM Invariance ==
    ASSUME ReadAsWritten
    PROVE  Spec => []IInv
<1>1. IInv /\ [Next]_vars => IInv'
  BY IInvNext
<1> QED BY <1>1, IInvInit, PTL DEF Spec

-----------------------------------------------------------------------------
(* What it says of the errors *)

\* What is assembled without an error has none
LEMMA SucceededIsSound ==
    ASSUME ReadAsWritten, IInv, Succeeded
    PROVE  Sound
<1>1. /\ errors = 0 /\ ~Bad /\ Complete
      /\ \A k \in DOMAIN output : UndefinedOf(instrs[k].lex) = {}
  BY DEF IInv, ErrorsOK
<1>2. DOMAIN output = DOMAIN instrs /\ DOMAIN instrs # {}
  <2>1. /\ DOMAIN output = 1 .. Len(output) /\ DOMAIN instrs = 1 .. Len(instrs)
        /\ Len(output) \in Nat /\ output \in Seq(Range(output))
    BY SeqAny DEF IInv, TInv, SeqOK
  <2>2. Len(output) = Len(instrs) /\ output # <<>>
    BY DEF IInv, OutputOK
  <2>3. Len(output) # 0
    BY <2>1, <2>2, EmptySeq
  <2>4. 1 \in 1 .. Len(instrs)
    BY <2>1, <2>2, <2>3
  <2> QED BY <2>1, <2>2, <2>4
<1>3. ASSUME NEW i \in DOMAIN lines, lines[i].tokens # <<>>
      PROVE  Matches(lines[i], Lex(i))
  <2>1. Well(lines[i]) /\ Lex(i) = LexOf(lines[i])
    BY <1>1, InTermsOfLines DEF Bad, IInv
  <2> QED BY <1>3, <2>1 DEF Well
<1>4. ASSUME NEW i \in DOMAIN lines, NEW j \in DOMAIN lines, NEW c \in {"var", "label"},
             i # j, Has(i, {c}), Has(j, {c}), Lex(i)[2] = Lex(j)[2]
      PROVE  FALSE
  <2>1. /\ Is(lines[i], {c}) /\ Is(lines[j], {c})
        /\ LexOf(lines[i])[2] = LexOf(lines[j])[2]
    BY <1>4, InTermsOfLines DEF IInv
  <2>2. Twice(lines[i], lines[j])
    BY <2>1 DEF Twice
  <2> QED BY <1>1, <1>4, <2>2 DEF Bad
<1>5. ASSUME NEW i \in Places, NEW k \in DOMAIN Lex(i)
      PROVE  Defined(i, k)
  <2>1. PICK n \in DOMAIN instrs : instrs[n].line = i
    BY <1>1, InstrOfLine DEF IInv
  <2>2. instrs[n].lex = LexOf(lines[i])
    BY <1>1, <2>1, LineOfInstr DEF IInv
  <2>3. UndefinedOf(LexOf(lines[i])) = {}
    BY <1>1, <1>2, <2>2
  <2>4. UndefinedOf(LexOf(lines[i])) = {m \in DOMAIN Lex(i) : ~Defined(i, m)}
    BY <1>1, UndefinedIs DEF IInv
  <2> QED BY <2>3, <2>4
<1>6. Places # {}
  <2>1. PICK n : n \in DOMAIN instrs
    BY <1>2
  <2> QED BY <1>1, <2>1, LineOfInstr DEF IInv
<1> QED BY <1>3, <1>4, <1>5, <1>6 DEF Sound

\* A source is refused for an error that it has, and one that is assembled has
\* none.
THEOREM Diagnosis ==
    ASSUME ReadAsWritten
    PROVE  Spec => []Diagnosed
<1>1. IInv => Diagnosed
  <2> SUFFICES ASSUME IInv, phase = "done"
               PROVE  /\ errors > 0 => ~Sound
                      /\ result \in {"succeeded", "warned"} => Sound
    BY DEF Diagnosed
  <2>1. errors > 0 => ~Sound
    BY DEF IInv, ErrorsOK
  <2> QED BY <2>1, SucceededIsSound DEF Succeeded
<1> QED BY <1>1, Invariance, PTL

-----------------------------------------------------------------------------
(* The cells of the image *)

\* The elements of a concatenation
LEMMA ConcatCells ==
    ASSUME NEW a, NEW b, SeqOK(a), SeqOK(b)
    PROVE  /\ SeqOK(a \o b) /\ Len(a \o b) = Len(a) + Len(b)
           /\ Len(a) \in Nat /\ Len(b) \in Nat
           /\ \A i \in 1 .. Len(a) : (a \o b)[i] = a[i]
           /\ \A i \in 1 .. Len(b) : (a \o b)[Len(a) + i] = b[i]
<1>1. PICK T : T = Range(a) \cup Range(b)
  OBVIOUS
<1>2. /\ Len(a) \in Nat /\ DOMAIN a = 1 .. Len(a) /\ a = [i \in 1 .. Len(a) |-> a[i]]
      /\ Len(b) \in Nat /\ DOMAIN b = 1 .. Len(b) /\ b = [i \in 1 .. Len(b) |-> b[i]]
  BY LenProperties DEF SeqOK
<1>3. /\ \A i \in 1 .. Len(a) : a[i] \in T
      /\ \A i \in 1 .. Len(b) : b[i] \in T
  BY <1>1, <1>2 DEF Range
<1>4. a \in Seq(T) /\ b \in Seq(T)
  BY <1>2, <1>3
<1>5. a \o b \in Seq(T) /\ Len(a \o b) = Len(a) + Len(b)
  BY <1>4, ConcatProperties
<1>6. \A i \in 1 .. Len(a) + Len(b) :
         (a \o b)[i] = IF i <= Len(a) THEN a[i] ELSE b[i - Len(a)]
  BY <1>4, ConcatProperties
<1>7. \A i \in 1 .. Len(a) : (a \o b)[i] = a[i]
  BY <1>2, <1>6
<1>8. ASSUME NEW i \in 1 .. Len(b) PROVE (a \o b)[Len(a) + i] = b[i]
  <2>1. /\ Len(a) + i \in 1 .. Len(a) + Len(b) /\ ~(Len(a) + i <= Len(a))
        /\ (Len(a) + i) - Len(a) = i
    BY <1>2
  <2> QED BY <1>6, <2>1
<1> QED BY <1>2, <1>5, <1>7, <1>8, SeqAny

\* The code, then the constants, then the variables
LEMMA ImageCells ==
    ASSUME IInv, Succeeded
    PROVE  /\ Len(instrs) \in Nat /\ Len(constants) \in Nat /\ Len(variables) \in Nat
           /\ Len(image) = Len(instrs) + Len(constants) + Len(variables)
           /\ \A k \in 1 .. Len(instrs) :
                 CellOf(First + k - 1) = Encoded(instrs[k].lex)
           /\ \A k \in 1 .. Len(constants) :
                 CellOf(First + Len(instrs) + k - 1) = Text(constants[k].val)
           /\ \A k \in 1 .. Len(variables) :
                 CellOf(First + Len(instrs) + Len(constants) + k - 1) = Text(Blank)
<1>1. PICK t, b : /\ t = [i \in DOMAIN constants |-> Text(constants[i].val)]
                  /\ b = [i \in DOMAIN variables |-> Text(Blank)]
  OBVIOUS
<1>2. /\ image = (output \o t) \o b /\ Len(output) = Len(instrs)
      /\ \A k \in DOMAIN output : output[k] = Encoded(instrs[k].lex)
  BY <1>1 DEF IInv, OutputOK
<1>3. /\ Len(constants) \in Nat /\ DOMAIN constants = 1 .. Len(constants)
      /\ Len(variables) \in Nat /\ DOMAIN variables = 1 .. Len(variables)
      /\ Len(output) \in Nat /\ DOMAIN output = 1 .. Len(output)
  BY SeqAny DEF IInv, TInv, SeqOK
<1>4. SeqOK(t) /\ Len(t) = Len(constants) /\ SeqOK(b) /\ Len(b) = Len(variables)
  <2>1. t = [i \in 1 .. Len(constants) |-> t[i]]
    BY <1>1, <1>3
  <2>2. b = [i \in 1 .. Len(variables) |-> b[i]]
    BY <1>1, <1>3
  <2> QED BY <1>3, <2>1, <2>2, SeqMake
<1>5. /\ SeqOK(output \o t) /\ Len(output \o t) = Len(output) + Len(t)
      /\ \A i \in 1 .. Len(output) : (output \o t)[i] = output[i]
      /\ \A i \in 1 .. Len(t) : (output \o t)[Len(output) + i] = t[i]
  BY <1>4, ConcatCells DEF IInv, TInv
<1>6. PICK q : q = output \o t
  OBVIOUS
<1>7. /\ Len(image) = Len(q) + Len(b)
      /\ \A i \in 1 .. Len(q) : image[i] = q[i]
      /\ \A i \in 1 .. Len(b) : image[Len(q) + i] = b[i]
  <2>1. SeqOK(q) /\ SeqOK(b) /\ image = q \o b
    BY <1>2, <1>4, <1>5, <1>6
  <2> QED BY <2>1, ConcatCells
<1>8. \A a \in Nat : CellOf(First + a - 1) = image[a]
  <2> SUFFICES ASSUME NEW a \in Nat PROVE CellOf(First + a - 1) = image[a]
    OBVIOUS
  <2>1. (First + a - 1) - First + 1 = a
    BY Numbers
  <2> QED BY <2>1 DEF CellOf
<1>9. ASSUME NEW k \in 1 .. Len(instrs)
      PROVE  CellOf(First + k - 1) = Encoded(instrs[k].lex)
  <2>1. k \in 1 .. Len(output) /\ k \in 1 .. Len(q) /\ k \in Nat
    BY <1>2, <1>3, <1>4, <1>5, <1>6
  <2>2. image[k] = output[k]
    BY <1>5, <1>6, <1>7, <2>1
  <2> QED BY <1>2, <1>3, <1>8, <2>1, <2>2
<1>10. ASSUME NEW k \in 1 .. Len(constants)
       PROVE  CellOf(First + Len(instrs) + k - 1) = Text(constants[k].val)
  <2>1. /\ k \in 1 .. Len(t) /\ Len(output) + k \in 1 .. Len(q) /\ Len(output) + k \in Nat
        /\ First + Len(instrs) + k - 1 = First + (Len(output) + k) - 1
    BY <1>2, <1>3, <1>4, <1>5, <1>6, Numbers
  <2>2. image[Len(output) + k] = t[k]
    BY <1>5, <1>6, <1>7, <2>1
  <2>3. CellOf(First + (Len(output) + k) - 1) = image[Len(output) + k]
    BY <1>8, <2>1
  <2> QED BY <1>1, <1>3, <2>1, <2>2, <2>3
<1>11. ASSUME NEW k \in 1 .. Len(variables)
       PROVE  CellOf(First + Len(instrs) + Len(constants) + k - 1) = Text(Blank)
  <2>1. /\ k \in 1 .. Len(b) /\ Len(q) + k \in Nat
        /\ First + Len(instrs) + Len(constants) + k - 1 = First + (Len(q) + k) - 1
    <3>1. /\ Len(q) = Len(instrs) + Len(constants) /\ Len(b) = Len(variables)
          /\ Len(instrs) \in Nat
      BY <1>2, <1>3, <1>4, <1>5, <1>6
    <3> QED BY <1>3, <3>1, Numbers
  <2>2. image[Len(q) + k] = b[k]
    BY <1>7, <2>1
  <2>3. CellOf(First + (Len(q) + k) - 1) = image[Len(q) + k]
    BY <1>8, <2>1
  <2> QED BY <1>1, <1>3, <2>1, <2>2, <2>3
<1>12. Len(image) = Len(instrs) + Len(constants) + Len(variables)
  BY <1>2, <1>4, <1>5, <1>6, <1>7
<1> QED BY <1>2, <1>3, <1>9, <1>10, <1>11, <1>12

-----------------------------------------------------------------------------
(* Addresses, as the source has them *)

\* An address counts the instructions before the line
LEMMA AddressIs ==
    ASSUME TInv
    PROVE  /\ \A i \in DOMAIN lines : AddressOf(i) = First + N(i - 1)
           /\ \A i \in Places : AddressOf(i) = First + N(i) - 1
           /\ Cardinality(Places) = N(Len(lines))
<1>1. /\ Len(lines) \in Nat /\ DOMAIN lines = 1 .. Len(lines)
      /\ Places = {i \in DOMAIN lines : lines[i] \in Instr}
  BY Numbering, InTermsOfLines
<1>2. ASSUME NEW i \in DOMAIN lines PROVE AddressOf(i) = First + N(i - 1)
  <2>1. {j \in Places : j < i} = {j \in 1 .. i - 1 : lines[j] \in Instr}
    BY <1>1
  <2> QED BY <2>1 DEF AddressOf, N, Num
<1>3. ASSUME NEW i \in Places PROVE AddressOf(i) = First + N(i) - 1
  <2>1. i \in DOMAIN lines /\ N(i) = N(i - 1) + 1
    BY <1>1, Numbering
  <2>2. i - 1 \in 0 .. Len(lines)
    BY <1>1, <2>1
  <2>3. N(i - 1) \in Nat
    BY <2>2, Numbering
  <2> QED BY <1>2, <2>1, <2>3, Numbers
<1>4. Cardinality(Places) = N(Len(lines))
  BY <1>1 DEF N, Num
<1> QED BY <1>2, <1>3, <1>4

\* The address of a label is that of the instruction after it
LEMMA LabelIs ==
    ASSUME TInv, DeclarationsOK, ~Bad, Complete, NEW n \in DOMAIN labels
    PROVE  LabelAt(n) = labels[n]
<1>1. n \in Declared("label")
  BY DeclaredIs
<1>2. PICK i : i = CHOOSE j \in DOMAIN lines : Declares(j, "label", n)
  OBVIOUS
<1>3. i \in DOMAIN lines /\ Declares(i, "label", n)
  BY <1>1, <1>2 DEF Declared, Declares
<1>4. Is(lines[i], {"label"}) /\ Name(lines[i]) = n
  BY <1>3, InTermsOfLines DEF Declares, Name
<1>5. labels[n] = First + N(i - 1)
  BY <1>3, <1>4 DEF Complete
<1> QED BY <1>2, <1>3, <1>5, AddressIs DEF LabelAt

\* The addresses of the variables, as ImageMeansSource asks for them
At == [n \in Declared("var") |-> variables[VariableAt(n)].addr]

\* The variables are behind everything else, each in a cell of its own
LEMMA VariablesAt ==
    ASSUME IInv, Succeeded
    PROVE  /\ DOMAIN At = Names
           /\ \A n \in Names :
                 /\ VariableAt(n) \in DOMAIN variables /\ variables[VariableAt(n)].name = n
                 /\ At[n] = First + Len(instrs) + Len(constants) + VariableAt(n) - 1
<1>1. Declared("var") = Names
  BY DeclaredIs DEF IInv, ErrorsOK
<1>2. ASSUME NEW n \in Names
      PROVE  VariableAt(n) \in DOMAIN variables /\ variables[VariableAt(n)].name = n
  <2>1. \E k \in DOMAIN variables : variables[k].name = n
    BY DEF Names
  <2> QED BY <2>1 DEF VariableAt
<1>3. \A k \in DOMAIN variables : variables[k].addr = First + Len(instrs) + Len(constants) + k - 1
  BY DEF IInv, PlacesOK
<1> QED BY <1>1, <1>2, <1>3 DEF At

\* Variables are in the image, behind everything else, and apart
LEMMA VariableCells ==
    ASSUME IInv, Succeeded
    PROVE  /\ At \in [Declared("var") -> ImageAddress]
           /\ \A n \in DOMAIN At : /\ At[n] >= First + Len(instrs) + Len(constants)
                                   /\ CellOf(At[n]) = Text(Blank)
           /\ \A n, m \in DOMAIN At : n # m => At[n] # At[m]
<1>1. /\ Len(instrs) \in Nat /\ Len(constants) \in Nat /\ Len(variables) \in Nat
      /\ Len(image) = Len(instrs) + Len(constants) + Len(variables)
      /\ \A k \in 1 .. Len(variables) :
            CellOf(First + Len(instrs) + Len(constants) + k - 1) = Text(Blank)
  BY ImageCells
<1>2. DOMAIN variables = 1 .. Len(variables) /\ DOMAIN At = Names /\ Names = Declared("var")
  <2>1. DOMAIN variables = 1 .. Len(variables)
    BY SeqAny DEF IInv, TInv, SeqOK
  <2>2. Names = Declared("var")
    BY DeclaredIs DEF IInv, ErrorsOK
  <2> QED BY <2>1, <2>2, VariablesAt
<1>3. ASSUME NEW n \in DOMAIN At
      PROVE  /\ At[n] \in ImageAddress /\ At[n] >= First + Len(instrs) + Len(constants)
             /\ CellOf(At[n]) = Text(Blank)
  <2>1. PICK k \in 1 .. Len(variables) : At[n] = First + Len(instrs) + Len(constants) + k - 1
    BY <1>2, VariablesAt
  <2> QED BY <1>1, <2>1, Numbers DEF ImageAddress
<1>4. ASSUME NEW n \in DOMAIN At, NEW m \in DOMAIN At, At[n] = At[m]
      PROVE  n = m
  <2>1. PICK k, j : k = VariableAt(n) /\ j = VariableAt(m)
    OBVIOUS
  <2>2. /\ k \in 1 .. Len(variables) /\ j \in 1 .. Len(variables)
        /\ variables[k].name = n /\ variables[j].name = m
        /\ At[n] = First + Len(instrs) + Len(constants) + k - 1
        /\ At[m] = First + Len(instrs) + Len(constants) + j - 1
    BY <1>2, <2>1, VariablesAt
  <2>3. k = j
    <3>1. PICK a \in Nat : a = First + Len(instrs) + Len(constants)
      BY <1>1, Numbers
    <3>2. k \in Nat /\ j \in Nat
      BY <1>1, <2>2
    <3>3. a + k - 1 = a + j - 1
      BY <1>4, <2>2, <3>1
    <3> QED BY <3>2, <3>3
  <2> QED BY <2>2, <2>3
<1>5. At = [n \in Declared("var") |-> At[n]]
  BY DEF At
<1> QED BY <1>2, <1>3, <1>4, <1>5

\* The value of a write is in a cell of its own
LEMMA ConstantCell ==
    ASSUME IInv, Succeeded, NEW i \in Places, Is(lines[i], {"write"}),
           NEW x, x = LexOf(lines[i])[2]
    PROVE  LET a == constants[ConstantAt(x)].addr
           IN  /\ a \in ImageAddress
               /\ CellOf(a) = Text(IF x.t # "lbl" THEN Evaluated(x)
                                   ELSE IF x.v \in Declared("label")
                                        THEN Digits(LabelAt(x.v)) ELSE Blank)
               /\ \A n \in DOMAIN At : a # At[n]
<1>1. ~Bad /\ Complete /\ i \in DOMAIN lines
  BY InTermsOfLines DEF IInv, ErrorsOK
<1>2. PICK k : k = ConstantAt(x)
  OBVIOUS
<1>3. k \in DOMAIN constants /\ SameConstant(constants[k], x)
  <2>1. \E j \in DOMAIN constants : SameConstant(constants[j], x)
    BY <1>1 DEF Complete
  <2> QED BY <1>2, <2>1 DEF ConstantAt
<1>4. constants[k].t = x.t /\ constants[k].v = x.v
  BY <1>3 DEF SameConstant
<1>5. constants[k].addr = First + Len(instrs) + k - 1 /\ constants[k].val = Value(constants[k])
  BY <1>3 DEF IInv, PlacesOK
<1>6. /\ Len(instrs) \in Nat /\ Len(constants) \in Nat /\ Len(variables) \in Nat
      /\ Len(image) = Len(instrs) + Len(constants) + Len(variables)
      /\ k \in 1 .. Len(constants)
  <2>1. DOMAIN constants = 1 .. Len(constants)
    BY SeqAny DEF IInv, TInv, SeqOK
  <2> QED BY <1>3, <2>1, ImageCells
<1>7. PICK a : a = constants[k].addr
  OBVIOUS
<1>8. a = First + Len(instrs) + k - 1
  BY <1>5, <1>7
<1>9. a \in ImageAddress /\ a < First + Len(instrs) + Len(constants)
  BY <1>6, <1>8, Numbers DEF ImageAddress
<1>10. CellOf(a) = Text(constants[k].val)
  BY <1>6, <1>8, ImageCells
<1>11. constants[k].val = IF x.t # "lbl" THEN Evaluated(x)
                          ELSE IF x.v \in Declared("label") THEN Digits(LabelAt(x.v)) ELSE Blank
  <2>1. Evaluated(constants[k]) = Evaluated(x)
    BY <1>4, EvaluatedSame
  <2>2. constants[k].val = IF x.t = "lbl" /\ x.v \in DOMAIN labels
                           THEN Digits(labels[x.v]) ELSE Evaluated(x)
    BY <1>4, <1>5, <2>1 DEF Value
  <2>3. x.t = "lbl" => Evaluated(x) = Blank
    BY DEF Evaluated
  <2>4. Declared("label") = DOMAIN labels
    BY <1>1, DeclaredIs DEF IInv
  <2>5. x.v \in DOMAIN labels => LabelAt(x.v) = labels[x.v]
    BY <1>1, LabelIs DEF IInv
  <2> QED BY <2>2, <2>3, <2>4, <2>5
<1>12. ASSUME NEW n \in DOMAIN At PROVE a # At[n]
  <2>1. At[n] >= First + Len(instrs) + Len(constants) /\ At[n] \in Int
    BY VariableCells, Numbers DEF ImageAddress
  <2> QED BY <1>6, <1>8, <1>9, <2>1, Numbers
<1> QED BY <1>2, <1>7, <1>9, <1>10, <1>11, <1>12

\* A lexeme means what pass 2 makes of it
Made(c, i, x) == CASE IsValue(c, i) -> <<"_", constants[ConstantAt(x)].addr>>
                   [] ~IsValue(c, i) /\ x.t = "lbl" -> <<"_", labels[x.v]>>
                   [] x.t = "var" -> <<x.p, variables[VariableAt(x.v)].addr>>
                   [] x.t = "reg" -> <<x.p, Symbol[x.v].v>>
                   [] ~IsValue(c, i) /\ x.t = "num" -> <<x.p, x.v>>

\* The types that a lexeme with an address has
Addressed(c, k, x) ==
    IF IsValue(c, k) THEN x.t \in {"str", "num", "opr", "sys", "clr", "mod", "lbl"}
    ELSE x.t \in {"num", "reg", "var", "lbl"}

\* The second of two
LEMMA Second == \A o, u, v : o = <<u, v>> => o[2] = v
OBVIOUS

\* The operand that pass 2 makes of a lexeme is what the lexeme means
LEMMA MadeDenotes ==
    ASSUME IInv, Succeeded, NEW i \in Places, NEW k \in DOMAIN Lex(i), Defined(i, k),
           NEW c, c = Command(lines[i]), NEW x, x = LexOf(lines[i])[k], Addressed(c, k, x)
    PROVE  Denotes(c, k, x, Made(c, k, x), At)
<1>1. /\ ~Bad /\ Complete /\ i \in DOMAIN lines /\ Lex(i) = LexOf(lines[i])
      /\ lines[i] \in Instr
  BY InTermsOfLines DEF IInv, ErrorsOK
<1>2. CASE IsValue(c, k)
  <2>1. c = "write" /\ k = 2 /\ Is(lines[i], {"write"})
    BY <1>1, <1>2 DEF IsValue, Instr, Is
  <2>2. PICK a : a = constants[ConstantAt(x)].addr
    OBVIOUS
  <2>3. /\ a \in ImageAddress
        /\ CellOf(a) = Text(IF x.t # "lbl" THEN Evaluated(x)
                            ELSE IF x.v \in Declared("label")
                                 THEN Digits(LabelAt(x.v)) ELSE Blank)
        /\ \A n \in DOMAIN At : a # At[n]
    BY <2>1, <2>2, ConstantCell
  <2>4. x.t \notin {"reg", "var"}
    BY <1>2 DEF Addressed
  <2>5. Made(c, k, x) = <<"_", a>>
    BY <1>2, <2>2, <2>4 DEF Made
  <2>6. Made(c, k, x)[2] = a
    BY <2>5, Second
  <2> QED BY <1>2, <2>3, <2>6 DEF Denotes
<1>3. CASE ~IsValue(c, k) /\ x.t = "lbl"
  <2>1. x.v \in Declared("label")
    BY <1>1, <1>3 DEF Defined
  <2>2. LabelAt(x.v) = labels[x.v]
    BY <1>1, <2>1, DeclaredIs, LabelIs DEF IInv
  <2>3. Made(c, k, x) = <<"_", labels[x.v]>>
    BY <1>3 DEF Made
  <2>4. Made(c, k, x)[2] = labels[x.v]
    BY <2>3, Second
  <2> QED BY <1>3, <2>2, <2>4 DEF Denotes
<1>4. CASE ~IsValue(c, k) /\ x.t = "var"
  <2>1. x.v \in Declared("var")
    BY <1>1, <1>4 DEF Defined
  <2>2. At[x.v] = variables[VariableAt(x.v)].addr
    BY <2>1 DEF At
  <2>3. Made(c, k, x) = <<x.p, variables[VariableAt(x.v)].addr>>
    BY <1>4 DEF Made
  <2> QED BY <1>4, <2>2, <2>3 DEF Denotes
<1>5. CASE ~IsValue(c, k) /\ x.t = "reg"
  <2>1. Made(c, k, x) = <<x.p, Symbol[x.v].v>>
    BY <1>5 DEF Made
  <2> QED BY <1>5, <2>1 DEF Denotes
<1>6. CASE ~IsValue(c, k) /\ x.t = "num"
  <2>1. Made(c, k, x) = <<x.p, x.v>>
    BY <1>6 DEF Made
  <2> QED BY <1>6, <2>1 DEF Denotes
<1> QED BY <1>2, <1>3, <1>4, <1>5, <1>6 DEF Addressed

\* Concatenations of at most one element each
LEMMA ConcatFew ==
    ASSUME NEW a, NEW b
    PROVE  /\ <<>> \o <<>> = <<>> /\ <<>> \o <<a>> = <<a>> /\ <<a>> \o <<>> = <<a>>
           /\ <<a>> \o <<b>> = <<a, b>>
<1>1. PICK T : T = {a, b}
  OBVIOUS
<1>2. <<>> \in Seq(T) /\ <<a>> \in Seq(T)
  BY <1>1
<1>3. <<>> \o <<>> = <<>> /\ <<>> \o <<a>> = <<a>> /\ <<a>> \o <<>> = <<a>>
  BY <1>2, ConcatEmptySeq
<1>4. <<a>> \o <<b>> = <<a, b>>
  <2>1. /\ <<a>> \in Seq(T) /\ <<b>> \in Seq(T) /\ <<a, b>> \in Seq(T)
        /\ Len(<<a>>) = 1 /\ Len(<<b>>) = 1 /\ Len(<<a, b>>) = 2
    BY <1>1
  <2>2. PICK r : r = <<a>> \o <<b>>
    OBVIOUS
  <2>3. /\ r \in Seq(T) /\ Len(r) = 2
        /\ \A i \in 1 .. 2 : r[i] = IF i <= 1 THEN <<a>>[i] ELSE <<b>>[i - 1]
    BY <2>1, <2>2, ConcatProperties
  <2>4. r[1] = a /\ r[2] = b
    BY <2>3
  <2>5. \A i \in 1 .. 2 : r[i] = <<a, b>>[i]
    BY <2>4
  <2> QED BY <2>1, <2>2, <2>3, <2>5, SeqEqual
<1> QED BY <1>3, <1>4

\* What a flattened sequence of none and one operand is
LEMMA FlattenFour ==
    ASSUME NEW T, NEW a \in T, NEW b \in T, NEW s \in Seq(Seq(T)), s[1] = <<>>,
           \/ Len(s) = 1
           \/ Len(s) = 2 /\ s[2] = <<a>>
           \/ Len(s) = 4 /\ s[2] = <<a>> /\ s[3] = <<>> /\ s[4] = <<b>>
    PROVE  /\ Len(s) = 1 => FlattenSeq(s) = <<>>
           /\ Len(s) = 2 => FlattenSeq(s) = <<a>>
           /\ Len(s) = 4 => FlattenSeq(s) = <<a, b>>
<1>1. PICK h \in [0 .. Len(s) -> Seq(T)] :
          /\ h[0] = <<>> /\ \A i \in 1 .. Len(s) : h[i] = h[i - 1] \o s[i]
          /\ FlattenSeq(s) = h[Len(s)]
  BY FlattenJoins
<1>2. \A i \in 1 .. Len(s) : h[i] = h[i - 1] \o s[i]
  BY <1>1
<1>3. ASSUME Len(s) \in {1, 2, 4} PROVE h[1] = h[0] \o s[1]
  <2>1. 1 \in 1 .. Len(s)
    BY <1>3
  <2>2. h[1] = h[1 - 1] \o s[1]
    BY <1>2, <2>1, Zenon
  <2>3. 1 - 1 = 0
    OBVIOUS
  <2> QED BY <2>2, <2>3
<1>4. ASSUME Len(s) \in {2, 4} PROVE h[2] = h[1] \o s[2]
  <2>1. 2 \in 1 .. Len(s)
    BY <1>4
  <2>2. h[2] = h[2 - 1] \o s[2]
    BY <1>2, <2>1, Zenon
  <2>3. 2 - 1 = 1
    OBVIOUS
  <2> QED BY <2>2, <2>3
<1>5. ASSUME Len(s) = 4 PROVE h[3] = h[2] \o s[3] /\ h[4] = h[3] \o s[4]
  <2>1. 3 \in 1 .. Len(s) /\ 4 \in 1 .. Len(s)
    BY <1>5
  <2>2. h[3] = h[3 - 1] \o s[3] /\ h[4] = h[4 - 1] \o s[4]
    BY <1>2, <2>1, Zenon
  <2>3. 3 - 1 = 2 /\ 4 - 1 = 3
    OBVIOUS
  <2> QED BY <2>2, <2>3
<1>6. h[1] = <<>>
  BY <1>1, <1>3, ConcatFew
<1>7. ASSUME Len(s) \in {2, 4} PROVE h[2] = <<a>>
  <2>1. s[2] = <<a>>
    BY <1>7
  <2> QED BY <1>4, <1>6, <1>7, <2>1, ConcatFew
<1>8. ASSUME Len(s) = 4 PROVE h[4] = <<a, b>>
  <2>1. s[3] = <<>> /\ s[4] = <<b>>
    BY <1>8
  <2>2. h[2] = <<a>>
    BY <1>7, <1>8
  <2>3. h[3] = <<a>>
    BY <1>5, <1>8, <2>1, <2>2, ConcatFew
  <2> QED BY <1>5, <1>8, <2>1, <2>3, ConcatFew
<1> QED BY <1>1, <1>6, <1>7, <1>8

\* The operands of an instruction, and their places in its cell
LEMMA OperandsOf ==
    ASSUME ReadAsWritten, IInv, Succeeded, NEW i \in Places, NEW lex, lex = LexOf(lines[i]),
           NEW c, c = Command(lines[i])
    PROVE  /\ DOMAIN lex = 1 .. Len(lex) /\ lex[1].v = c /\ Lex(i) = lex
           /\ \A k \in DOMAIN lex : Defined(i, k)
           /\ \A k \in Operands(lex) : k \in DOMAIN lex /\ Addressed(c, k, lex[k])
           /\ \/ Len(lex) = 1 /\ Operands(lex) = {}
              \/ Len(lex) = 2 /\ Operands(lex) = {2}
              \/ Len(lex) = 4 /\ Operands(lex) = {2, 4} /\ lex[3].t = "kto"
<1>1. /\ i \in DOMAIN lines /\ lines[i] \in Line /\ lines[i] \in Instr /\ Lex(i) = lex
      /\ Well(lines[i])
  BY InTermsOfLines DEF IInv, ErrorsOK, Bad
<1>2. DOMAIN lex = 1 .. Len(lex) /\ Len(lex) = Len(lines[i].tokens)
  BY <1>1, TokensOf
<1>3. PICK n : n = Len(lines[i].tokens)
  OBVIOUS
<1>4. /\ lex[1].v = c
      /\ \/ n = 1 /\ c # "write"
         \/ n = 2 /\ c # "write" /\ lex[2].t \in {"num", "reg", "var", "lbl"}
         \/ /\ n = 4 /\ lex[3].t = "kto"
            /\ lex[4].t \in {"num", "reg", "var"}
            /\ IF c = "write"
               THEN lex[2].t \in {"str", "num", "opr", "sys", "clr", "mod", "lbl"}
               ELSE lex[2].t \in {"num", "reg", "var"}
  BY <1>1, <1>3, InstrShape
<1>5. \A k \in DOMAIN lex : Defined(i, k)
  BY <1>1, SucceededIsSound DEF Sound
<1>6. Operands(lex) = {k \in 2 .. n : lex[k].t # "kto"} /\ Len(lex) = n
  BY <1>2, <1>3 DEF Operands
<1>7. CASE n = 1
  <2>1. Operands(lex) = {}
    BY <1>6, <1>7
  <2> QED BY <1>1, <1>2, <1>4, <1>5, <1>6, <1>7, <2>1
<1>8. CASE n = 2
  <2>1. c # "write" /\ lex[2].t \in {"num", "reg", "var", "lbl"}
    BY <1>4, <1>8
  <2>2. 2 .. n = {2} /\ 2 \in 1 .. n
    BY <1>8
  <2>3. Operands(lex) = {2}
    BY <1>6, <2>1, <2>2
  <2>4. Addressed(c, 2, lex[2])
    BY <2>1 DEF Addressed, IsValue
  <2> QED BY <1>1, <1>2, <1>4, <1>5, <1>6, <1>8, <2>2, <2>3, <2>4
<1>9. CASE n = 4
  <2>1. /\ lex[3].t = "kto" /\ lex[4].t \in {"num", "reg", "var"}
        /\ IF c = "write" THEN lex[2].t \in {"str", "num", "opr", "sys", "clr", "mod", "lbl"}
                          ELSE lex[2].t \in {"num", "reg", "var"}
    BY <1>4, <1>9
  <2>2. 2 .. n = {2, 3, 4} /\ 2 \in 1 .. n /\ 4 \in 1 .. n
    BY <1>9
  <2>3. lex[2].t # "kto" /\ lex[4].t # "kto"
    BY <2>1
  <2>4. Operands(lex) = {2, 4}
    BY <1>6, <2>1, <2>2, <2>3
  <2>5. Addressed(c, 2, lex[2]) /\ Addressed(c, 4, lex[4])
    BY <2>1 DEF Addressed, IsValue
  <2> QED BY <1>1, <1>2, <1>4, <1>5, <1>6, <1>9, <2>1, <2>2, <2>4, <2>5
<1> QED BY <1>4, <1>7, <1>8, <1>9

\* A lexeme becomes one operand, or none
LEMMA OperandIs ==
    ASSUME ReadAsWritten, IInv, Succeeded, NEW i \in Places, NEW lex, lex = LexOf(lines[i]),
           NEW c, c = Command(lines[i]), NEW k \in DOMAIN lex
    PROVE  Operand(c, k, lex[k]) = IF k \in Operands(lex) THEN <<Made(c, k, lex[k])>> ELSE <<>>
<1>1. /\ DOMAIN lex = 1 .. Len(lex) /\ lex[1].v = c /\ Lex(i) = lex
      /\ \A j \in DOMAIN lex : Defined(i, j)
  BY OperandsOf
<1>2. Len(lex) \in Nat
  BY InTermsOfLines, TokensOf DEF IInv
<1>3. k \in Operands(lex) <=> ~(k = 1 \/ lex[k].t = "kto")
  BY <1>1, <1>2 DEF Operands
<1>4. ~Undefined(c, k, lex[k])
  <2>1. UndefinedOf(lex) = {j \in DOMAIN lex : ~Defined(i, j)}
    BY <1>1, UndefinedIs DEF IInv, ErrorsOK
  <2> QED BY <1>1, <2>1 DEF UndefinedOf
<1>5. PICK x : x = lex[k]
  OBVIOUS
<1> DEFINE made == CASE IsValue(c, k) -> <<"_", constants[ConstantAt(x)].addr>>
                     [] ~IsValue(c, k) /\ x.t = "lbl" -> <<"_", labels[x.v]>>
                     [] x.t = "var" -> <<x.p, variables[VariableAt(x.v)].addr>>
                     [] x.t = "reg" -> <<x.p, Symbol[x.v].v>>
                     [] ~IsValue(c, k) /\ x.t = "num" -> <<x.p, x.v>>
<1>6. Made(c, k, x) = made
  BY DEF Made
<1>7. Operand(c, k, x) = IF k = 1 \/ x.t = "kto" \/ Undefined(c, k, x) THEN <<>> ELSE <<made>>
  BY DEF Operand
<1> HIDE DEF made
<1> QED BY <1>3, <1>4, <1>5, <1>6, <1>7

\* The code of an instruction: its command and its operands, in their order
LEMMA EncodedIs ==
    ASSUME ReadAsWritten, IInv, Succeeded, NEW i \in Places, NEW lex, lex = LexOf(lines[i]),
           NEW c, c = Command(lines[i])
    PROVE  Encoded(lex) = <<Code(c)>> \o (CASE Len(lex) = 1 -> <<>>
                                            [] Len(lex) = 2 -> <<Made(c, 2, lex[2])>>
                                            [] Len(lex) = 4 -> <<Made(c, 2, lex[2]),
                                                                 Made(c, 4, lex[4])>>)
<1>1. /\ DOMAIN lex = 1 .. Len(lex) /\ lex[1].v = c
      /\ \/ Len(lex) = 1 /\ Operands(lex) = {}
         \/ Len(lex) = 2 /\ Operands(lex) = {2}
         \/ Len(lex) = 4 /\ Operands(lex) = {2, 4} /\ lex[3].t = "kto"
  BY OperandsOf
<1>2. PICK s : s = [k \in DOMAIN lex |-> Operand(c, k, lex[k])]
  OBVIOUS
<1>3. Encoded(lex) = <<Code(c)>> \o FlattenSeq(s)
  BY <1>1, <1>2 DEF Encoded
<1>4. PICK a, b, n : a = Made(c, 2, lex[2]) /\ b = Made(c, 4, lex[4]) /\ n = Len(lex)
  OBVIOUS
<1>5. PICK T : T = {a, b}
  OBVIOUS
<1>6. \A k \in DOMAIN lex : s[k] = IF k \in Operands(lex) THEN <<Made(c, k, lex[k])>> ELSE <<>>
  BY <1>2, OperandIs
<1>7. n \in {1, 2, 4} /\ DOMAIN lex = 1 .. n
  BY <1>1, <1>4
<1>8. s[1] = <<>>
  <2>1. 1 \in 1 .. n /\ 1 \notin Operands(lex)
    BY <1>1, <1>7
  <2> QED BY <1>6, <1>7, <2>1
<1>9. \/ n = 1
      \/ n = 2 /\ s[2] = <<a>>
      \/ n = 4 /\ s[2] = <<a>> /\ s[3] = <<>> /\ s[4] = <<b>>
  <2>1. ASSUME n = 2 PROVE s[2] = <<a>>
    <3>1. 2 \in 1 .. n /\ 2 \in Operands(lex)
      BY <1>1, <1>4, <2>1
    <3> QED BY <1>4, <1>6, <1>7, <3>1
  <2>2. ASSUME n = 4 PROVE s[2] = <<a>> /\ s[3] = <<>> /\ s[4] = <<b>>
    <3>1. /\ 2 \in 1 .. n /\ 3 \in 1 .. n /\ 4 \in 1 .. n
          /\ 2 \in Operands(lex) /\ 3 \notin Operands(lex) /\ 4 \in Operands(lex)
      BY <1>1, <1>4, <2>2
    <3> QED BY <1>4, <1>6, <1>7, <3>1
  <2> QED BY <1>7, <2>1, <2>2
<1>10. s \in Seq(Seq(T)) /\ Len(s) = n
  <2>1. <<>> \in Seq(T) /\ <<a>> \in Seq(T) /\ <<b>> \in Seq(T)
    BY <1>5
  <2>2. ASSUME NEW k \in 1 .. n PROVE s[k] \in Seq(T)
    <3>1. k = 1 \/ k = 2 \/ k = 3 \/ k = 4
      BY <1>7
    <3>2. n = 1 => k = 1
      BY <2>2
    <3>3. n = 2 => k \in {1, 2}
      BY <2>2
    <3> QED BY <1>8, <1>9, <2>1, <3>1, <3>2, <3>3
  <2>3. s = [k \in 1 .. n |-> s[k]]
    BY <1>2, <1>7
  <2>4. n \in Nat
    BY <1>7
  <2> HIDE <1>7, <1>9
  <2> QED BY <2>2, <2>3, <2>4
<1>11. /\ n = 1 => FlattenSeq(s) = <<>>
       /\ n = 2 => FlattenSeq(s) = <<a>>
       /\ n = 4 => FlattenSeq(s) = <<a, b>>
  <2>1. a \in T /\ b \in T
    BY <1>5
  <2> QED BY <1>8, <1>9, <1>10, <2>1, FlattenFour
<1>12. FlattenSeq(s) = CASE n = 1 -> <<>> [] n = 2 -> <<a>> [] n = 4 -> <<a, b>>
  BY <1>7, <1>11
<1> QED BY <1>3, <1>4, <1>12

\* A concatenation of one and two elements
LEMMA ConcatThree ==
    ASSUME NEW x, NEW a, NEW b
    PROVE  <<x>> \o <<a, b>> = <<x, a, b>>
<1>1. PICK T : T = {x, a, b}
  OBVIOUS
<1>2. /\ <<x>> \in Seq(T) /\ <<a, b>> \in Seq(T) /\ <<x, a, b>> \in Seq(T)
      /\ Len(<<x>>) = 1 /\ Len(<<a, b>>) = 2 /\ Len(<<x, a, b>>) = 3
  BY <1>1
<1>3. PICK r : r = <<x>> \o <<a, b>>
  OBVIOUS
<1>4. /\ r \in Seq(T) /\ Len(r) = 3
      /\ \A i \in 1 .. 3 : r[i] = IF i <= 1 THEN <<x>>[i] ELSE <<a, b>>[i - 1]
  BY <1>2, <1>3, ConcatProperties
<1>5. r[1] = x /\ r[2] = a /\ r[3] = b
  BY <1>4
<1>6. \A i \in 1 .. 3 : r[i] = <<x, a, b>>[i]
  BY <1>5
<1> QED BY <1>2, <1>3, <1>4, <1>6, SeqEqual

\* The places of operands at 2 and at 4
LEMMA Positions ==
    ASSUME NEW lex
    PROVE  /\ Operands(lex) = {} => Cardinality(Operands(lex)) = 0
           /\ Operands(lex) = {2} =>
                 Cardinality(Operands(lex)) = 1 /\ Position(lex, 2) = 2
           /\ Operands(lex) = {2, 4} =>
                 /\ Cardinality(Operands(lex)) = 2
                 /\ Position(lex, 2) = 2 /\ Position(lex, 4) = 3
<1>1. /\ Cardinality({}) = 0 /\ Cardinality({2}) = 1
      /\ Cardinality({2, 4}) = 2
  <2>1. Cardinality({}) = 0 /\ IsFiniteSet({2}) /\ Cardinality({2}) = 1
    BY FS_EmptySet, FS_Singleton
  <2>2. Cardinality({2} \cup {4}) = Cardinality({2}) + 1
    BY <2>1, FS_AddElement
  <2>3. {2} \cup {4} = {2, 4}
    OBVIOUS
  <2> QED BY <2>1, <2>2, <2>3
<1>2. PICK S : S = Operands(lex)
  OBVIOUS
<1>3. CASE S = {}
  BY <1>1, <1>2, <1>3
<1>4. CASE S = {2}
  <2>1. {k \in S : k <= 2} = {2}
    BY <1>4
  <2> QED BY <1>1, <1>2, <1>4, <2>1 DEF Position
<1>5. CASE S = {2, 4}
  <2>1. {k \in S : k <= 2} = {2} /\ {k \in S : k <= 4} = {2, 4}
    BY <1>5
  <2>2. Position(lex, 2) = 1 + 1 /\ Position(lex, 4) = 1 + 2
    BY <1>1, <1>2, <2>1 DEF Position
  <2> QED BY <1>1, <1>2, <1>5, <2>2
<1> QED BY <1>2, <1>3, <1>4, <1>5

\* The cell of an instruction
LEMMA CellMeans ==
    ASSUME ReadAsWritten, IInv, Succeeded, NEW i \in Places,
           NEW lex, lex = Lex(i), NEW c, c = Command(lines[i]),
           NEW cell, cell = CellOf(AddressOf(i))
    PROVE  /\ Len(cell) = 1 + Cardinality(Operands(lex))
           /\ cell[1] = Code(c)
           /\ \A k \in Operands(lex) : Denotes(c, k, lex[k], cell[Position(lex, k)], At)
<1>1. /\ lex = LexOf(lines[i])
      /\ \A k \in Operands(lex) : k \in DOMAIN lex /\ Defined(i, k) /\ Addressed(c, k, lex[k])
      /\ \/ Len(lex) = 1 /\ Operands(lex) = {}
         \/ Len(lex) = 2 /\ Operands(lex) = {2}
         \/ Len(lex) = 4 /\ Operands(lex) = {2, 4}
  <2>1. lex = LexOf(lines[i])
    BY InTermsOfLines DEF IInv
  <2> QED BY <2>1, OperandsOf
<1>2. cell = Encoded(lex)
  <2>1. PICK n : n = N(i)
    OBVIOUS
  <2>2. n \in DOMAIN instrs /\ instrs[n].line = i
    BY <2>1, InstrOfLine DEF IInv, ErrorsOK
  <2>3. instrs[n].lex = lex
    BY <1>1, <2>2, LineOfInstr DEF IInv, ErrorsOK
  <2>4. AddressOf(i) = First + n - 1
    BY <2>1, AddressIs DEF IInv
  <2>5. n \in 1 .. Len(instrs)
    BY <2>2, SeqAny DEF IInv, TInv, SeqOK
  <2> QED BY <2>3, <2>4, <2>5, ImageCells
<1>3. PICK q, a, b : q = Code(c) /\ a = Made(c, 2, lex[2]) /\ b = Made(c, 4, lex[4])
  OBVIOUS
<1>4. cell = <<q>> \o (CASE Len(lex) = 1 -> <<>> [] Len(lex) = 2 -> <<a>>
                         [] Len(lex) = 4 -> <<a, b>>)
  BY <1>1, <1>2, <1>3, EncodedIs
<1>5. \A k \in Operands(lex) : Denotes(c, k, lex[k], Made(c, k, lex[k]), At)
  <2> SUFFICES ASSUME NEW k \in Operands(lex)
               PROVE  Denotes(c, k, lex[k], Made(c, k, lex[k]), At)
    OBVIOUS
  <2>1. PICK x : x = lex[k]
    OBVIOUS
  <2>2. x = LexOf(lines[i])[k] /\ k \in DOMAIN Lex(i) /\ Defined(i, k) /\ Addressed(c, k, x)
    BY <1>1, <2>1
  <2>3. Denotes(c, k, x, Made(c, k, x), At)
    BY <2>2, MadeDenotes
  <2> QED BY <2>1, <2>3
<1>6. CASE Len(lex) = 1
  <2>1. cell = <<q>> /\ Operands(lex) = {}
    BY <1>1, <1>4, <1>6, ConcatFew
  <2>2. Cardinality(Operands(lex)) = 0
    BY <2>1, Positions
  <2>3. Len(cell) = 1 + 0 /\ cell[1] = q
    BY <2>1
  <2> QED BY <1>3, <2>1, <2>2, <2>3
<1>7. CASE Len(lex) = 2
  <2>1. cell = <<q, a>> /\ Operands(lex) = {2}
    <3>1. cell = <<q>> \o <<a>> /\ Operands(lex) = {2}
      BY <1>1, <1>4, <1>7
    <3>2. <<q>> \o <<a>> = <<q, a>>
      BY ConcatFew
    <3> QED BY <3>1, <3>2
  <2>2. Cardinality(Operands(lex)) = 1 /\ Position(lex, 2) = 2
    BY <2>1, Positions
  <2>3. Len(cell) = 1 + 1 /\ cell[1] = q /\ cell[2] = a
    BY <2>1
  <2>4. Denotes(c, 2, lex[2], a, At)
    BY <1>3, <1>5, <2>1
  <2> QED BY <1>3, <2>1, <2>2, <2>3, <2>4
<1>8. CASE Len(lex) = 4
  <2>1. cell = <<q, a, b>> /\ Operands(lex) = {2, 4}
    BY <1>1, <1>4, <1>8, ConcatThree
  <2>2. Cardinality(Operands(lex)) = 2 /\ Position(lex, 2) = 2 /\ Position(lex, 4) = 3
    BY <2>1, Positions
  <2>3. Len(cell) = 1 + 2 /\ cell[1] = q /\ cell[2] = a /\ cell[3] = b
    BY <2>1
  <2>4. Denotes(c, 2, lex[2], a, At) /\ Denotes(c, 4, lex[4], b, At)
    BY <1>3, <1>5, <2>1
  <2> QED BY <1>3, <2>1, <2>2, <2>3, <2>4
<1> QED BY <1>1, <1>6, <1>7, <1>8

\* Every cell means what its line says
LEMMA MeansAt ==
    ASSUME ReadAsWritten, IInv, Succeeded
    PROVE  At \in [Declared("var") -> ImageAddress] /\ Means(At)
<1>1. /\ At \in [Declared("var") -> ImageAddress]
      /\ \A n \in DOMAIN At : /\ At[n] >= First + Len(instrs) + Len(constants)
                              /\ CellOf(At[n]) = Text(Blank)
      /\ \A n, m \in DOMAIN At : n # m => At[n] # At[m]
  BY VariableCells
<1>2. Cardinality(Places) = Len(instrs) /\ Len(instrs) \in Nat /\ Len(constants) \in Nat
  BY AddressIs, ImageCells DEF IInv, ErrorsOK, Complete
<1>3. ASSUME NEW n \in DOMAIN At PROVE At[n] >= First + Cardinality(Places)
  <2>1. At[n] \in Int
    BY <1>1, <1>2, ImageCells, Numbers DEF ImageAddress
  <2> QED BY <1>1, <1>2, <2>1, Numbers
<1>4. ASSUME NEW i \in Places
      PROVE  LET lex == Lex(i)
                 c   == Command(lines[i])
             IN  /\ Len(CellOf(AddressOf(i))) = 1 + Cardinality(Operands(lex))
                 /\ CellOf(AddressOf(i))[1] = Code(c)
                 /\ \A k \in Operands(lex) :
                       Denotes(c, k, lex[k], CellOf(AddressOf(i))[Position(lex, k)], At)
  BY CellMeans
<1> QED BY <1>1, <1>3, <1>4 DEF Means

\* An image that was built without an error does what its source says, if no
\* comment behind a write holds text in quotes.
THEOREM ImageIsRight ==
    ASSUME ReadAsWritten
    PROVE  Spec => []ImageMeansSource
<1>1. IInv => ImageMeansSource
  BY MeansAt DEF ImageMeansSource, Succeeded
<1> QED BY <1>1, Invariance, PTL

\* The map has the places that the source has
LEMMA MapOfSource ==
    ASSUME ReadAsWritten, IInv, Succeeded
    PROVE  MapOf = {<<"code", AddressOf(i), i>> : i \in Places}
                      \cup {<<n, At[n], CHOOSE i \in DOMAIN lines : Declares(i, "var", n)>> :
                                n \in Declared("var")}
<1>1. ~Bad /\ Complete /\ TInv /\ DeclarationsOK
  BY DEF IInv, ErrorsOK
<1>2. {<<"code", First + k - 1, instrs[k].line>> : k \in DOMAIN instrs}
         = {<<"code", AddressOf(i), i>> : i \in Places}
  <2>1. ASSUME NEW k \in DOMAIN instrs
        PROVE  instrs[k].line \in Places /\ AddressOf(instrs[k].line) = First + k - 1
    <3>1. PICK i : i = instrs[k].line
      OBVIOUS
    <3>2. i \in Places /\ N(i) = k
      BY <1>1, <3>1, LineOfInstr
    <3> QED BY <1>1, <3>1, <3>2, AddressIs
  <2>2. ASSUME NEW i \in Places
        PROVE  \E k \in DOMAIN instrs : instrs[k].line = i /\ AddressOf(i) = First + k - 1
    <3>1. N(i) \in DOMAIN instrs /\ instrs[N(i)].line = i
      BY <1>1, InstrOfLine
    <3> QED BY <1>1, <3>1, AddressIs
  <2> QED BY <2>1, <2>2
<1>3. ASSUME NEW n \in Names
      PROVE  (CHOOSE i \in DOMAIN lines : Declares(i, "var", n)) = variables[VariableAt(n)].line
  <2>1. n \in Declared("var")
    BY <1>1, DeclaredIs
  <2>2. PICK i : i = CHOOSE j \in DOMAIN lines : Declares(j, "var", n)
    OBVIOUS
  <2>3. i \in DOMAIN lines /\ Declares(i, "var", n)
    BY <2>1, <2>2 DEF Declared, Declares
  <2>4. Is(lines[i], {"var"}) /\ Name(lines[i]) = n
    BY <1>1, <2>3, InTermsOfLines DEF Declares, Name
  <2>5. PICK k \in DOMAIN variables : variables[k].line = i
    BY <1>1, <2>3, <2>4 DEF Complete
  <2>6. variables[k].name = n
    BY <1>1, <2>4, <2>5 DEF DeclarationsOK
  <2>7. VariableAt(n) \in DOMAIN variables /\ variables[VariableAt(n)].name = n
    BY VariablesAt
  <2>8. VariableAt(n) = k
    BY <1>1, <2>6, <2>7 DEF DeclarationsOK
  <2> QED BY <2>2, <2>5, <2>8
<1>4. {<<variables[k].name, variables[k].addr, variables[k].line>> : k \in DOMAIN variables}
         = {<<n, At[n], CHOOSE i \in DOMAIN lines : Declares(i, "var", n)>> :
                n \in Declared("var")}
  <2>1. Declared("var") = Names
    BY <1>1, DeclaredIs
  <2>2. ASSUME NEW n \in Names
        PROVE  /\ VariableAt(n) \in DOMAIN variables /\ variables[VariableAt(n)].name = n
               /\ At[n] = variables[VariableAt(n)].addr
    BY <2>1, VariablesAt DEF At
  <2>3. ASSUME NEW k \in DOMAIN variables
        PROVE  variables[k].name \in Names /\ VariableAt(variables[k].name) = k
    <3>1. variables[k].name \in Names
      BY DEF Names
    <3> QED BY <1>1, <2>2, <3>1 DEF DeclarationsOK
  <2> DEFINE L(n) == CHOOSE i \in DOMAIN lines : Declares(i, "var", n)
  <2>4. \A n \in Names : L(n) = variables[VariableAt(n)].line
    BY <1>3
  <2> HIDE DEF L
  <2>5. {<<variables[k].name, variables[k].addr, variables[k].line>> : k \in DOMAIN variables}
           = {<<n, At[n], L(n)>> : n \in Names}
    BY <2>2, <2>3, <2>4
  <2> QED BY <2>1, <2>5 DEF L
<1> QED BY <1>2, <1>4 DEF MapOf

\* The map leads from every instruction and every variable of the image to its
\* line.
THEOREM MapIsRight ==
    ASSUME ReadAsWritten
    PROVE  Spec => []MapLeadsToSource
<1>1. ASSUME IInv, result = "succeeded" PROVE MapLeadsToSource
  <2>1. Succeeded /\ map = MapOf
    BY <1>1 DEF Succeeded, IInv, OutputOK
  <2>2. At \in [Declared("var") -> ImageAddress] /\ Means(At)
    BY <1>1, <2>1, MeansAt
  <2> QED BY <1>1, <2>1, <2>2, MapOfSource DEF MapLeadsToSource
<1>2. IInv => MapLeadsToSource
  BY <1>1 DEF MapLeadsToSource
<1> QED BY <1>2, Invariance, PTL
=============================================================================
