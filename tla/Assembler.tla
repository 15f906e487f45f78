----------------------------- MODULE Assembler -----------------------------
(***************************************************************************)
(* One run of kagu_asm (compiler.cpp): pass 1 reads the source line by     *)
(* line, addresses are given to constants and variables, pass 2 writes the *)
(* image and, if there was no error, the source map.  The image and the    *)
(* map of an earlier run are on the disk when it starts.                   *)
(*                                                                         *)
(* A line is a sequence of tokens, up to the number that its command       *)
(* takes, what follows them, and the text in quotes that a comment behind  *)
(* it may hold.  A token has a prefix, a form and a text; the lexer makes  *)
(* a lexeme with a prefix, a type and a value of it.                       *)
(* The name of a file and the number of a line are the place of the line   *)
(* in the whole source.                                                    *)
(***************************************************************************)
EXTENDS Integers, Sequences, FiniteSets, SequencesExt

CONSTANTS
    First,     \* firstInstructionNo_
    Symbol,    \* the built-in names: a function to their types and values
    Line,      \* the lines a source is made of
    MaxLines,  \* the bound on the length of the source
    MaxErrors  \* the errors after which the assembler aborts

ASSUME AssemblerConstants ==
    /\ First \in Nat /\ MaxErrors \in Nat /\ MaxLines \in Nat
    /\ \A l \in Line : l.tokens \in Seq(Range(l.tokens))
    /\ \A n \in DOMAIN Symbol : Symbol[n].t \in {"reg", "opr", "sys", "clr", "mod"}

VARIABLES
    phase,     \* what compile does next
    lines,     \* the source as read so far
    instrs,    \* parsedInstructions_, each with the place of its line
    labels,    \* labels_: the addresses
    variables, \* variablesOrdered_: names, places and addresses
    constants, \* constants_: raw and evaluated values, and addresses
    next,      \* nextInstrAddress_
    errors,    \* compilationErrorCount_
    output,    \* outputLines of pass 2
    image,     \* the contents of outputFile_
    map,       \* the contents of mapFile_
    result     \* what compile returned

source == <<lines, instrs, labels, variables, constants, next>>
files  == <<image, map>>
vars   == <<phase, source, errors, output, files, result>>

-----------------------------------------------------------------------------
(* Lexemes and the patterns of the commands *)

Jumps    == {"jump", "jump_if", "jump_if_not", "jump_err"}
Marks    == {"DEBUG_ON", "DEBUG_OFF"}
Commands == {"var", "label", "cpu_exec", "write", "copy"} \cup Jumps \cup Marks

\* Prefixes: "_" for none, "star" for * (a dereference), "at" for @ (the address)
Types(p, ts) == {<<p, t>> : t \in ts}
Place     == Types("_", {"num", "reg", "var"}) \cup Types("star", {"num", "reg", "var"})
JumpPlace == Types("_", {"num", "lbl", "var"}) \cup Types("star", {"num", "lbl", "var", "reg"})
Literal   == Types("_", {"str", "num", "opr", "sys", "clr", "mod", "lbl"})

\* COMMAND_PATTERNS: what may follow the command
Pattern(c) ==
    CASE c \in {"var", "label"}      -> <<{<<"_", "nam">>}>>
      [] c \in {"cpu_exec"} \cup Marks -> <<>>
      [] c \in Jumps                 -> <<JumpPlace>>
      [] c = "write"                 -> <<Literal, {<<"_", "kto">>}, Place>>
      [] c = "copy"                  -> <<Place \cup {<<"at", "var">>}, {<<"_", "kto">>}, Place>>

\* Lexer::parse; a word is a token that isValidName accepts
Type(k) ==
    CASE k.form = "quoted" -> "str"
      [] k.form = "digits" -> "num"
      [] k.form = "var:"   -> "var"
      [] k.form = "label:" -> "lbl"
      [] k.form = "junk"   -> "err"
      [] OTHER -> IF k.text = "to" THEN "kto"
                  ELSE IF k.text \in Commands THEN "cmd"
                  ELSE IF k.text \in DOMAIN Symbol THEN Symbol[k.text].t
                  ELSE "nam"

Parse(k) == [p |-> k.p, t |-> Type(k), v |-> k.text]

\* The command is the text of the first token, with its prefix and quotes
IsCommand(k) == k.p = "_" /\ Type(k) = "cmd"
Command(l)   == l.tokens[1].text

\* An empty text
Blank == ""

NoQuote == [p |-> "_", form |-> "none", text |-> Blank]

\* The tokens as processLine takes them: the first text in quotes on the line
\* of a write stands for its value, unless that begins with a quote
Tokens(l) ==
    IF /\ Command(l) = "write" /\ Len(l.tokens) > 1
       /\ <<l.tokens[2].p, l.tokens[2].form>> # <<"_", "quoted">> /\ l.quote # NoQuote
    THEN [l.tokens EXCEPT ![2] = l.quote]
    ELSE l.tokens

Lexemes(l) == [i \in DOMAIN l.tokens |-> Parse(Tokens(l)[i])]

\* matchPattern, over the lexemes of a line
Matches(l, lex) ==
    /\ IsCommand(l.tokens[1])
    /\ LET p == Pattern(Command(l))
       IN  /\ Len(lex) = Len(p) + 1
           /\ \A i \in DOMAIN p : <<lex[i + 1].p, lex[i + 1].t>> \in p[i]
    /\ l.rest = "comment"

-----------------------------------------------------------------------------
(* Pass 1 *)

Names == {variables[i].name : i \in DOMAIN variables}

\* Each line is read once and counted
Reads(l) ==
    /\ phase = "pass1"
    /\ Len(lines) < MaxLines
    /\ lines' = Append(lines, l)
    /\ UNCHANGED <<output, files>>

\* n calls of compilationError, of which one may exit; that leaves the files as
\* they are
Fails(n) ==
    IF errors + n > MaxErrors
    THEN errors' = MaxErrors + 1 /\ phase' = "done" /\ result' = "aborted"
    ELSE errors' = errors + n /\ UNCHANGED <<phase, result>>

Goes == UNCHANGED <<phase, errors, result>>

Skip(l) ==
    /\ l.tokens = <<>>
    /\ Reads(l)
    /\ Goes
    /\ UNCHANGED <<instrs, labels, variables, constants, next>>

\* An unknown command, arguments that do not match, a name declared twice
Refused(l) ==
    IF ~Matches(l, Lexemes(l)) THEN TRUE
    ELSE \/ Command(l) = "var" /\ l.tokens[2].text \in Names
         \/ Command(l) = "label" /\ l.tokens[2].text \in DOMAIN labels

\* Mutant of Refuse: a line that is refused is read as an empty one
RefuseSilently(l) ==
    /\ l.tokens # <<>> /\ Refused(l)
    /\ Reads(l)
    /\ Goes
    /\ UNCHANGED <<instrs, labels, variables, constants, next>>

Refuse(l) ==
    /\ l.tokens # <<>> /\ Refused(l)
    /\ Reads(l)
    /\ Fails(1)
    /\ UNCHANGED <<instrs, labels, variables, constants, next>>

Accepted(l, c) ==
    /\ l.tokens # <<>>
    /\ Command(l) \in c
    /\ ~Refused(l)
    /\ Reads(l)
    /\ Goes

DeclareVariable(l) ==
    /\ Accepted(l, {"var"})
    /\ variables' = Append(variables,
                           [name |-> l.tokens[2].text, line |-> Len(lines'), addr |-> 0])
    /\ UNCHANGED <<instrs, labels, constants, next>>

\* Mutant of DeclareLabel: the address of the instruction after the next
DeclareLabelLate(l) ==
    /\ Accepted(l, {"label"})
    /\ labels' = [n \in DOMAIN labels \cup {l.tokens[2].text} |->
                     IF n \in DOMAIN labels THEN labels[n] ELSE next + 1]
    /\ UNCHANGED <<instrs, variables, constants, next>>

DeclareLabel(l) ==
    /\ Accepted(l, {"label"})
    /\ labels' = [n \in DOMAIN labels \cup {l.tokens[2].text} |->
                     IF n \in DOMAIN labels THEN labels[n] ELSE next]
    /\ UNCHANGED <<instrs, variables, constants, next>>

\* std::to_string
Digits(n) == ToString(n)

Evaluated(x) == CASE x.t = "num" -> Digits(x.v)
                  [] x.t \in {"opr", "sys", "clr"} -> Digits(Symbol[x.v].v)
                  [] x.t = "mod" -> Symbol[x.v].v
                  [] x.t = "lbl" -> Blank
                  [] x.t = "str" -> x.v

\* rawValue tells the types apart: 5 and "5" are two constants
SameConstant(c, x) == c.t = x.t /\ c.v = x.v

WithConstant(cs, x) ==
    IF \E i \in DOMAIN cs : SameConstant(cs[i], x) THEN cs
    ELSE Append(cs, [t |-> x.t, v |-> x.v, val |-> Evaluated(x), addr |-> 0])

AddInstruction(l) ==
    /\ Accepted(l, Commands \ {"var", "label"})
    /\ instrs' = Append(instrs, [lex |-> Lexemes(l), line |-> Len(lines')])
    /\ next' = next + 1
    /\ constants' = IF Command(l) = "write" THEN WithConstant(constants, Lexemes(l)[2])
                                            ELSE constants
    /\ UNCHANGED <<labels, variables>>

Return(r) == phase' = "done" /\ result' = r

EndOfSource ==
    /\ phase = "pass1"
    /\ IF errors = 0 THEN phase' = "addresses" /\ UNCHANGED result
                     ELSE Return("failed")
    /\ UNCHANGED <<source, errors, output, files>>

\* A file of the source is not there, or the image cannot be created
CannotOpen ==
    /\ phase \in {"pass1", "open"}
    /\ Return("failed")
    /\ UNCHANGED <<source, errors, output, files>>

-----------------------------------------------------------------------------
(* Addresses *)

\* Mutant of CalculateAddresses: constants and variables overlap
CalculateAddressesTogether ==
    /\ phase = "addresses"
    /\ constants' = [i \in DOMAIN constants |->
          LET c == constants[i]
          IN  [c EXCEPT !.addr = next + i - 1,
                        !.val  = IF c.t = "lbl" /\ c.v \in DOMAIN labels
                                 THEN Digits(labels[c.v]) ELSE @]]
    /\ variables' = [i \in DOMAIN variables |->
                        [variables[i] EXCEPT !.addr = next + i - 1]]
    /\ next' = next + Len(constants) + Len(variables)
    /\ phase' = "open"
    /\ UNCHANGED <<lines, instrs, labels, errors, output, files, result>>

CalculateAddresses ==
    /\ phase = "addresses"
    /\ constants' = [i \in DOMAIN constants |->
          LET c == constants[i]
          IN  [c EXCEPT !.addr = next + i - 1,
                        !.val  = IF c.t = "lbl" /\ c.v \in DOMAIN labels
                                 THEN Digits(labels[c.v]) ELSE @]]
    /\ variables' = [i \in DOMAIN variables |->
                        [variables[i] EXCEPT !.addr = next + Len(constants) + i - 1]]
    /\ next' = next + Len(constants) + Len(variables)
    /\ phase' = "open"
    /\ UNCHANGED <<lines, instrs, labels, errors, output, files, result>>

-----------------------------------------------------------------------------
(* Pass 2 *)

\* The output file is empty from here on
Open ==
    /\ phase = "open"
    /\ image' = <<>>
    /\ phase' = "pass2"
    /\ UNCHANGED <<source, errors, output, map, result>>

ConstantAt(x) == CHOOSE i \in DOMAIN constants : SameConstant(constants[i], x)
VariableAt(n) == CHOOSE i \in DOMAIN variables : variables[i].name = n

IsValue(c, i) == c = "write" /\ i = 2

Undefined(c, i, x) ==
    ~IsValue(c, i) /\ \/ x.t = "lbl" /\ x.v \notin DOMAIN labels
                      \/ x.t = "var" /\ x.v \notin Names

\* evalLexeme of the i-th lexeme of a command: its address, if it has one.  The
\* prefix of a label is not looked at.
Operand(c, i, x) ==
    IF i = 1 \/ x.t = "kto" \/ Undefined(c, i, x) THEN <<>>
    ELSE << CASE IsValue(c, i) -> <<"_", constants[ConstantAt(x)].addr>>
              [] ~IsValue(c, i) /\ x.t = "lbl" -> <<"_", labels[x.v]>>
              [] x.t = "var" -> <<x.p, variables[VariableAt(x.v)].addr>>
              [] x.t = "reg" -> <<x.p, Symbol[x.v].v>>
              [] ~IsValue(c, i) /\ x.t = "num" -> <<x.p, x.v>> >>

Code(c) == IF c = "write" THEN "copy" ELSE c

Encoded(lex) ==
    <<Code(lex[1].v)>>
        \o FlattenSeq([i \in DOMAIN lex |-> Operand(lex[1].v, i, lex[i])])

EmitInstruction ==
    /\ phase = "pass2"
    /\ Len(output) < Len(instrs)
    /\ LET lex == instrs[Len(output) + 1].lex
       IN  /\ output' = Append(output, Encoded(lex))
           /\ Fails(Cardinality({i \in DOMAIN lex : Undefined(lex[1].v, i, lex[i])}))
    /\ UNCHANGED <<source, files>>

Text(v) == <<"text", v>>

\* The image is written whatever errors there were
WriteImage ==
    /\ phase = "pass2"
    /\ Len(output) = Len(instrs)
    /\ image' = output \o [i \in DOMAIN constants |-> Text(constants[i].val)]
                       \o [i \in DOMAIN variables |-> Text(Blank)]
    /\ errors' = IF output = <<>> THEN errors + 1 ELSE errors
    /\ IF errors' > 0 THEN Return("failed") ELSE phase' = "map" /\ UNCHANGED result
    /\ UNCHANGED <<source, output, map>>

\* Mutant of MapOf: addresses count from 0
MapOfFromZero ==
    {<<"code", i, instrs[i].line>> : i \in DOMAIN instrs}
        \cup {<<variables[i].name, variables[i].addr, variables[i].line>>
                  : i \in DOMAIN variables}

MapOf ==
    {<<"code", First + i - 1, instrs[i].line>> : i \in DOMAIN instrs}
        \cup {<<variables[i].name, variables[i].addr, variables[i].line>>
                  : i \in DOMAIN variables}

\* writeSourceMap only warns if the map cannot be created
WriteMap ==
    /\ phase = "map"
    /\ \/ map' = MapOf /\ Return("succeeded")
       \/ UNCHANGED map /\ Return("warned")
    /\ UNCHANGED <<source, errors, output, image>>

-----------------------------------------------------------------------------
Old == <<"old">>

Init ==
    /\ phase = "pass1"
    /\ lines = <<>> /\ instrs = <<>> /\ labels = <<>>
    /\ variables = <<>> /\ constants = <<>>
    /\ next = First
    /\ errors = 0 /\ output = <<>>
    /\ image = Old /\ map = Old
    /\ result = "none"

ProcessLine ==
    \E l \in Line :
        \/ Skip(l) \/ Refuse(l)
        \/ DeclareVariable(l) \/ DeclareLabel(l) \/ AddInstruction(l)

Next ==
    \/ ProcessLine \/ EndOfSource \/ CannotOpen \/ CalculateAddresses
    \/ Open \/ EmitInstruction \/ WriteImage \/ WriteMap

Spec == Init /\ [][Next]_vars

-----------------------------------------------------------------------------
(* What a source means, read in one go: the addresses of its instructions   *)
(* follow from their order, a label is the address of the instruction after *)
(* it, and a variable is any cell that is nothing else.                     *)

Lex(i)       == [k \in DOMAIN lines[i].tokens |-> Parse(lines[i].tokens[k])]
Has(i, cs)   == lines[i].tokens # <<>> /\ Command(lines[i]) \in cs
Places       == {i \in DOMAIN lines : Has(i, Commands \ {"var", "label"})}
AddressOf(i) == First + Cardinality({j \in Places : j < i})

Declares(i, c, n) == Has(i, {c}) /\ Lex(i)[2].v = n
Declared(c) == {Lex(i)[2].v : i \in {j \in DOMAIN lines : Has(j, {c})}}
LabelAt(n)  == AddressOf(CHOOSE i \in DOMAIN lines : Declares(i, "label", n))

ImageAddress == First .. First + Len(image) - 1
CellOf(a)    == image[a - First + 1]

\* The i-th lexeme x of a command c has become the operand o, if the variables
\* are at the addresses at
Denotes(c, i, x, o, at) ==
    IF IsValue(c, i)
    THEN /\ o[2] \in ImageAddress
         /\ CellOf(o[2]) = Text(IF x.t # "lbl" THEN Evaluated(x)
                                ELSE IF x.v \in Declared("label")
                                     THEN Digits(LabelAt(x.v)) ELSE Blank)
         /\ \A n \in DOMAIN at : o[2] # at[n]
    ELSE CASE x.t = "lbl" -> o[2] = LabelAt(x.v)
           [] x.t = "var" -> o = <<x.p, at[x.v]>>
           [] x.t = "reg" -> o = <<x.p, Symbol[x.v].v>>
           [] x.t = "num" -> o = <<x.p, x.v>>

Operands(lex)    == {i \in 2 .. Len(lex) : lex[i].t # "kto"}
Position(lex, i) == 1 + Cardinality({k \in Operands(lex) : k <= i})

Means(at) ==
    /\ \A i \in Places :
          LET lex == Lex(i)
              c   == Command(lines[i])
          IN  /\ Len(CellOf(AddressOf(i))) = 1 + Cardinality(Operands(lex))
              /\ CellOf(AddressOf(i))[1] = Code(c)
              /\ \A k \in Operands(lex) :
                    Denotes(c, k, lex[k], CellOf(AddressOf(i))[Position(lex, k)], at)
    /\ \A n, m \in DOMAIN at :
          /\ at[n] >= First + Cardinality(Places) /\ CellOf(at[n]) = Text(Blank)
          /\ n # m => at[n] # at[m]

\* Every line is one of its command, no name is declared twice, and those that
\* have an address are declared
Defined(i, k) ==
    LET x == Lex(i)[k]
    IN  /\ x.t = "var" => x.v \in Declared("var")
        /\ x.t = "lbl" => x.v \in Declared("label") \/ IsValue(Command(lines[i]), k)

Sound ==
    /\ \A i \in DOMAIN lines : lines[i].tokens # <<>> => Matches(lines[i], Lex(i))
    /\ \A i, j \in DOMAIN lines : \A c \in {"var", "label"} :
          i # j /\ Has(i, {c}) /\ Has(j, {c}) => Lex(i)[2] # Lex(j)[2]
    /\ \A i \in Places : \A k \in DOMAIN Lex(i) : Defined(i, k)
    /\ Places # {}

-----------------------------------------------------------------------------
AssemblerTypeOK ==
    /\ phase \in {"pass1", "addresses", "open", "pass2", "map", "done"}
    /\ lines \in Seq(Line) /\ Len(lines) <= MaxLines
    /\ \A i \in DOMAIN instrs : instrs[i].line \in DOMAIN lines
    /\ \A n \in DOMAIN labels : labels[n] \in First .. First + Len(instrs)
    /\ phase \in {"pass1", "addresses"} => next = First + Len(instrs)
    /\ phase \in {"open", "pass2", "map"} =>
          next = First + Len(instrs) + Len(constants) + Len(variables)
    /\ errors \in 0 .. MaxErrors + 1
    /\ Len(output) <= Len(instrs)
    /\ phase = "done" <=> result # "none"
    /\ result \in {"none", "succeeded", "warned", "failed", "aborted"}

\* An image that was built without an error does what its source says.
ImageMeansSource ==
    result \in {"succeeded", "warned"} => \E at \in [Declared("var") -> ImageAddress] : Means(at)

\* The map leads from every instruction and every variable of the image to its
\* line (config.hpp, "address -> source:line").
MapLeadsToSource ==
    result = "succeeded" =>
        \E at \in [Declared("var") -> ImageAddress] :
            /\ Means(at)
            /\ map = {<<"code", AddressOf(i), i>> : i \in Places}
                       \cup {<<n, at[n], CHOOSE i \in DOMAIN lines : Declares(i, "var", n)>> :
                                 n \in Declared("var")}

\* A source is refused for an error that it has: a name that is used nowhere
\* declared or declared twice, a line that is none, or nothing to execute.  All
\* of them are found, but for a label whose address is only written.
Diagnosed ==
    phase = "done" =>
        /\ errors > 0 => ~Sound
        /\ result \in {"succeeded", "warned"} => Sound
=============================================================================
