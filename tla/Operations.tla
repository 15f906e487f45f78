----------------------------- MODULE Operations -----------------------------
(***************************************************************************)
(* cpu_exec of the operations on numbers and texts (cpu.cpp:419-634): the  *)
(* registers they read and write, the error they report, and the ends they *)
(* bring about.  A program puts texts in the registers, executes, and may  *)
(* go on with the result.                                                  *)
(***************************************************************************)
EXTENDS Texts

CONSTANTS
    TextsOf, \* what programs write to each of the registers A to D
    MaxSteps \* the bound on the steps of a program

Registers == {"A", "B", "C", "D"}

ASSUME OperationsConstants ==
    /\ MaxSteps \in Nat
    /\ DOMAIN TextsOf = Registers
    /\ \A r \in Registers : TextsOf[r] \subseteq Seq(Char)

VARIABLES
    reg,     \* REG_A to REG_D
    res,     \* REG_RES
    boolRes, \* REG_BOOL_RES
    error,   \* REG_ERROR
    last,    \* the operation executed last; "-" when a register changed since
    end,     \* what became of the emulator
    steps    \* the steps so far

ovars == <<reg, res, boolRes, error, last, end, steps>>

A == reg["A"]
B == reg["B"]
C == reg["C"]
D == reg["D"]

-----------------------------------------------------------------------------
\* executeCpuExec: REG_ERROR is cleared first, and REG_RES is not
Executes(op) ==
    /\ end = "-" /\ steps < MaxSteps
    /\ last' = op /\ steps' = steps + 1
    /\ UNCHANGED reg

Gives(r, b) ==
    /\ res' = r /\ boolRes' = b
    /\ error' = FALSE /\ end' = "-"

GivesRes(r)  == Gives(r, boolRes)
GivesBool(b) == Gives(res, b)

\* An exception that is no CpuException, or the signal of the division: both
\* end the emulator (cpu.cpp:149-155)
Ends(cause) ==
    /\ end' = cause
    /\ UNCHANGED <<res, boolRes>> /\ error' = FALSE

\* std::stoi of the operands, then the operation
OnInts(texts, Then) ==
    IF \A t \in texts : IsInt(t) THEN Then ELSE Ends("exception")

Add == Executes("add") /\
       OnInts({A, B}, GivesRes(Text(Wrapped(Number(A) + Number(B)))))
Sub == Executes("sub") /\
       OnInts({A, B}, GivesRes(Text(Wrapped(Number(A) - Number(B)))))
Mul == Executes("mul") /\
       OnInts({A, B}, GivesRes(Text(Wrapped(Number(A) * Number(B)))))
Incr == Executes("incr") /\ OnInts({A}, GivesRes(Text(Wrapped(Number(A) + 1))))
Decr == Executes("decr") /\ OnInts({A}, GivesRes(Text(Wrapped(Number(A) - 1))))

\* Division by another zero, or of the least int by -1, raises SIGFPE
Divides(result) ==
    IF Number(B) = 0 \/ (Number(A) = -MaxInt - 1 /\ Number(B) = -1)
    THEN Ends("signal")
    ELSE GivesRes(Text(result))

\* execDiv and execMod compare the text of the divisor
ByZero ==
    /\ UNCHANGED <<res, boolRes, end>>
    /\ error' = TRUE

Div == Executes("div") /\
       IF B = <<"0">> THEN ByZero ELSE OnInts({A, B}, Divides(Quotient(Number(A), Number(B))))
Mod == Executes("mod") /\
       IF B = <<"0">> THEN ByZero ELSE OnInts({A, B}, Divides(Remainder(Number(A), Number(B))))

ToBool(p) == IF p THEN "1" ELSE "0"

\* Mutant of ExecIsNum: it converts the text
ExecIsNumConverts ==
    Executes("isNum") /\ OnInts({A}, GivesBool(ToBool(IsNum(A))))

ExecIsNum == Executes("isNum") /\ GivesBool(ToBool(IsNum(A)))
CmpEq  == Executes("cmpEq") /\ GivesBool(ToBool(A = B))
CmpNeq == Executes("cmpNeq") /\ GivesBool(ToBool(A # B))
CmpLt == Executes("cmpLt") /\
         OnInts({A, B}, GivesBool(ToBool(Number(A) < Number(B))))
CmpLe == Executes("cmpLe") /\
         OnInts({A, B}, GivesBool(ToBool(Number(A) <= Number(B))))

\* Mutant of Contains: the position counts from 0
ContainsFromZero ==
    /\ Executes("contains")
    /\ IF Places(A, B) = {} THEN Gives(<<>>, "0")
       ELSE Gives(Text(FirstPlace(A, B) - 1), "1")

ExecContains ==
    /\ Executes("contains")
    /\ IF Places(A, B) = {} THEN Gives(<<>>, "0")
       ELSE Gives(Text(FirstPlace(A, B)), "1")

GetLength == Executes("getLength") /\ GivesRes(Text(Len(A)))

StartsWith ==
    /\ Executes("startsWith")
    /\ IF IsPrefix(B, A) THEN Gives(Without(A, Len(B)), "1") ELSE Gives(<<>>, "0")

ExecGetColumn ==
    /\ Executes("getColumn")
    /\ OnInts({B}, GivesRes(GetColumn(A, Number(B), C)))

ExecReplaceColumn ==
    /\ Executes("replaceColumn")
    /\ OnInts({B}, GivesRes(ReplaceColumn(A, Number(B), C, D)))

ExecConcatWith == Executes("concatWith") /\ GivesRes(ConcatWith(A, B, C))

\* write of a text to a register, or copy of REG_RES to REG_A
Write ==
    /\ end = "-" /\ steps < MaxSteps
    /\ last' = "-" /\ steps' = steps + 1
    /\ \/ \E r \in Registers : \E t \in TextsOf[r] : reg' = [reg EXCEPT ![r] = t]
       \/ reg' = [reg EXCEPT !["A"] = res]
    /\ UNCHANGED <<res, boolRes, error, end>>

-----------------------------------------------------------------------------
\* A program has written its first operands
OInit ==
    /\ reg \in [Registers -> UNION {TextsOf[r] : r \in Registers}]
    /\ \A r \in Registers : reg[r] \in TextsOf[r]
    /\ steps = 0
    /\ res = <<>> /\ boolRes = "" /\ error = FALSE /\ last = "-" /\ end = "-"

ONext ==
    \/ Write
    \/ Add \/ Sub \/ Mul \/ Incr \/ Decr \/ Div \/ Mod
    \/ ExecIsNum \/ CmpEq \/ CmpNeq \/ CmpLt \/ CmpLe
    \/ ExecContains \/ GetLength \/ StartsWith
    \/ ExecGetColumn \/ ExecReplaceColumn \/ ExecConcatWith

OSpec == OInit /\ [][ONext]_ovars

-----------------------------------------------------------------------------
\* The registers hold texts, a comparison gives "0" or "1", and the emulator
\* ends only by an operation that reads numbers.
OperationsTypeOK ==
    /\ reg \in [Registers -> Seq(Char)]
    /\ res \in Seq(Char) /\ boolRes \in {"", "0", "1"} /\ error \in BOOLEAN
    /\ end # "-" => last \in {"add", "sub", "mul", "incr", "decr", "div", "mod",
                              "cmpLt", "cmpLe", "getColumn", "replaceColumn"}
    /\ end = "signal" => last \in {"div", "mod"}

\* What a program guards with OP_IS_NUM it may compute with: the emulator ends
\* on such operands only where an int cannot hold them, or in a division.
GuardedNumbers ==
    end = "exception" /\ last \in {"add", "sub", "mul", "cmpLt", "cmpLe"} =>
        \E t \in {A, B} : ~IsNum(t) \/ Number(t) \notin Int32

\* Quotient and remainder belong together, for every sign of the operands, as
\* long as the divisor is not reported as zero (execDiv and execMod of cpu.cpp).
Division ==
    last \in {"div", "mod"} /\ end = "-" /\ ~error =>
        LET q == IF last = "div" THEN Number(res) ELSE Quotient(Number(A), Number(B))
            r == IF last = "mod" THEN Number(res) ELSE Remainder(Number(A), Number(B))
        IN  /\ Number(A) = q * Number(B) + r
            /\ AbsOf(r) < AbsOf(Number(B))
            /\ r = 0 \/ (r < 0) = (Number(A) < 0)

\* OP_CONTAINS and OP_GET_COLUMN of characters, and OP_STARTS_WITH and
\* OP_CONCAT_WITH, agree on where things are: the kernel takes texts apart with
\* one of them and puts them together with the other.
TextsAgree ==
    /\ last = "contains" /\ boolRes = "1" =>
          \A i \in DOMAIN B : GetColumn(A, Number(res) + i - 1, <<>>) = <<B[i]>>
    /\ last = "startsWith" /\ boolRes = "1" => ConcatWith(B, res, <<>>) = A
    /\ last = "concatWith" =>
          IsPrefix(A, res) /\ Len(res) = Len(A) + Len(B) + Len(C)

\* A column that is replaced is the one that is read afterwards, and the other
\* columns stay, as long as no column is empty and the new one is a column.
ColumnsAgree ==
    /\ last = "replaceColumn" /\ end = "-"
    /\ C # <<>> /\ <<>> \notin ToSet(Columns(A, C))
    /\ D # <<>> /\ ToSet(D) \cap ToSet(C) = {}
    =>
    \A n \in DOMAIN Columns(A, C) :
        GetColumn(res, n, C) = IF n = Number(B) THEN D ELSE GetColumn(A, n, C)
=============================================================================
