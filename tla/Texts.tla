------------------------------- MODULE Texts -------------------------------
(***************************************************************************)
(* What the operations of the CPU compute (cpu.cpp:419-634, 915-918) over  *)
(* texts, which are sequences of characters: a register holds a text, a    *)
(* number is a text that std::stoi accepts, and a list is a text with      *)
(* separators.                                                             *)
(*                                                                         *)
(* Numbers with a point (isFloat) are left out: no character is a point.   *)
(***************************************************************************)
EXTENDS Integers, Sequences, FiniteSets, SequencesExt

CONSTANTS
    Char,  \* the characters that texts are made of
    MaxInt \* the largest int; 2147483647 in the build

Digits == <<"0", "1", "2", "3", "4", "5", "6", "7", "8", "9">>
Digit  == ToSet(Digits)
Space  == " "
Minus  == "-"
Int32  == -MaxInt - 1 .. MaxInt

ASSUME TextsConstants ==
    /\ MaxInt \in Nat
    /\ Digit \cup {Space, Minus} \subseteq Char

-----------------------------------------------------------------------------
(* Numbers *)

\* The longest run of characters of C that begins s
Prefix(s, C) ==
    LET n == CHOOSE k \in 0 .. Len(s) :
                 /\ \A i \in 1 .. k : s[i] \in C
                 /\ k = Len(s) \/ s[k + 1] \notin C
    IN  SubSeq(s, 1, n)

Without(s, n) == SubSeq(s, n + 1, Len(s))

\* What a digit, and a sequence of digits, is worth
DigitValue(d) == (CHOOSE i \in DOMAIN Digits : Digits[i] = d) - 1

Value(digits) ==
    LET value[i \in 0 .. Len(digits)] ==
            IF i = 0 THEN 0 ELSE 10 * value[i - 1] + DigitValue(digits[i])
    IN  value[Len(digits)]

\* What std::stoi reads of a text: blanks, a sign and digits; the rest of the
\* text is not looked at
Unsigned(s) ==
    LET t == Without(s, Len(Prefix(s, {Space})))
    IN  IF t # <<>> /\ t[1] \in {Minus, "+"} THEN Tail(t) ELSE t

Negative(s) == IsPrefix(<<Minus>>, Without(s, Len(Prefix(s, {Space}))))

Number(s) ==
    LET v == Value(Prefix(Unsigned(s), Digit))
    IN  IF Negative(s) THEN -v ELSE v

\* std::stoi throws for the other texts
IsInt(s) ==
    /\ Prefix(Unsigned(s), Digit) # <<>>
    /\ Number(s) \in Int32

\* int arithmetic of the build: it wraps
Wrapped(n) == ((n + MaxInt + 1) % (2 * MaxInt + 2)) - MaxInt - 1

\* std::to_string
DigitsOf(n) ==
    LET digits[m \in 0 .. n] ==
            IF m < 10 THEN <<Digits[m + 1]>>
            ELSE Append(digits[m \div 10], Digits[(m % 10) + 1])
    IN  digits[n]

Text(n) == IF n < 0 THEN <<Minus>> \o DigitsOf(-n) ELSE DigitsOf(n)

\* Division in C++ truncates towards zero
AbsOf(n) == IF n < 0 THEN -n ELSE n
Quotient(m, n) ==
    LET q == AbsOf(m) \div AbsOf(n) IN IF (m < 0) = (n < 0) THEN q ELSE -q

\* Mutant of Remainder: the sign of the divisor
RemainderOfFloor(m, n) ==
    IF n > 0 THEN m % n ELSE -((-m) % (-n))

Remainder(m, n) == m - n * Quotient(m, n)

\* Mutant of IsNum: no digit is needed
IsNumOrSign(s) ==
    LET t == IF IsPrefix(<<Minus>>, s) THEN Tail(s) ELSE s IN ToSet(t) \subseteq Digit

\* execIsNum, for texts without a point
IsNum(s) ==
    LET t == IF IsPrefix(<<Minus>>, s) THEN Tail(s) ELSE s
    IN  t # <<>> /\ ToSet(t) \subseteq Digit

-----------------------------------------------------------------------------
(* Texts *)

\* Where b begins in a, the first time: std::string::find
Places(a, b) ==
    {i \in 1 .. Len(a) - Len(b) + 1 : SubSeq(a, i, i + Len(b) - 1) = b}

FirstPlace(a, b) == CHOOSE i \in Places(a, b) : \A j \in Places(a, b) : i <= j

\* execConcatWith
ConcatWith(a, b, c) == a \o c \o b

\* One more character of a text goes into the last column, or begins the next
WithCharacter(columns, x, c) ==
    IF x \in ToSet(c) THEN Append(columns, <<>>)
    ELSE [columns EXCEPT ![Len(columns)] = Append(@, x)]

\* The columns of a, separated by the characters of c, with the empty ones
Columns(a, c) ==
    LET columns[i \in 0 .. Len(a)] ==
            IF i = 0 THEN << <<>> >> ELSE WithCharacter(columns[i - 1], a[i], c)
    IN  columns[Len(a)]

\* The texts with c between them
JoinedWith(texts, c) ==
    FlattenSeq([i \in DOMAIN texts |-> IF i = 1 THEN texts[i] ELSE c \o texts[i]])

Characters(a) == [i \in DOMAIN a |-> <<a[i]>>]

\* Those of the texts that are not empty, in their order
NonEmpty(texts) ==
    FlattenSeq([i \in DOMAIN texts |-> IF texts[i] = <<>> THEN <<>> ELSE <<texts[i]>>])

\* The two operations do not count the same columns: execGetColumn skips the
\* empty ones
SeenColumns(a, c) ==
    IF c = <<>> THEN Characters(a)
    ELSE NonEmpty(Columns(a, c))

GetColumn(a, n, c) ==
    LET all == SeenColumns(a, c) IN IF n \in DOMAIN all THEN all[n] ELSE <<>>

\* Mutant of ReplaceColumn: the columns count from 0
ReplaceColumnFromZero(a, n, c, d) ==
    LET all == Columns(a, c)
        new == IF n + 1 \in DOMAIN all THEN [all EXCEPT ![n + 1] = d] ELSE all
    IN  JoinedWith(new, c)

\* execReplaceColumn: without a separator it replaces a character, by the first
\* of d or by a blank
ReplaceColumn(a, n, c, d) ==
    IF c = <<>>
    THEN IF n \in DOMAIN a
         THEN [a EXCEPT ![n] = IF d = <<>> THEN Space ELSE d[1]]
         ELSE a
    ELSE LET all == Columns(a, c)
             new == IF n \in DOMAIN all THEN [all EXCEPT ![n] = d] ELSE all
         IN  JoinedWith(new, c)
=============================================================================
