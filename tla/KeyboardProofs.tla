--------------------------- MODULE KeyboardProofs ---------------------------
(***************************************************************************)
(* Proofs about the keyboard, for every alphabet, every text that names a  *)
(* mode and inputs of any length: each character has one reader, and a     *)
(* script that is piped in is read line by line to its last line.          *)
(***************************************************************************)
EXTENDS Keyboard, Lemmas

NL == {NewLine}

\* The histories
HistoriesOK ==
    /\ taken \in Seq(Char) /\ lines \in Seq(Seq(Char))
    /\ pressed \in Char \cup {Null}

TInv == KeyboardTypeOK /\ HistoriesOK

-----------------------------------------------------------------------------
(* Sequences and counting                                                  *)

\* A sequence is cut in two
LEMMA Cut ==
    ASSUME NEW T, NEW s \in Seq(T), NEW n \in 0 .. Len(s)
    PROVE  /\ SubSeq(s, 1, n) \in Seq(T) /\ SubSeq(s, n + 1, Len(s)) \in Seq(T)
           /\ Len(SubSeq(s, 1, n)) = n /\ \A i \in 1 .. n : SubSeq(s, 1, n)[i] = s[i]
           /\ s = SubSeq(s, 1, n) \o SubSeq(s, n + 1, Len(s))
<1>1. Len(s) \in Nat /\ \A i \in 1 .. Len(s) : s[i] \in T
  BY LenProperties
<1>2. /\ SubSeq(s, 1, n) \in Seq(T) /\ Len(SubSeq(s, 1, n)) = n
      /\ \A i \in 1 .. n : SubSeq(s, 1, n)[i] = s[i]
  <2>1. 1 \in Int /\ n \in Int /\ \A i \in 1 .. n : s[i] \in T
    BY <1>1
  <2>2. /\ SubSeq(s, 1, n) \in Seq(T)
        /\ Len(SubSeq(s, 1, n)) = IF 1 <= n THEN n - 1 + 1 ELSE 0
        /\ \A i \in 1 .. n - 1 + 1 : SubSeq(s, 1, n)[i] = s[1 + i - 1]
    BY <2>1, SubSeqProperties
  <2> QED BY <1>1, <2>1, <2>2
<1>3. SubSeq(s, n + 1, Len(s)) \in Seq(T)
  <2>1. n + 1 \in Int /\ Len(s) \in Int /\ \A i \in n + 1 .. Len(s) : s[i] \in T
    BY <1>1
  <2> QED BY <2>1, SubSeqProperties
<1>4. s = SubSeq(s, 1, n) \o SubSeq(s, n + 1, Len(s))
  <2>1. 1 \in 1 .. Len(s) + 1 /\ n \in 1 - 1 .. Len(s) /\ Len(s) \in n .. Len(s)
    BY <1>1
  <2>2. SubSeq(s, 1, n) \o SubSeq(s, n + 1, Len(s)) = SubSeq(s, 1, Len(s))
    BY <2>1, ConcatAdjacentSubSeq
  <2> QED BY <2>2, SubSeqFull
<1> QED BY <1>2, <1>3, <1>4

\* A sequence is its first element and its tail
LEMMA HeadFirst ==
    ASSUME NEW T, NEW s \in Seq(T), s # <<>>
    PROVE  /\ Head(s) \in T /\ <<Head(s)>> \in Seq(T) /\ Tail(s) \in Seq(T)
           /\ Tail(s) = SubSeq(s, 2, Len(s)) /\ s = <<Head(s)>> \o Tail(s)
<1>1. /\ Head(s) \in T /\ Tail(s) \in Seq(T) /\ Head(s) = s[1]
      /\ Len(s) \in Nat /\ Len(s) # 0
  BY HeadTailProperties, EmptySeq
<1>2. Tail(s) = SubSeq(s, 1 + 1, Len(s))
  BY TailIsSubSeq
<1>3. 1 \in 0 .. Len(s)
  BY <1>1
<1>4. /\ SubSeq(s, 1, 1) \in Seq(T) /\ Len(SubSeq(s, 1, 1)) = 1
      /\ \A i \in 1 .. 1 : SubSeq(s, 1, 1)[i] = s[i]
      /\ s = SubSeq(s, 1, 1) \o SubSeq(s, 1 + 1, Len(s))
  BY <1>3, Cut
<1>5. <<Head(s)>> \in Seq(T) /\ Len(<<Head(s)>>) = 1 /\ <<Head(s)>>[1] = s[1]
  BY <1>1
<1>6. SubSeq(s, 1, 1) = <<Head(s)>>
  <2>1. \A i \in 1 .. 1 : SubSeq(s, 1, 1)[i] = <<Head(s)>>[i]
    BY <1>4, <1>5
  <2> QED BY <1>4, <1>5, <2>1, SeqEqual
<1> QED BY <1>1, <1>2, <1>4, <1>5, <1>6

\* The number of a character, counted up to the end of the sequence
LEMMA CountIsNum ==
    ASSUME NEW T, NEW s \in Seq(T), NEW c
    PROVE  Count(c, s) = Num(s, {c}, Len(s)) /\ Count(c, s) \in Nat
<1>1. Len(s) \in Nat /\ DOMAIN s = 1 .. Len(s)
  BY LenProperties
<1>2. {i \in DOMAIN s : s[i] = c} = {i \in 1 .. Len(s) : s[i] \in {c}}
  BY <1>1
<1>3. Count(c, s) = Num(s, {c}, Len(s))
  BY <1>2 DEF Count, Num
<1>4. Num(s, {c}, Len(s)) \in Nat
  BY <1>1, NumIsFinite
<1> QED BY <1>3, <1>4

\* How often a character occurs in two sequences, in one of one element, and in
\* one that grows
LEMMA CountSum ==
    ASSUME NEW T, NEW s \in Seq(T), NEW t \in Seq(T), NEW c
    PROVE  Count(c, s \o t) = Count(c, s) + Count(c, t)
<1>1. s \o t \in Seq(T) /\ Len(s \o t) = Len(s) + Len(t) /\ Len(t) \in Nat
  BY ConcatProperties, LenProperties
<1>2. Num(s \o t, {c}, Len(s) + Len(t)) = Num(s, {c}, Len(s)) + Num(t, {c}, Len(t))
  <2>1. Len(t) \in 0 .. Len(t)
    BY <1>1
  <2> QED BY <2>1, NumConcat
<1> QED BY <1>1, <1>2, CountIsNum

\* The count of a sequence of one
LEMMA CountOne ==
    ASSUME NEW T, NEW x \in T, NEW c
    PROVE  <<x>> \in Seq(T) /\ Count(c, <<x>>) = (IF x = c THEN 1 ELSE 0)
           /\ Count(c, <<>>) = 0
<1>1. <<x>> \in Seq(T) /\ <<>> \in Seq(T) /\ Len(<<x>>) = 1 /\ Len(<<>>) = 0 /\ <<x>>[1] = x
  OBVIOUS
<1>2. Num(<<x>>, {c}, 0 + 1) = Num(<<x>>, {c}, 0) + IF <<x>>[0 + 1] \in {c} THEN 1 ELSE 0
  BY NumStep
<1>3. Num(<<x>>, {c}, 0) = 0 /\ Num(<<>>, {c}, 0) = 0
  BY NumStep
<1>4. Count(c, <<>>) = 0
  BY <1>1, <1>3, CountIsNum
<1>5. Count(c, <<x>>) = Num(<<x>>, {c}, 1)
  BY <1>1, CountIsNum
<1>6. Num(<<x>>, {c}, 1) = IF x = c THEN 1 ELSE 0
  BY <1>1, <1>2, <1>3
<1> QED BY <1>1, <1>4, <1>5, <1>6

\* The count with one more element
LEMMA CountAppend ==
    ASSUME NEW T, NEW s \in Seq(T), NEW x \in T, NEW c
    PROVE  Append(s, x) \in Seq(T) /\ Count(c, Append(s, x)) = Count(c, s) + Count(c, <<x>>)
<1>1. Append(s, x) = s \o <<x>> /\ Append(s, x) \in Seq(T)
  BY AppendIsConcat, AppendProperties
<1>2. <<x>> \in Seq(T)
  OBVIOUS
<1>3. Count(c, s \o <<x>>) = Count(c, s) + Count(c, <<x>>)
  BY <1>2, CountSum
<1> QED BY <1>1, <1>3

-----------------------------------------------------------------------------
(* Types                                                                   *)

\* What a step polls goes from the host to the history
LEMMA PollStep ==
    ASSUME TInv, Poll
    PROVE  /\ Polled \in Seq(Char) /\ host' \in Seq(Char) /\ host = Polled \o host'
           /\ taken' = taken \o Polled /\ taken' \in Seq(Char)
           /\ pressed' \in Char \cup {Null} /\ KeyAfterPoll \in Char \cup {Null}
           /\ (~terminal \/ host = <<>> => Polled = <<>> /\ host' = host)
<1>1. host \in Seq(Char) /\ taken \in Seq(Char) /\ lastKey \in Char \cup {Null}
      /\ pressed \in Char \cup {Null}
  BY DEF TInv, KeyboardTypeOK, HistoriesOK
<1>2. /\ host' = SubSeq(host, 1 + Len(Polled), Len(host)) /\ taken' = taken \o Polled
      /\ pressed' = IF Polled = <<>> THEN pressed ELSE Polled[1]
  BY DEF Poll
<1>3. CASE terminal /\ host # <<>>
  <2>1. Polled = <<Head(host)>>
    BY <1>3 DEF Polled
  <2>2. /\ Head(host) \in Char /\ Tail(host) \in Seq(Char) /\ <<Head(host)>> \in Seq(Char)
        /\ Tail(host) = SubSeq(host, 2, Len(host)) /\ host = <<Head(host)>> \o Tail(host)
    BY <1>1, <1>3, HeadFirst
  <2>3. Len(<<Head(host)>>) = 1 /\ <<Head(host)>>[1] = Head(host) /\ <<Head(host)>> # <<>>
    BY <2>2
  <2>4. host' = Tail(host)
    BY <1>2, <2>1, <2>2, <2>3
  <2>5. taken' \in Seq(Char)
    BY <1>1, <1>2, <2>1, <2>2, ConcatProperties
  <2> QED BY <1>1, <1>2, <1>3, <2>1, <2>2, <2>3, <2>4, <2>5 DEF KeyAfterPoll
<1>4. CASE ~ (terminal /\ host # <<>>)
  <2>1. Polled = <<>>
    BY <1>4 DEF Polled
  <2>2. <<>> \in Seq(Char) /\ Len(<<>>) = 0
    OBVIOUS
  <2>3. host' = SubSeq(host, 1, Len(host))
    BY <1>2, <2>1, <2>2
  <2>4. host' = host
    BY <1>1, <2>3, SubSeqFull
  <2>5. host = <<>> \o host /\ taken' = taken
    BY <1>1, <1>2, <2>1, ConcatEmptySeq
  <2> QED BY <1>1, <1>2, <2>1, <2>2, <2>4, <2>5 DEF KeyAfterPoll
<1> QED BY <1>3, <1>4

\* std::getline finds the first end of a line in the buffer of cin
LEMMA LineStep ==
    ASSUME TInv, GetLine
    PROVE  \E n \in 1 .. Len(cin) :
              /\ cin[n] = NewLine /\ \A i \in 1 .. n - 1 : cin[i] # NewLine
              /\ buffer' = SubSeq(cin, 1, n - 1)
              /\ cin' = SubSeq(cin, n + 1, Len(cin)) /\ taken' = taken \o SubSeq(cin, 1, n)
<1> DEFINE I == {i \in 1 .. Len(cin) : cin[i] = NewLine}
<1>1. I \in SUBSET Nat /\ I # {}
  <2>1. cin \in Seq(Char) /\ HasLine
    BY DEF TInv, KeyboardTypeOK, GetLine
  <2> QED BY <2>1 DEF HasLine, ToSet
<1>2. PICK x \in I : \A y \in I : x <= y
  BY <1>1, LeastElement
<1>3. PICK n : n = SelectInSeq(cin, LAMBDA c : c = NewLine)
  OBVIOUS
<1>4. n = x
  <2>1. n = Min(I)
    BY <1>1, <1>3 DEF SelectInSeq
  <2> QED BY <1>1, <1>2, <2>1 DEF Min
<1>5. \A i \in 1 .. n - 1 : cin[i] # NewLine
  BY <1>2, <1>4
<1>6. /\ buffer' = SubSeq(cin, 1, n - 1)
      /\ cin' = SubSeq(cin, n + 1, Len(cin)) /\ taken' = taken \o SubSeq(cin, 1, n)
  BY <1>3 DEF GetLine, Returns, Rest
<1> QED BY <1>2, <1>4, <1>5, <1>6

-----------------------------------------------------------------------------
(* The ways of a character: from the host to a poll, which asks for a      *)
(* terminal, or to a reader of one character; from the host to the buffer  *)
(* of cin; from there to a reader of lines                                 *)

Goes(p) ==
    \/ /\ host = p \o host' /\ taken' = taken \o p /\ cin' = cin
       /\ terminal \/ reading = "char" \/ p = <<>>
    \/ host = p \o host' /\ cin' = cin \o p /\ taken' = taken
    \/ cin = p \o cin' /\ taken' = taken \o p /\ host' = host

\* Each step of the emulator moves some characters along one of these ways,
\* each of them the next in line.
LEMMA StepMoves ==
    ASSUME TInv, Next, ~ Type
    PROVE  /\ typed' = typed /\ terminal' = terminal
           /\ host' \in Seq(Char) /\ cin' \in Seq(Char) /\ taken' \in Seq(Char)
           /\ \E p \in Seq(Char) : Goes(p)
<1>0. /\ host \in Seq(Char) /\ cin \in Seq(Char) /\ taken \in Seq(Char)
      /\ <<>> \in Seq(Char)
  BY DEF TInv, KeyboardTypeOK, HistoriesOK
<1>1. typed' = typed /\ terminal' = terminal
  BY DEF Next, Close, Execute, SysCall, SysReturn, ReadInput, Waits, Refill, GetLine,
         GetEnd, GetChar, input
<1>2. CASE Close
  <2>1. host' = host /\ cin' = cin /\ taken' = taken
    BY <1>2 DEF Close
  <2>2. host = <<>> \o host' /\ taken' = taken \o <<>>
    BY <1>0, <2>1, ConcatEmptySeq
  <2> QED BY <1>0, <1>1, <2>1, <2>2 DEF Goes
<1>3. CASE Execute \/ SysCall \/ SysReturn \/ ReadInput
  <2>1. Poll /\ cin' = cin
    BY <1>3 DEF Execute, SysCall, SysReturn, ReadInput
  <2>2. Polled \in Seq(Char) /\ Goes(Polled)
    BY <2>1, PollStep DEF Goes, Polled
  <2> QED BY <1>0, <1>1, <2>1, <2>2, PollStep
<1>4. CASE Refill
  <2>1. PICK n \in 1 .. Len(host) : /\ cin' = cin \o SubSeq(host, 1, n)
                                    /\ host' = SubSeq(host, n + 1, Len(host))
    BY <1>4 DEF Refill
  <2>2. n \in 0 .. Len(host)
    OBVIOUS
  <2>3. /\ SubSeq(host, 1, n) \in Seq(Char) /\ host' \in Seq(Char)
        /\ host = SubSeq(host, 1, n) \o host'
    BY <1>0, <2>1, <2>2, Cut
  <2>4. taken' = taken /\ cin' \in Seq(Char)
    BY <1>0, <1>4, <2>1, <2>3, ConcatProperties DEF Refill
  <2> QED BY <1>0, <1>1, <2>1, <2>3, <2>4 DEF Goes
<1>5. CASE GetLine
  <2>1. PICK n \in 1 .. Len(cin) : /\ cin' = SubSeq(cin, n + 1, Len(cin))
                                   /\ taken' = taken \o SubSeq(cin, 1, n)
    BY <1>5, LineStep
  <2>2. n \in 0 .. Len(cin)
    OBVIOUS
  <2>3. /\ SubSeq(cin, 1, n) \in Seq(Char) /\ cin' \in Seq(Char)
        /\ cin = SubSeq(cin, 1, n) \o cin'
    BY <1>0, <2>1, <2>2, Cut
  <2>4. host' = host
    BY <1>5 DEF GetLine
  <2>5. taken' \in Seq(Char)
    <3>1. taken \o SubSeq(cin, 1, n) \in Seq(Char)
      BY <1>0, <2>3, ConcatProperties
    <3> QED BY <2>1, <3>1
  <2> QED BY <1>0, <1>1, <2>1, <2>3, <2>4, <2>5 DEF Goes
<1>6. CASE GetEnd
  <2>1. host' = host /\ cin' = <<>> /\ taken' = taken \o cin
    BY <1>6 DEF GetEnd
  <2>2. cin = cin \o cin' /\ taken' \in Seq(Char)
    BY <1>0, <2>1, ConcatEmptySeq, ConcatProperties
  <2> QED BY <1>0, <1>1, <2>1, <2>2 DEF Goes
<1>7. CASE GetChar
  <2>1. cin' = cin
    BY <1>7 DEF GetChar
  <2>2. CASE host # <<>>
    <3>1. host' = Tail(host) /\ taken' = Append(taken, Head(host))
      BY <1>7, <2>2 DEF GetChar
    <3>2. Head(host) \in Char /\ Tail(host) \in Seq(Char) /\ host = <<Head(host)>> \o Tail(host)
      BY <1>0, <2>2, HeadFirst
    <3>3. <<Head(host)>> \in Seq(Char) /\ taken' = taken \o <<Head(host)>>
          /\ taken' \in Seq(Char)
      BY <1>0, <3>1, <3>2, AppendIsConcat, AppendProperties
    <3> QED BY <1>0, <1>1, <1>7, <2>1, <3>1, <3>2, <3>3 DEF Goes, GetChar
  <2>3. CASE host = <<>>
    <3>1. host' = host /\ taken' = taken
      BY <1>7, <2>3 DEF GetChar
    <3>2. host = <<>> \o host' /\ taken' = taken \o <<>>
      BY <1>0, <3>1, ConcatEmptySeq
    <3> QED BY <1>0, <1>1, <2>1, <3>1, <3>2 DEF Goes
  <2> QED BY <2>2, <2>3
<1> QED BY <1>2, <1>3, <1>4, <1>5, <1>6, <1>7 DEF Next, Waits

\* What is typed goes to the host.
LEMMA TypeStep ==
    ASSUME TInv, Type
    PROVE  \E c \in Char : /\ typed' = Append(typed, c) /\ typed' \in Seq(Char)
                           /\ host' = Append(host, c) /\ host' \in Seq(Char)
                           /\ cin' = cin /\ taken' = taken
<1>1. PICK c \in Char : typed' = Append(typed, c) /\ host' = Append(host, c)
  BY DEF Type
<1>2. host \in Seq(Char) /\ typed \in Seq(Char)
  BY DEF TInv, KeyboardTypeOK
<1>3. Append(typed, c) \in Seq(Char) /\ Append(host, c) \in Seq(Char)
  BY <1>2, AppendProperties
<1> QED BY <1>1, <1>3 DEF Type

-----------------------------------------------------------------------------
(* Types *)

\* Every step keeps the types
LEMMA TypesKept == ASSUME TInv, [Next]_vars PROVE TInv'
<1> USE KeyboardConstants DEF input
<1>0. /\ host \in Seq(Char) /\ cin \in Seq(Char) /\ taken \in Seq(Char)
      /\ lines \in Seq(Seq(Char)) /\ typed \in Seq(Char)
  BY DEF TInv, KeyboardTypeOK, HistoriesOK
<1>1. CASE Type
  <2>1. ~closed /\ typed' \in Seq(Char) /\ host' \in Seq(Char) /\ ~eof
    BY <1>1, TypeStep DEF Type, TInv, KeyboardTypeOK
  <2> QED BY <1>1, <2>1 DEF Type, TInv, KeyboardTypeOK, HistoriesOK
<1>2. CASE Close
  BY <1>2 DEF Close, TInv, KeyboardTypeOK, HistoriesOK
<1>3. CASE Execute \/ SysCall \/ SysReturn \/ ReadInput
  <2>1. Poll /\ Steps
    BY <1>3 DEF Execute, SysCall, SysReturn, ReadInput
  <2>2. /\ host' \in Seq(Char) /\ taken' \in Seq(Char) /\ pressed' \in Char \cup {Null}
        /\ KeyAfterPoll \in Char \cup {Null}
    BY <2>1, PollStep
  <2>3. running /\ reading = "-" /\ ~eof
    BY <2>1 DEF Steps, TInv, KeyboardTypeOK
  <2>4. /\ UNCHANGED <<terminal, typed, closed, cin, eof, running, buffer, lines>>
        /\ lastKey' \in Char \cup {Null} /\ saved' \in Char \cup {Null}
    BY <1>3, <2>2 DEF Execute, SysCall, SysReturn, ReadInput, TInv, KeyboardTypeOK
  <2>5. /\ mode' \in {"user", "kernel"} /\ reading' \in {"-", "line", "char"}
        /\ reading' # "-" => mode' = "kernel"
    BY <1>3, <2>3 DEF Execute, SysCall, SysReturn, ReadInput, Mode, TInv, KeyboardTypeOK
  <2> QED BY <2>2, <2>3, <2>4, <2>5 DEF TInv, KeyboardTypeOK, HistoriesOK
<1>4. CASE Waits
  <2>1. host' \in Seq(Char) /\ cin' \in Seq(Char) /\ taken' \in Seq(Char)
    <3>1. Next /\ ~ Type
      <4>1. typed' = typed
        BY <1>4 DEF Waits, Refill, GetLine, GetEnd, GetChar
      <4>2. ~ Type
        <5> SUFFICES ASSUME Type PROVE FALSE
          OBVIOUS
        <5>1. PICK c \in Char : typed' = Append(typed, c)
          BY DEF Type
        <5>2. Len(typed') = Len(typed) + 1 /\ Len(typed) \in Nat
          BY <1>0, <5>1, AppendProperties
        <5> QED BY <4>1, <5>2
      <4> QED BY <1>4, <4>2 DEF Next
    <3> QED BY <3>1, StepMoves
  <2>2. UNCHANGED <<terminal, typed, closed, mode, lastKey, saved, pressed>>
    BY <1>4 DEF Waits, Refill, GetLine, GetEnd, GetChar, AtCpuRest
  <2>3. /\ eof' \in BOOLEAN /\ running' = ~eof' /\ (eof' => closed' /\ host' = <<>>)
        /\ reading' \in {"-", "line", "char"} /\ mode' = "kernel"
    <3>0. running = TRUE /\ eof = FALSE /\ reading \in {"line", "char"} /\ mode = "kernel"
      <4>1. running /\ reading \in {"line", "char"}
        BY <1>4 DEF Waits, Refill, GetLine, GetEnd, GetChar
      <4>2. running = ~eof /\ eof \in BOOLEAN /\ (reading # "-" => mode = "kernel")
        BY DEF TInv, KeyboardTypeOK
      <4>3. running = TRUE /\ eof = FALSE
        BY <4>1, <4>2, Zenon
      <4> QED BY <4>1, <4>2, <4>3
    <3>1. \/ eof' = FALSE /\ running' = TRUE
          \/ eof' = TRUE /\ running' = FALSE /\ closed /\ host' = <<>>
      <4>1. CASE Refill \/ GetLine \/ GetChar
        BY <3>0, <4>1 DEF Refill, GetLine, GetChar
      <4>2. CASE GetEnd
        BY <4>2 DEF GetEnd, NoMoreLines
      <4> QED BY <1>4, <4>1, <4>2 DEF Waits
    <3>2. reading' \in {"-", "line", "char"}
      BY <1>4, <3>0 DEF Waits, Refill, GetLine, GetEnd, GetChar, Returns
    <3>3. eof' \in BOOLEAN /\ running' = ~eof' /\ (eof' => closed /\ host' = <<>>)
      BY <3>1, Zenon
    <3> QED BY <2>2, <3>0, <3>2, <3>3
  <2>4. /\ buffer' \in Seq(Char \cup {Null}) /\ lines' \in Seq(Seq(Char))
        /\ NewLine \in ToSet(buffer') => Len(buffer') = 1
    <3>1. CASE Refill \/ GetEnd
      BY <3>1 DEF Refill, GetEnd, TInv, KeyboardTypeOK, HistoriesOK
    <3>2. CASE GetLine
      <4>1. PICK n \in 1 .. Len(cin) : /\ \A i \in 1 .. n - 1 : cin[i] # NewLine
                                       /\ buffer' = SubSeq(cin, 1, n - 1)
        BY <3>2, LineStep
      <4>2. n - 1 \in 0 .. Len(cin)
        OBVIOUS
      <4>3. /\ buffer' \in Seq(Char) /\ Len(buffer') = n - 1
            /\ \A i \in 1 .. n - 1 : buffer'[i] = cin[i]
        BY <1>0, <4>1, <4>2, Cut
      <4>4. NewLine \notin ToSet(buffer')
        <5>1. DOMAIN buffer' = 1 .. n - 1
          BY <4>3
        <5> QED BY <4>1, <4>3, <5>1 DEF ToSet
      <4>5. buffer' \in Seq(Char \cup {Null})
        BY <4>3
      <4>6. lines' \in Seq(Seq(Char))
        BY <1>0, <3>2, <4>3, AppendProperties DEF GetLine
      <4> QED BY <4>4, <4>5, <4>6
    <3>3. CASE GetChar
      <4>1. lines' = lines
        BY <3>3 DEF GetChar
      <4>2. PICK x \in Char \cup {Null} : buffer' = <<x>>
        <5>1. CASE host # <<>>
          BY <1>0, <3>3, <5>1, HeadTailProperties DEF GetChar, Returns
        <5>2. CASE host = <<>>
          BY <3>3, <5>2 DEF GetChar, Returns
        <5> QED BY <5>1, <5>2
      <4> QED BY <1>0, <4>1, <4>2
    <3> QED BY <1>4, <3>1, <3>2, <3>3 DEF Waits
  <2> QED BY <2>1, <2>2, <2>3, <2>4 DEF TInv, KeyboardTypeOK, HistoriesOK
<1>5. CASE UNCHANGED vars
  BY <1>5 DEF vars, TInv, KeyboardTypeOK, HistoriesOK
<1> QED BY <1>1, <1>2, <1>3, <1>4, <1>5 DEF Next

\* The types hold in the initial state
LEMMA TypesStart == Init => TInv
<1> SUFFICES ASSUME Init PROVE TInv
  OBVIOUS
<1>1. <<>> \in Seq(Char) /\ <<>> \in Seq(Char \cup {Null}) /\ <<>> \in Seq(Seq(Char))
  OBVIOUS
<1>2. NewLine \notin ToSet(<<>>)
  BY DEF ToSet
<1> QED BY <1>1, <1>2 DEF Init, TInv, KeyboardTypeOK, HistoriesOK

\* They are an invariant of the specification
LEMMA TypesHold == Spec => []TInv
<1>1. TInv /\ [Next]_vars => TInv'
  BY TypesKept
<1> QED BY <1>1, TypesStart, PTL DEF Spec

\* The keyboard has its types for every alphabet and inputs of any length: in
\* particular the CPU stops at the end of the input only, and only the kernel
\* waits for a read.
THEOREM Types == Spec => []KeyboardTypeOK
<1>1. TInv => KeyboardTypeOK
  BY DEF TInv
<1> QED BY <1>1, TypesHold, PTL

-----------------------------------------------------------------------------
(* Each character is consumed once                                         *)

Balance == \A c \in Char : Count(c, taken) + Count(c, cin) + Count(c, host) = Count(c, typed)

\* What goes from one place to the next is missing in the one and counted in
\* the other.
LEMMA BalanceKept == ASSUME TInv, Balance, [Next]_vars PROVE Balance'
<1>0. /\ host \in Seq(Char) /\ cin \in Seq(Char) /\ taken \in Seq(Char)
      /\ typed \in Seq(Char)
  BY DEF TInv, KeyboardTypeOK, HistoriesOK
<1>1. SUFFICES ASSUME NEW c \in Char
               PROVE  Count(c, taken') + Count(c, cin') + Count(c, host') = Count(c, typed')
  BY DEF Balance, Count
<1>2. Count(c, taken) + Count(c, cin) + Count(c, host) = Count(c, typed)
  BY DEF Balance
<1>3. /\ Count(c, taken) \in Nat /\ Count(c, cin) \in Nat /\ Count(c, host) \in Nat
      /\ Count(c, typed) \in Nat
  BY <1>0, CountIsNum
<1>4. CASE Type
  <2>1. PICK x \in Char : /\ typed' = Append(typed, x) /\ host' = Append(host, x)
                          /\ cin' = cin /\ taken' = taken
    BY <1>4, TypeStep
  <2>2. /\ Count(c, Append(typed, x)) = Count(c, typed) + Count(c, <<x>>)
        /\ Count(c, Append(host, x)) = Count(c, host) + Count(c, <<x>>)
        /\ Count(c, <<x>>) \in Nat
    BY <1>0, CountAppend, CountOne, CountIsNum
  <2> QED BY <1>2, <1>3, <2>1, <2>2
<1>5. CASE Next /\ ~ Type
  <2>1. host' \in Seq(Char) /\ cin' \in Seq(Char) /\ taken' \in Seq(Char)
    BY <1>5, StepMoves
  <2>7. Count(c, typed') = Count(c, typed)
    BY <1>5, StepMoves
  <2>2. PICK p \in Seq(Char) : Goes(p)
    BY <1>5, StepMoves
  <2>3. Count(c, p) \in Nat /\ Count(c, host') \in Nat /\ Count(c, cin') \in Nat
        /\ Count(c, taken') \in Nat
    BY <2>1, CountIsNum
  <2>4. CASE host = p \o host' /\ taken' = taken \o p /\ cin' = cin
    <3>1. Count(c, host) = Count(c, p) + Count(c, host')
      <4>1. Count(c, p \o host') = Count(c, p) + Count(c, host')
        BY <2>1, CountSum
      <4> QED BY <2>4, <4>1
    <3>2. Count(c, taken') = Count(c, taken) + Count(c, p)
      <4>1. Count(c, taken \o p) = Count(c, taken) + Count(c, p)
        BY <1>0, CountSum
      <4> QED BY <2>4, <4>1
    <3>3. Count(c, cin') = Count(c, cin)
      BY <2>4
    <3> QED BY <1>2, <1>3, <2>3, <2>7, <3>1, <3>2, <3>3
  <2>5. CASE host = p \o host' /\ cin' = cin \o p /\ taken' = taken
    <3>1. Count(c, host) = Count(c, p) + Count(c, host')
      <4>1. Count(c, p \o host') = Count(c, p) + Count(c, host')
        BY <2>1, CountSum
      <4> QED BY <2>5, <4>1
    <3>2. Count(c, cin') = Count(c, cin) + Count(c, p)
      <4>1. Count(c, cin \o p) = Count(c, cin) + Count(c, p)
        BY <1>0, CountSum
      <4> QED BY <2>5, <4>1
    <3>3. Count(c, taken') = Count(c, taken)
      BY <2>5
    <3> QED BY <1>2, <1>3, <2>3, <2>7, <3>1, <3>2, <3>3
  <2>6. CASE cin = p \o cin' /\ taken' = taken \o p /\ host' = host
    <3>1. Count(c, cin) = Count(c, p) + Count(c, cin')
      <4>1. Count(c, p \o cin') = Count(c, p) + Count(c, cin')
        BY <2>1, CountSum
      <4> QED BY <2>6, <4>1
    <3>2. Count(c, taken') = Count(c, taken) + Count(c, p)
      <4>1. Count(c, taken \o p) = Count(c, taken) + Count(c, p)
        BY <1>0, CountSum
      <4> QED BY <2>6, <4>1
    <3>3. Count(c, host') = Count(c, host)
      BY <2>6
    <3> QED BY <1>2, <1>3, <2>3, <2>7, <3>1, <3>2, <3>3
  <2> QED BY <2>2, <2>4, <2>5, <2>6 DEF Goes
<1>6. CASE UNCHANGED vars
  BY <1>2, <1>6 DEF vars, input
<1> QED BY <1>4, <1>5, <1>6

\* Nothing has been typed and nothing read at first
LEMMA BalanceStarts == Init => Balance
<1> SUFFICES ASSUME Init, NEW c \in Char PROVE Count(c, <<>>) + Count(c, <<>>) + Count(c, <<>>) = Count(c, <<>>)
  BY DEF Init, Balance
<1>1. Count(c, <<>>) = 0
  BY CountOne
<1> QED BY <1>1

\* Each character of the input is consumed once, by a poll, by the reader of a
\* character or by the reader of lines, or is still to come, however the steps
\* of the CPU and the typing interleave.
THEOREM EachReadOnce == Spec => []EachOnce
<1>1. TInv /\ Balance => EachOnce
  <2> SUFFICES ASSUME TInv, Balance, NEW c \in Char
               PROVE  Count(c, taken \o cin \o host) = Count(c, typed)
    BY DEF EachOnce
  <2>1. /\ host \in Seq(Char) /\ cin \in Seq(Char) /\ taken \in Seq(Char)
    BY DEF TInv, KeyboardTypeOK, HistoriesOK
  <2>2. taken \o cin \in Seq(Char) /\ Count(c, taken \o cin) = Count(c, taken) + Count(c, cin)
    BY <2>1, CountSum, ConcatProperties
  <2>3. Count(c, (taken \o cin) \o host) = Count(c, taken \o cin) + Count(c, host)
    BY <2>1, <2>2, CountSum
  <2> QED BY <2>2, <2>3 DEF Balance
<1>2. TInv /\ Balance /\ [Next]_vars => Balance'
  BY BalanceKept
<1> QED BY <1>1, <1>2, BalanceStarts, TypesHold, PTL DEF Spec

-----------------------------------------------------------------------------
(* The lines of a text                                                     *)

\* Two cuts with the same elements are equal
LEMMA SameCut ==
    ASSUME NEW T, NEW s, NEW t, NEW m \in Int, NEW n \in Int, NEW a \in Int, NEW b \in Int,
           a - m = b - n, \A i \in m .. n : s[i] \in T /\ s[i] = t[i + (a - m)]
    PROVE  SubSeq(t, a, b) = SubSeq(s, m, n)
<1> DEFINE u == SubSeq(s, m, n)
           v == SubSeq(t, a, b)
<1>1. /\ u \in Seq(T) /\ Len(u) = (IF m <= n THEN n - m + 1 ELSE 0)
      /\ \A i \in 1 .. n - m + 1 : u[i] = s[m + i - 1]
  BY SubSeqProperties
<1>2. /\ v \in Seq(T) /\ Len(v) = (IF a <= b THEN b - a + 1 ELSE 0)
      /\ \A i \in 1 .. b - a + 1 : v[i] = t[a + i - 1]
  <2>1. \A i \in a .. b : t[i] \in T
    <3> SUFFICES ASSUME NEW i \in a .. b PROVE t[i] \in T
      OBVIOUS
    <3>1. i - (a - m) \in m .. n /\ (i - (a - m)) + (a - m) = i
      OBVIOUS
    <3> QED BY <3>1
  <2> QED BY <2>1, SubSeqProperties
<1> HIDE DEF u, v
<1>3. Len(v) = Len(u)
  BY <1>1, <1>2
<1>4. ASSUME NEW i \in 1 .. Len(u) PROVE v[i] = u[i]
  <2>1. i \in 1 .. n - m + 1 /\ i \in 1 .. b - a + 1
    BY <1>1
  <2>2. m + i - 1 \in m .. n /\ (m + i - 1) + (a - m) = a + i - 1
    BY <2>1
  <2> QED BY <1>1, <1>2, <2>1, <2>2
<1>5. v = u
  BY <1>1, <1>2, <1>3, <1>4, SeqEqual
<1> QED BY <1>5 DEF u, v

\* Where line k of s ends
EndOf(s, k) ==
    IF k = 0 THEN 0
    ELSE CHOOSE i \in DOMAIN s : s[i] = NewLine /\ Count(NewLine, SubSeq(s, 1, i)) = k

\* LinesOf with the ends by name
LEMMA LinesOfEnds ==
    ASSUME NEW s
    PROVE  LinesOf(s) = [k \in 1 .. Count(NewLine, s) |->
                            SubSeq(s, EndOf(s, k - 1) + 1, EndOf(s, k) - 1)]
BY DEF LinesOf, EndOf

\* The ends of lines in the first i characters
LEMMA CountCut ==
    ASSUME NEW s \in Seq(Char), NEW i \in 0 .. Len(s)
    PROVE  Count(NewLine, SubSeq(s, 1, i)) = Num(s, NL, i)
<1> DEFINE u == SubSeq(s, 1, i)
<1>1. u \in Seq(Char) /\ Len(u) = i /\ \A j \in 1 .. i : u[j] = s[j]
  BY Cut
<1> HIDE DEF u
<1>2. Count(NewLine, u) = Num(u, NL, i)
  BY <1>1, CountIsNum DEF NL
<1>3. i \in Nat /\ \A j \in 1 .. i : u[j] \in NL <=> s[j] \in NL
  BY <1>1, LenProperties
<1>4. Num(u, NL, i) = Num(s, NL, i)
  BY <1>3, NumSame
<1> QED BY <1>2, <1>4 DEF u

\* A line ends at one place
LEMMA EndIs ==
    ASSUME NEW s \in Seq(Char), NEW i \in 1 .. Len(s), s[i] = NewLine
    PROVE  Num(s, NL, i) \in Nat \ {0} /\ EndOf(s, Num(s, NL, i)) = i
<1> DEFINE k == Num(s, NL, i)
           P(e) == s[e] = NewLine /\ Count(NewLine, SubSeq(s, 1, e)) = k
<1>0. Len(s) \in Nat /\ i \in Nat /\ i \in 0 .. Len(s) /\ s[i] \in NL /\ DOMAIN s = 1 .. Len(s)
  BY LenProperties DEF NL
<1>1. k \in Nat \ {0}
  <2>1. Num(s, NL, 0) < Num(s, NL, i)
    <3>1. 0 < i
      OBVIOUS
    <3> QED BY <1>0, <3>1, NumStrict
  <2>2. Num(s, NL, 0) = 0 /\ Num(s, NL, i) \in Nat
    BY <1>0, NumStep, NumIsFinite
  <2> QED BY <2>1, <2>2
<1>2. P(i)
  BY <1>0, CountCut
<1>3. ASSUME NEW e \in 1 .. Len(s), P(e) PROVE e = i
  <2>1. e \in Nat /\ e \in 0 .. Len(s) /\ s[e] \in NL
    BY <1>3 DEF NL
  <2>2. Num(s, NL, e) = Num(s, NL, i)
    BY <1>3, <2>1, CountCut
  <2>3. Num(s, NL, e) \in Nat /\ Num(s, NL, i) \in Nat
    BY <1>0, <2>1, NumIsFinite
  <2>4. ~ (e < i)
    BY <1>0, <2>1, <2>2, <2>3, NumStrict
  <2>5. ~ (i < e)
    BY <1>0, <2>1, <2>2, <2>3, NumStrict
  <2> QED BY <1>0, <2>1, <2>4, <2>5
<1>4. EndOf(s, k) = CHOOSE e \in DOMAIN s : P(e)
  BY <1>1 DEF EndOf
<1> HIDE DEF k, P
<1>5. (CHOOSE e \in DOMAIN s : P(e)) = i
  BY <1>0, <1>2, <1>3
<1> QED BY <1>1, <1>4, <1>5 DEF k

\* Each line up to the last that is finished has an end
LEMMA EndExists ==
    ASSUME NEW s \in Seq(Char), NEW k \in 1 .. Count(NewLine, s)
    PROVE  \E i \in 1 .. Len(s) : s[i] = NewLine /\ Num(s, NL, i) = k /\ EndOf(s, k) = i
<1>1. Count(NewLine, s) = Num(s, NL, Len(s)) /\ Len(s) \in Nat
  BY CountIsNum, LenProperties DEF NL
<1>2. PICK i \in 1 .. Len(s) : s[i] \in NL /\ Num(s, NL, i) = k
  BY <1>1, NumReaches
<1>3. s[i] = NewLine
  BY <1>2 DEF NL
<1> QED BY <1>2, <1>3, EndIs

\* More text leaves the ends of the lines where they are
LEMMA EndStays ==
    ASSUME NEW s \in Seq(Char), NEW t \in Seq(Char), NEW k \in 0 .. Count(NewLine, s)
    PROVE  EndOf(s, k) \in 0 .. Len(s) /\ EndOf(s \o t, k) = EndOf(s, k)
<1>0. Len(s) \in Nat /\ Len(t) \in Nat
  BY LenProperties
<1>1. CASE k = 0
  BY <1>0, <1>1 DEF EndOf
<1>2. CASE k # 0
  <2> DEFINE u == s \o t
  <2>1. /\ u \in Seq(Char) /\ Len(u) = Len(s) + Len(t)
        /\ \A i \in 1 .. Len(s) : u[i] = s[i]
    BY <1>0, ConcatProperties
  <2>2. k \in 1 .. Count(NewLine, s)
    BY <1>2
  <2>3. PICK i \in 1 .. Len(s) : s[i] = NewLine /\ Num(s, NL, i) = k /\ EndOf(s, k) = i
    BY <2>2, EndExists
  <2> HIDE DEF u
  <2>4. Num(u, NL, i) = Num(s, NL, i)
    <3>1. i \in Nat /\ \A j \in 1 .. i : u[j] \in NL <=> s[j] \in NL
      BY <1>0, <2>1
    <3> QED BY <3>1, NumSame
  <2>5. i \in 1 .. Len(u) /\ u[i] = NewLine
    BY <1>0, <2>1, <2>3
  <2>6. EndOf(u, Num(u, NL, i)) = i
    BY <2>1, <2>5, EndIs
  <2>7. i \in 0 .. Len(s)
    BY <1>0
  <2> QED BY <2>3, <2>4, <2>6, <2>7 DEF u
<1> QED BY <1>1, <1>2

\* The lines are texts, as many as have an end
LEMMA LinesAreTexts ==
    ASSUME NEW s \in Seq(Char)
    PROVE  LinesOf(s) \in Seq(Seq(Char)) /\ Len(LinesOf(s)) = Count(NewLine, s)
<1> DEFINE N == Count(NewLine, s)
<1>1. N \in Nat /\ Len(s) \in Nat /\ \A i \in 1 .. Len(s) : s[i] \in Char
  BY CountIsNum, LenProperties
<1>2. ASSUME NEW k \in 1 .. N
      PROVE  SubSeq(s, EndOf(s, k - 1) + 1, EndOf(s, k) - 1) \in Seq(Char)
  <2>1. <<>> \in Seq(Char) /\ k \in 0 .. N /\ k - 1 \in 0 .. N
    BY <1>1
  <2>2. EndOf(s, k - 1) \in 0 .. Len(s) /\ EndOf(s, k) \in 0 .. Len(s)
    BY <2>1, EndStays
  <2>3. /\ EndOf(s, k - 1) + 1 \in Int /\ EndOf(s, k) - 1 \in Int
        /\ \A i \in EndOf(s, k - 1) + 1 .. EndOf(s, k) - 1 : s[i] \in Char
    BY <1>1, <2>2
  <2> QED BY <2>3, SubSeqProperties
<1>3. LinesOf(s) = [k \in 1 .. N |-> SubSeq(s, EndOf(s, k - 1) + 1, EndOf(s, k) - 1)]
  BY LinesOfEnds
<1> HIDE DEF N
<1>4. LinesOf(s) \in [1 .. N -> Seq(Char)]
  BY <1>2, <1>3
<1>5. LinesOf(s) \in Seq(Seq(Char)) /\ Len(LinesOf(s)) = N
  BY <1>1, <1>4
<1> QED BY <1>5 DEF N

\* More text leaves the lines as they are
LEMMA LinesStay ==
    ASSUME NEW s \in Seq(Char), NEW t \in Seq(Char)
    PROVE  /\ Count(NewLine, s \o t) >= Count(NewLine, s)
           /\ \A k \in 1 .. Count(NewLine, s) : LinesOf(s \o t)[k] = LinesOf(s)[k]
<1> DEFINE u == s \o t
<1>1. /\ u \in Seq(Char) /\ Len(s) \in Nat /\ Len(t) \in Nat
      /\ \A i \in 1 .. Len(s) : s[i] \in Char /\ u[i] = s[i]
  BY ConcatProperties, LenProperties
<1>2. /\ Count(NewLine, u) = Count(NewLine, s) + Count(NewLine, t)
      /\ Count(NewLine, s) \in Nat /\ Count(NewLine, t) \in Nat
  BY CountSum, CountIsNum
<1>3. ASSUME NEW k \in 1 .. Count(NewLine, s) PROVE LinesOf(u)[k] = LinesOf(s)[k]
  <2>1. k \in 0 .. Count(NewLine, s) /\ k - 1 \in 0 .. Count(NewLine, s)
        /\ k \in 1 .. Count(NewLine, u)
    BY <1>2
  <2>2. PICK a : a = EndOf(s, k - 1) + 1
    OBVIOUS
  <2>3. PICK b : b = EndOf(s, k) - 1
    OBVIOUS
  <2>4. /\ a \in Int /\ b \in Int /\ a \in 1 .. Len(s) + 1 /\ b <= Len(s)
        /\ EndOf(u, k - 1) + 1 = a /\ EndOf(u, k) - 1 = b
    BY <1>1, <2>1, <2>2, <2>3, EndStays
  <2> HIDE DEF u
  <2>5. LinesOf(s)[k] = SubSeq(s, a, b) /\ LinesOf(u)[k] = SubSeq(u, a, b)
    BY <2>1, <2>2, <2>3, <2>4, LinesOfEnds
  <2>6. a - a = b - b /\ \A i \in a .. b : s[i] \in Char /\ s[i] = u[i + (a - a)]
    BY <1>1, <2>4
  <2>7. SubSeq(u, a, b) = SubSeq(s, a, b)
    BY <2>4, <2>6, SameCut
  <2> QED BY <2>5, <2>7
<1> QED BY <1>2, <1>3

\* Characters that do not end a line add none
LEMMA LinesSame ==
    ASSUME NEW s \in Seq(Char), NEW t \in Seq(Char), NewLine \notin ToSet(t)
    PROVE  LinesOf(s \o t) = LinesOf(s)
<1>1. Count(NewLine, t) = 0
  <2>1. {i \in DOMAIN t : t[i] = NewLine} = {}
    BY DEF ToSet
  <2> QED BY <2>1, FS_EmptySet DEF Count
<1>2. Count(NewLine, s \o t) = Count(NewLine, s) /\ Count(NewLine, s) \in Nat
  <2>1. Count(NewLine, s \o t) = Count(NewLine, s) + Count(NewLine, t)
    BY CountSum
  <2>2. Count(NewLine, s) \in Nat
    BY CountIsNum
  <2> QED BY <1>1, <2>1, <2>2
<1>3. s \o t \in Seq(Char)
  BY ConcatProperties
<1>4. PICK u \in Seq(Char) : u = s \o t
  BY <1>3
<1>5. /\ LinesOf(u) \in Seq(Seq(Char)) /\ LinesOf(s) \in Seq(Seq(Char))
      /\ Len(LinesOf(u)) = Count(NewLine, u) /\ Len(LinesOf(s)) = Count(NewLine, s)
  BY LinesAreTexts
<1>6. \A k \in 1 .. Len(LinesOf(u)) : LinesOf(u)[k] = LinesOf(s)[k]
  <2>1. \A k \in 1 .. Count(NewLine, s) : LinesOf(s \o t)[k] = LinesOf(s)[k]
    BY LinesStay
  <2> QED BY <1>2, <1>4, <1>5, <2>1
<1>7. LinesOf(u) = LinesOf(s)
  BY <1>2, <1>4, <1>5, <1>6, SeqEqual
<1> QED BY <1>4, <1>7

EndsLine(s) == s = <<>> \/ s[Len(s)] = NewLine

\* A whole line behind whole lines is one line more
LEMMA LinesGrow ==
    ASSUME NEW s \in Seq(Char), EndsLine(s), NEW p \in Seq(Char), p # <<>>,
           p[Len(p)] = NewLine, \A i \in 1 .. Len(p) - 1 : p[i] # NewLine
    PROVE  /\ LinesOf(s \o p) = Append(LinesOf(s), SubSeq(p, 1, Len(p) - 1))
           /\ EndsLine(s \o p)
<1>0. Len(s) \in Nat /\ Len(p) \in Nat \ {0}
  BY LenProperties, EmptySeq
<1>1. PICK u : u = s \o p
  OBVIOUS
<1>2. PICK K : K = Count(NewLine, s)
  OBVIOUS
<1>3. PICK m : m = Len(s)
  OBVIOUS
<1>4. PICK n : n = Len(p)
  OBVIOUS
<1>5. /\ u \in Seq(Char) /\ Len(u) = m + n /\ m \in Nat /\ n \in Nat \ {0}
      /\ \A i \in 1 .. m + n : u[i] = IF i <= m THEN s[i] ELSE p[i - m]
      /\ \A i \in 1 .. n : p[i] \in Char
  BY <1>0, <1>1, <1>3, <1>4, ConcatProperties, LenProperties
<1>6. \A i \in 1 .. n : u[i + m] = p[i]
  <2> SUFFICES ASSUME NEW i \in 1 .. n PROVE u[i + m] = p[i]
    OBVIOUS
  <2>1. i + m \in 1 .. m + n /\ ~ (i + m <= m) /\ (i + m) - m = i
    BY <1>5
  <2> QED BY <1>5, <2>1
<1>7. u[m + n] = NewLine /\ m + n \in 1 .. Len(u)
  <2>1. n \in 1 .. n /\ n + m = m + n
    BY <1>5
  <2> QED BY <1>4, <1>5, <1>6, <2>1
<1>8. Count(NewLine, p) = 1
  <2>1. {i \in DOMAIN p : p[i] = NewLine} = {n}
    <3>1. DOMAIN p = 1 .. n
      BY <1>4, LenProperties
    <3> QED BY <1>4, <1>5, <3>1
  <2> QED BY <2>1, FS_Singleton DEF Count
<1>9. K \in Nat /\ Count(NewLine, u) = K + 1 /\ Num(u, NL, m + n) = K + 1
  <2>1. Count(NewLine, s) \in Nat /\ Count(NewLine, u) = Count(NewLine, s) + 1
    <3>1. Count(NewLine, s \o p) = Count(NewLine, s) + Count(NewLine, p)
      BY CountSum
    <3>2. Count(NewLine, s) \in Nat
      BY CountIsNum
    <3> QED BY <1>1, <1>8, <3>1, <3>2
  <2>2. Count(NewLine, u) = Num(u, NL, m + n)
    BY <1>5, CountIsNum DEF NL
  <2> QED BY <1>2, <2>1, <2>2
<1>10. EndOf(u, K + 1) = m + n
  BY <1>5, <1>7, <1>9, EndIs
<1>11. EndOf(u, K) = m
  <2>1. K \in 0 .. Count(NewLine, s)
    BY <1>2, <1>9
  <2>2. EndOf(u, K) = EndOf(s, K)
    BY <1>1, <2>1, EndStays
  <2>3. CASE s = <<>>
    <3>1. m = 0 /\ K = 0
      BY <1>2, <1>3, <2>3, CountOne, EmptySeq
    <3> QED BY <2>2, <3>1 DEF EndOf
  <2>4. CASE s # <<>>
    <3>1. s[m] = NewLine /\ m \in 1 .. Len(s)
      BY <1>3, <1>5, <2>4, EmptySeq DEF EndsLine
    <3>2. EndOf(s, Num(s, NL, m)) = m
      BY <3>1, EndIs
    <3>3. Num(s, NL, m) = K
      BY <1>2, <1>3, CountIsNum DEF NL
    <3> QED BY <2>2, <3>2, <3>3
  <2> QED BY <2>3, <2>4
<1>12. LinesOf(u)[K + 1] = SubSeq(p, 1, n - 1)
  <2>1. PICK k : k = K + 1
    OBVIOUS
  <2>2. PICK a : a = m + 1
    OBVIOUS
  <2>3. PICK b : b = m + n - 1
    OBVIOUS
  <2>4. PICK j : j = n - 1
    OBVIOUS
  <2>5. LinesOf(u)[k] = SubSeq(u, a, b)
    <3>1. k \in 1 .. Count(NewLine, u) /\ k - 1 = K
      BY <1>9, <2>1
    <3>2. LinesOf(u)[k] = SubSeq(u, EndOf(u, k - 1) + 1, EndOf(u, k) - 1)
      BY <3>1, LinesOfEnds
    <3>3. EndOf(u, k - 1) = m /\ EndOf(u, k) = m + n
      BY <1>10, <1>11, <2>1, <3>1
    <3>4. EndOf(u, k - 1) + 1 = a /\ EndOf(u, k) - 1 = b
      BY <1>5, <2>2, <2>3, <3>3
    <3> QED BY <3>2, <3>4
  <2>6. /\ 1 \in Int /\ j \in Int /\ a \in Int /\ b \in Int /\ a - 1 = b - j
        /\ \A i \in 1 .. j : p[i] \in Char /\ p[i] = u[i + (a - 1)]
    BY <1>5, <1>6, <2>2, <2>3, <2>4
  <2>7. SubSeq(u, a, b) = SubSeq(p, 1, j)
    BY <2>6, SameCut
  <2> QED BY <2>1, <2>4, <2>5, <2>7
<1>13. LinesOf(u) = Append(LinesOf(s), SubSeq(p, 1, n - 1))
  <2>1. PICK l : l = SubSeq(p, 1, n - 1)
    OBVIOUS
  <2>2. l \in Seq(Char)
    <3>1. n - 1 \in 0 .. Len(p)
      BY <1>4, <1>5
    <3> QED BY <2>1, <3>1, Cut
  <2>3. /\ LinesOf(u) \in Seq(Seq(Char)) /\ LinesOf(s) \in Seq(Seq(Char))
        /\ Len(LinesOf(u)) = K + 1 /\ Len(LinesOf(s)) = K
    BY <1>2, <1>5, <1>9, LinesAreTexts
  <2>4. PICK a : a = Append(LinesOf(s), l)
    OBVIOUS
  <2>5. /\ a \in Seq(Seq(Char)) /\ Len(a) = K + 1 /\ a[K + 1] = l
        /\ \A i \in 1 .. K : a[i] = LinesOf(s)[i]
    BY <2>2, <2>3, <2>4, AppendProperties
  <2>6. ASSUME NEW i \in 1 .. K + 1 PROVE LinesOf(u)[i] = a[i]
    <3>1. CASE i = K + 1
      BY <1>12, <2>1, <2>5, <3>1
    <3>2. CASE i # K + 1
      <4>1. i \in 1 .. K
        BY <1>9, <3>2
      <4>2. LinesOf(u)[i] = LinesOf(s)[i]
        BY <1>1, <1>2, <4>1, LinesStay
      <4> QED BY <2>5, <4>1, <4>2
    <3> QED BY <3>1, <3>2
  <2>7. LinesOf(u) = a
    BY <2>3, <2>5, <2>6, SeqEqual
  <2> QED BY <2>1, <2>4, <2>7
<1>14. EndsLine(u)
  BY <1>5, <1>7 DEF EndsLine
<1> QED BY <1>1, <1>4, <1>13, <1>14

-----------------------------------------------------------------------------
(* A script that is piped in                                               *)

Script == ~terminal /\ LinesOnly

\* Nothing of a script gets lost before the reader of lines, nobody asks for a
\* character, and what has been taken are the lines that were returned, until
\* the end of the input takes the rest.
ScriptInv ==
    Script =>
        /\ typed = (taken \o cin) \o host
        /\ reading # "char" /\ buffer # CharWord
        /\ lines = LinesOf(taken)
        /\ IF eof THEN cin = <<>> ELSE EndsLine(taken)

\* A script stays one only as long as it has been one
LEMMA ScriptBefore == ASSUME TInv, [Next]_vars, Script' PROVE Script
<1>1. lines \in Seq(Seq(Char)) /\ cin \in Seq(Char)
  BY DEF TInv, KeyboardTypeOK, HistoriesOK
<1>2. terminal' = terminal
  BY DEF Next, Type, Close, Execute, SysCall, SysReturn, ReadInput, Waits, Refill, GetLine,
         GetEnd, GetChar, input, vars
<1>3. ToSet(lines) \subseteq ToSet(lines')
  <2>1. CASE GetLine
    <3>1. PICK l \in Seq(Char) : lines' = Append(lines, l)
      <4>1. buffer' \in Seq(Char)
        <5>1. PICK n \in 1 .. Len(cin) : buffer' = SubSeq(cin, 1, n - 1)
          BY <2>1, LineStep
        <5>2. n - 1 \in 0 .. Len(cin)
          OBVIOUS
        <5> QED BY <1>1, <5>1, <5>2, Cut
      <4> QED BY <2>1, <4>1 DEF GetLine
    <3>2. PICK m : m = lines'
      OBVIOUS
    <3>3. /\ m \in Seq(Seq(Char)) /\ Len(m) = Len(lines) + 1 /\ Len(lines) \in Nat
          /\ \A i \in 1 .. Len(lines) : m[i] = lines[i]
      BY <1>1, <3>1, <3>2, AppendProperties, LenProperties
    <3>4. DOMAIN m = 1 .. Len(lines) + 1 /\ DOMAIN lines = 1 .. Len(lines)
      BY <1>1, <3>3, LenProperties
    <3>5. ToSet(lines) \subseteq ToSet(m)
      BY <3>3, <3>4 DEF ToSet
    <3>6. ToSet(m) = ToSet(lines')
      BY <3>2 DEF ToSet
    <3> QED BY <3>5, <3>6
  <2>2. CASE ~ GetLine
    <3>1. lines' = lines
      BY <2>2 DEF Next, Type, Close, Execute, SysCall, SysReturn, ReadInput, Waits, Refill,
             GetEnd, GetChar, vars
    <3> QED BY <3>1 DEF ToSet
  <2> QED BY <2>1, <2>2
<1> QED BY <1>2, <1>3 DEF Script, LinesOnly

\* Concatenation is associative, for texts
LEMMA Regroup ==
    ASSUME NEW s \in Seq(Char), NEW t \in Seq(Char), NEW u \in Seq(Char)
    PROVE  (s \o t) \o u = s \o (t \o u)
BY ConcatAssociative

\* What moves stays in its order.
LEMMA OrderKept ==
    ASSUME TInv, Script, ScriptInv, Next
    PROVE  typed' = (taken' \o cin') \o host'
<1>0. /\ host \in Seq(Char) /\ cin \in Seq(Char) /\ taken \in Seq(Char)
      /\ typed \in Seq(Char) /\ taken \o cin \in Seq(Char)
  BY ConcatProperties DEF TInv, KeyboardTypeOK, HistoriesOK
<1>4. taken \in Seq(Char) /\ cin \in Seq(Char)
  BY <1>0
<1>1. typed = (taken \o cin) \o host /\ reading # "char" /\ ~terminal
  BY DEF ScriptInv, Script
<1>2. CASE Type
  <2>1. PICK x \in Char : /\ typed' = Append(typed, x) /\ host' = Append(host, x)
                          /\ cin' = cin /\ taken' = taken
    BY <1>2, TypeStep
  <2>2. <<x>> \in Seq(Char)
    OBVIOUS
  <2>3. Append(typed, x) = typed \o <<x>> /\ Append(host, x) = host \o <<x>>
    BY <1>0, AppendIsConcat
  <2>4. ((taken \o cin) \o host) \o <<x>> = (taken \o cin) \o (host \o <<x>>)
    BY <1>0, <2>2, Regroup
  <2> QED BY <1>1, <2>1, <2>3, <2>4
<1>3. CASE ~ Type
  <2>1. typed' = typed /\ host' \in Seq(Char) /\ cin' \in Seq(Char)
    BY <1>3, StepMoves
  <2>2. PICK p \in Seq(Char) : Goes(p)
    BY <1>3, StepMoves
  <2>3. CASE host = p \o host' /\ taken' = taken \o p /\ cin' = cin /\ p = <<>>
    <3>1. host' = host /\ taken' = taken
      BY <1>0, <2>1, <2>3, ConcatEmptySeq
    <3> QED BY <1>1, <2>1, <2>3, <3>1
  <2>4. CASE host = p \o host' /\ cin' = cin \o p /\ taken' = taken
    <3>1. PICK h \in Seq(Char) : h = host'
      BY <2>1
    <3>2. ((taken \o cin) \o p) \o h = (taken \o cin) \o (p \o h)
      <4>1. PICK a \in Seq(Char) : a = taken \o cin
        BY <1>0
      <4>2. (a \o p) \o h = a \o (p \o h)
        BY <3>1, <4>1, Regroup
      <4> QED BY <4>1, <4>2
    <3>3. (taken \o cin) \o p = taken \o (cin \o p)
      BY <1>4, Regroup
    <3> QED BY <1>1, <2>1, <2>4, <3>1, <3>2, <3>3
  <2>5. CASE cin = p \o cin' /\ taken' = taken \o p /\ host' = host
    <3>1. PICK r \in Seq(Char) : r = cin'
      BY <2>1
    <3>2. (taken \o p) \o r = taken \o (p \o r)
      BY <1>4, Regroup
    <3> QED BY <1>1, <2>1, <2>5, <3>1, <3>2
  <2> QED BY <1>1, <2>2, <2>3, <2>4, <2>5 DEF Goes
<1> QED BY <1>2, <1>3

\* Every step keeps the invariant
LEMMA ScriptKept == ASSUME TInv, ScriptInv, [Next]_vars PROVE ScriptInv'
<1> SUFFICES ASSUME Script'
             PROVE  /\ typed' = (taken' \o cin') \o host'
                    /\ reading' # "char" /\ buffer' # CharWord
                    /\ lines' = LinesOf(taken')
                    /\ IF eof' THEN cin' = <<>> ELSE EndsLine(taken')
  BY DEF ScriptInv, EndsLine, LinesOf, Count
<1>0. /\ host \in Seq(Char) /\ cin \in Seq(Char) /\ taken \in Seq(Char)
      /\ lines \in Seq(Seq(Char)) /\ eof \in BOOLEAN /\ running = ~eof
  BY DEF TInv, KeyboardTypeOK, HistoriesOK
<1>1. Script
  BY ScriptBefore
<1>2. /\ typed = (taken \o cin) \o host
      /\ reading # "char" /\ buffer # CharWord
      /\ lines = LinesOf(taken)
      /\ IF eof THEN cin = <<>> ELSE EndsLine(taken)
  BY <1>1 DEF ScriptInv
<1>3. CASE UNCHANGED vars
  BY <1>2, <1>3 DEF vars, input
<1>4. CASE Next
  <2>1. typed' = (taken' \o cin') \o host'
    BY <1>1, <1>4, OrderKept
  <2>2. CASE Type \/ Close
    BY <1>2, <2>1, <2>2 DEF Type, Close
  <2>3. CASE Execute \/ SysCall \/ SysReturn \/ ReadInput
    <3>1. /\ Poll /\ UNCHANGED <<cin, eof, buffer, lines>>
          /\ reading' = reading \/ reading' = Mode
      BY <2>3 DEF Execute, SysCall, SysReturn, ReadInput
    <3>2. taken' = taken
      <4>1. Polled = <<>> /\ taken' = taken \o Polled
        BY <1>1, <3>1, PollStep DEF Script
      <4> QED BY <1>0, <4>1, ConcatEmptySeq
    <3>3. reading' # "char"
      BY <1>2, <3>1 DEF Mode
    <3> QED BY <1>2, <2>1, <3>1, <3>2, <3>3
  <2>4. CASE Refill
    <3>1. UNCHANGED <<eof, reading, buffer, lines, taken>> /\ running
      BY <2>4 DEF Refill
    <3> QED BY <1>0, <1>2, <2>1, <3>1
  <2>5. CASE GetLine
    <3>1. PICK n \in 1 .. Len(cin) :
              /\ cin[n] = NewLine /\ \A i \in 1 .. n - 1 : cin[i] # NewLine
              /\ buffer' = SubSeq(cin, 1, n - 1)
              /\ cin' = SubSeq(cin, n + 1, Len(cin)) /\ taken' = taken \o SubSeq(cin, 1, n)
      BY <2>5, LineStep
    <3>2. /\ reading' = "-" /\ lines' = Append(lines, buffer') /\ eof' = eof /\ running
      BY <2>5 DEF GetLine, Returns
    <3>3. PICK p : p = SubSeq(cin, 1, n)
      OBVIOUS
    <3>4. /\ p \in Seq(Char) /\ Len(p) = n /\ \A i \in 1 .. n : p[i] = cin[i]
      <4>1. n \in 0 .. Len(cin)
        OBVIOUS
      <4> QED BY <1>0, <3>3, <4>1, Cut
    <3>5. /\ p # <<>> /\ p[Len(p)] = NewLine
          /\ \A i \in 1 .. Len(p) - 1 : p[i] # NewLine
      <4>1. n \in Nat \ {0} /\ n \in 1 .. n
        OBVIOUS
      <4>2. p # <<>>
        BY <3>4, <4>1
      <4>3. p[Len(p)] = NewLine
        BY <3>1, <3>4, <4>1
      <4>4. ASSUME NEW i \in 1 .. n - 1 PROVE p[i] # NewLine
        <5>1. i \in 1 .. n /\ cin[i] # NewLine
          BY <3>1
        <5> QED BY <3>4, <5>1
      <4> QED BY <3>4, <4>2, <4>3, <4>4
    <3>6. SubSeq(p, 1, n - 1) = SubSeq(cin, 1, n - 1)
      <4>1. \A i \in 1 .. n - 1 : cin[i] \in Char /\ cin[i] = p[i + (1 - 1)]
        BY <1>0, <3>4, LenProperties
      <4>2. 1 \in Int /\ n - 1 \in Int /\ 1 - 1 = (n - 1) - (n - 1)
        OBVIOUS
      <4> QED BY <4>1, <4>2, SameCut
    <3>7. EndsLine(taken)
      BY <1>0, <1>2, <3>2
    <3>8. /\ LinesOf(taken \o p) = Append(LinesOf(taken), SubSeq(p, 1, Len(p) - 1))
          /\ EndsLine(taken \o p)
      BY <1>0, <3>4, <3>5, <3>7, LinesGrow
    <3>9. lines' = LinesOf(taken') /\ EndsLine(taken')
      BY <1>2, <3>1, <3>2, <3>3, <3>4, <3>6, <3>8
    <3>10. buffer' # CharWord
      <4>1. PICK l : l = buffer'
        OBVIOUS
      <4>2. l \in Seq(Char)
        <5>1. n - 1 \in 0 .. Len(cin)
          OBVIOUS
        <5> QED BY <1>0, <3>1, <4>1, <5>1, Cut
      <4>3. PICK m : m = lines'
        OBVIOUS
      <4>4. /\ m \in Seq(Seq(Char)) /\ Len(m) = Len(lines) + 1 /\ Len(lines) \in Nat
            /\ m[Len(lines) + 1] = l
        BY <1>0, <3>2, <4>1, <4>2, <4>3, AppendProperties, LenProperties
      <4>5. l \in ToSet(m)
        <5>1. Len(lines) + 1 \in DOMAIN m
          BY <4>4, LenProperties
        <5> QED BY <4>4, <5>1 DEF ToSet
      <4>6. CharWord \notin ToSet(m)
        BY <4>3 DEF Script, LinesOnly, ToSet
      <4> QED BY <4>1, <4>5, <4>6
    <3> QED BY <1>0, <2>1, <3>2, <3>9, <3>10
  <2>6. CASE GetEnd
    <3>1. /\ eof' = TRUE /\ cin' = <<>> /\ taken' = taken \o cin
          /\ UNCHANGED <<reading, buffer, lines>> /\ NewLine \notin ToSet(cin)
      BY <2>6 DEF GetEnd, NoMoreLines, HasLine
    <3>2. LinesOf(taken \o cin) = LinesOf(taken)
      BY <1>0, <3>1, LinesSame
    <3> QED BY <1>2, <2>1, <3>1, <3>2
  <2>7. CASE GetChar
    BY <1>2, <2>7 DEF GetChar
  <2> QED BY <1>4, <2>2, <2>3, <2>4, <2>5, <2>6, <2>7 DEF Next, Waits
<1> QED BY <1>3, <1>4

\* The invariant holds in the initial state
LEMMA ScriptStarts == Init => ScriptInv
<1> SUFFICES ASSUME Init PROVE ScriptInv
  OBVIOUS
<1>1. <<>> \in Seq(Char) /\ CharWord # <<>>
  BY KeyboardConstants
<1>2. <<>> \o <<>> = <<>> /\ (<<>> \o <<>>) \o <<>> = <<>>
  BY <1>1, ConcatEmptySeq
<1>3. LinesOf(<<>>) = <<>>
  <2>1. /\ LinesOf(<<>>) \in Seq(Seq(Char)) /\ Len(LinesOf(<<>>)) = 0
    <3>1. Count(NewLine, <<>>) = 0
      BY KeyboardConstants, CountOne
    <3> QED BY <1>1, <3>1, LinesAreTexts
  <2> QED BY <2>1, EmptySeq
<1> QED BY <1>1, <1>2, <1>3 DEF Init, ScriptInv, EndsLine

\* It is an invariant of the specification
LEMMA ScriptHolds == Spec => [](TInv /\ ScriptInv)
<1>1. TInv /\ ScriptInv /\ [Next]_vars => ScriptInv'
  BY ScriptKept
<1> QED BY <1>1, ScriptStarts, TypesHold, PTL DEF Spec

\* A script that is piped in is read line by line, each line whole and in its
\* place, whatever the CPU polls between the reads, as long as no line of it is
\* the name of a mode.
THEOREM ReadsScript == Spec => []ScriptIsRead
<1>1. TInv /\ ScriptInv => ScriptIsRead
  <2> SUFFICES ASSUME TInv, ScriptInv, Script PROVE IsPrefix(lines, LinesOf(typed))
    BY DEF ScriptIsRead, Script
  <2>1. /\ host \in Seq(Char) /\ cin \in Seq(Char) /\ taken \in Seq(Char)
        /\ typed \in Seq(Char) /\ cin \o host \in Seq(Char)
    BY ConcatProperties DEF TInv, KeyboardTypeOK, HistoriesOK
  <2>2. typed = taken \o (cin \o host) /\ lines = LinesOf(taken)
    <3>1. \A s, t, u \in Seq(Char) : (s \o t) \o u = s \o (t \o u)
      BY ConcatAssociative
    <3> QED BY <2>1, <3>1 DEF ScriptInv
  <2>3. PICK N : N = Count(NewLine, taken)
    OBVIOUS
  <2>4. /\ N \in Nat /\ Count(NewLine, typed) \in Nat
        /\ LinesOf(taken) \in Seq(Seq(Char)) /\ Len(LinesOf(taken)) = N
        /\ LinesOf(typed) \in Seq(Seq(Char)) /\ Len(LinesOf(typed)) = Count(NewLine, typed)
    BY <2>1, <2>3, CountIsNum, LinesAreTexts
  <2>5. /\ N <= Count(NewLine, typed)
        /\ \A k \in 1 .. N : LinesOf(typed)[k] = LinesOf(taken)[k]
    <3>1. /\ Count(NewLine, taken \o (cin \o host)) >= Count(NewLine, taken)
          /\ \A k \in 1 .. Count(NewLine, taken) :
                LinesOf(taken \o (cin \o host))[k] = LinesOf(taken)[k]
      BY <2>1, LinesStay
    <3> QED BY <2>2, <2>3, <2>4, <3>1
  <2>6. SubSeq(LinesOf(typed), 1, N) = SubSeq(LinesOf(taken), 1, N)
    <3>1. /\ 1 \in Int /\ N \in Int /\ 1 - 1 = N - N
          /\ \A i \in 1 .. N : LinesOf(taken)[i] \in Seq(Char)
                               /\ LinesOf(taken)[i] = LinesOf(typed)[i + (1 - 1)]
      BY <2>4, <2>5, LenProperties
    <3> QED BY <3>1, SameCut
  <2> QED BY <2>2, <2>4, <2>5, <2>6 DEF IsPrefix
<1> QED BY <1>1, ScriptHolds, PTL

\* When the emulator has stopped at the end of such a script, all of its
\* finished lines have been read.
THEOREM ReadsAllOfIt == Spec => []StopsAtTheEnd
<1>1. TInv /\ ScriptInv => StopsAtTheEnd
  <2> SUFFICES ASSUME TInv, ScriptInv, Script, ~running PROVE lines = LinesOf(typed)
    BY DEF StopsAtTheEnd, Script
  <2>1. /\ taken \in Seq(Char) /\ running = ~eof /\ eof \in BOOLEAN
        /\ (eof => host = <<>>)
    BY DEF TInv, KeyboardTypeOK, HistoriesOK
  <2>2. eof
    BY <2>1, Zenon
  <2>3. host = <<>> /\ cin = <<>> /\ typed = (taken \o cin) \o host /\ lines = LinesOf(taken)
    BY <2>1, <2>2 DEF ScriptInv
  <2>4. typed = taken
    BY <2>1, <2>3, ConcatEmptySeq
  <2> QED BY <2>3, <2>4
<1> QED BY <1>1, ScriptHolds, PTL
=============================================================================
