---------------------------- MODULE FilesProofs ----------------------------
(***************************************************************************)
(* Proofs about KaguFS, for every header, every number and length of       *)
(* chunks and every number of files and descriptors: the descriptors stay  *)
(* what was found at the open, and files are texts that read back as       *)
(* written.                                                                *)
(***************************************************************************)
EXTENDS Files, Lemmas

\* What section 4 of README.md says of line 0 (FilesLine.cfg): it is the block
\* before the file.  No program asks for it, or for a negative one.
PositiveLines == Lines \subseteq Nat \ {0}

-----------------------------------------------------------------------------
(* Where the lines of a file are *)

ChunkCount(f) == Len(Chunks[f])
Low(f, i)  == Chunks[f][i][1]
High(f, i) == Chunks[f][i][2]

\* The constants that are numbers
LEMMA BlockNumbers == FirstUsable \in Nat \ {0} /\ BlockCount \in Nat
<1>1. Header \in Seq(File \cup {Blank, Mark}) /\ BlockCount \in Nat
  BY FilesConstants
<1> QED BY <1>1 DEF FirstUsable

\* The blocks of a chunk are numbers of blocks of the disk
LEMMA ChunkType ==
    ASSUME NEW f \in File
    PROVE  /\ ChunkCount(f) \in Nat /\ DOMAIN Chunks[f] = 1 .. ChunkCount(f)
           /\ \A i \in 1 .. ChunkCount(f) :
                 /\ Low(f, i) \in FirstUsable .. BlockCount
                 /\ High(f, i) \in FirstUsable .. BlockCount
                 /\ Low(f, i) <= High(f, i)
                 /\ Low(f, i) \in Nat /\ High(f, i) \in Nat
                 /\ ChunkSize(Chunks[f][i]) = High(f, i) - Low(f, i) + 1
                 /\ ChunkSize(Chunks[f][i]) \in Nat \ {0}
<1> DEFINE B == FirstUsable .. BlockCount
<1>1. FirstUsable \in Nat /\ BlockCount \in Nat
  BY BlockNumbers
<1>2. Chunks[f] \in Seq(B \X B)
  BY FilesConstants
<1> HIDE DEF B
<1>3. /\ ChunkCount(f) \in Nat /\ DOMAIN Chunks[f] = 1 .. ChunkCount(f)
      /\ \A i \in 1 .. ChunkCount(f) : Chunks[f][i] \in B \X B
  BY <1>2, LenProperties, ElementOfSeq DEF ChunkCount
<1>4. ASSUME NEW i \in 1 .. ChunkCount(f)
      PROVE  Low(f, i) \in B /\ High(f, i) \in B /\ Low(f, i) <= High(f, i)
  BY <1>3, FilesConstants DEF Low, High
<1> QED BY <1>1, <1>3, <1>4 DEF ChunkSize, Low, High, B

\* Upto[f] counts the lines of the first chunks
LEMMA UptoSums ==
    ASSUME NEW f \in File
    PROVE  /\ Upto[f] \in [0 .. ChunkCount(f) -> Nat]
           /\ Upto[f][0] = 0
           /\ \A i \in 1 .. ChunkCount(f) :
                 /\ Upto[f][i] = Upto[f][i - 1] + (High(f, i) - Low(f, i) + 1)
                 /\ Upto[f][i - 1] < Upto[f][i]
<1> DEFINE N == ChunkCount(f)
           size == [i \in 1 .. N |-> ChunkSize(Chunks[f][i])]
<1>1. N \in Nat /\ size \in [1 .. N -> Nat]
  BY ChunkType
<1>2. PICK h \in [0 .. N -> Nat] :
          h[0] = 0 /\ \A i \in 1 .. N : h[i] = h[i - 1] + size[i]
  <2> HIDE DEF N, size
  <2> QED BY <1>1, SumExists
<1> DEFINE Body(g) == [i \in 0 .. N |-> IF i = 0 THEN 0 ELSE g[i - 1] + ChunkSize(Chunks[f][i])]
<1>3. h = Body(h)
  <2>1. DOMAIN h = 0 .. N /\ h = [i \in 0 .. N |-> h[i]]
    OBVIOUS
  <2>2. ASSUME NEW i \in 0 .. N PROVE h[i] = Body(h)[i]
    BY <1>1, <1>2
  <2> HIDE DEF Body
  <2>3. DOMAIN Body(h) = 0 .. N /\ Body(h) = [i \in 0 .. N |-> Body(h)[i]]
    BY DEF Body
  <2> QED BY <2>1, <2>2, <2>3
<1>4. Upto[f] = CHOOSE g : g = Body(g)
  BY DEF Upto, ChunkCount
<1>5. Upto[f] = Body(Upto[f])
  <2> HIDE DEF Body
  <2> QED BY <1>3, <1>4
<1>6. /\ DOMAIN Upto[f] = 0 .. N /\ Upto[f][0] = 0
      /\ Upto[f] = [i \in 0 .. N |-> Upto[f][i]]
  BY <1>1, <1>5
<1>7. ASSUME NEW i \in 1 .. N
      PROVE  /\ Upto[f][i] = Upto[f][i - 1] + ChunkSize(Chunks[f][i])
             /\ i - 1 \in 0 .. N
  <2> DEFINE u == Upto[f]
  <2>1. i \in 0 .. N /\ i # 0 /\ i - 1 \in 0 .. N
    BY <1>1
  <2>2. u = Body(u)
    BY <1>5
  <2> HIDE DEF u
  <2>3. Body(u)[i] = u[i - 1] + ChunkSize(Chunks[f][i])
    BY <2>1
  <2> HIDE DEF Body
  <2>4. u[i] = u[i - 1] + ChunkSize(Chunks[f][i])
    BY <2>2, <2>3
  <2> QED BY <2>1, <2>4 DEF u
<1>8. \A k \in 0 .. N : Upto[f][k] \in Nat
  <2> DEFINE G == {k \in 0 .. N : Upto[f][k] \in Nat}
  <2>1. 0 \in G
    BY <1>1, <1>6
  <2>2. ASSUME NEW k \in 1 .. N, k - 1 \in G PROVE k \in G
    <3>1. ChunkSize(Chunks[f][k]) \in Nat /\ k \in 0 .. N
      BY ChunkType
    <3> QED BY <1>7, <2>2, <3>1
  <2> HIDE DEF G, N
  <2>3. \A k \in 1 .. N : k - 1 \in G => k \in G
    BY <2>2
  <2>4. \A k \in 0 .. N : k \in G
    BY <1>1, <2>1, <2>3, Induction
  <2> QED BY <2>4 DEF G
<1>9. ASSUME NEW i \in 1 .. N
      PROVE  /\ Upto[f][i] = Upto[f][i - 1] + (High(f, i) - Low(f, i) + 1)
             /\ Upto[f][i - 1] < Upto[f][i]
  <2> DEFINE u == Upto[f][i - 1]
             w == Upto[f][i]
             c == ChunkSize(Chunks[f][i])
  <2>1. u \in Nat /\ w = u + c
    BY <1>7, <1>8
  <2>2. c \in Nat \ {0} /\ c = High(f, i) - Low(f, i) + 1
    BY ChunkType
  <2> HIDE DEF u, w, c
  <2>3. u < w
    BY <2>1, <2>2
  <2> QED BY <2>1, <2>2, <2>3 DEF u, w, c
<1>10. Upto[f] \in [0 .. N -> Nat]
  BY <1>6, <1>8
<1> QED BY <1>6, <1>9, <1>10

\* The lines of the chunks up to one are no more than those up to a later one
LEMMA UptoMonotonic ==
    ASSUME NEW f \in File, NEW i \in 0 .. ChunkCount(f), NEW j \in 0 .. ChunkCount(f), i <= j
    PROVE  Upto[f][i] <= Upto[f][j]
<1> DEFINE G == {k \in 0 .. ChunkCount(f) : i <= k => Upto[f][i] <= Upto[f][k]}
<1>1. ChunkCount(f) \in Nat /\ \A k \in 0 .. ChunkCount(f) : Upto[f][k] \in Nat
  BY ChunkType, UptoSums
<1>2. 0 \in G
  BY <1>1
<1>3. ASSUME NEW k \in 1 .. ChunkCount(f), k - 1 \in G PROVE k \in G
  <2>1. k \in 0 .. ChunkCount(f) /\ k - 1 \in 0 .. ChunkCount(f)
    BY <1>1
  <2>2. Upto[f][k - 1] < Upto[f][k]
    BY UptoSums
  <2> QED BY <1>1, <1>3, <2>1, <2>2
<1>4. \A k \in 0 .. ChunkCount(f) : k \in G
  <2> HIDE DEF G
  <2>1. \A k \in 1 .. ChunkCount(f) : k - 1 \in G => k \in G
    BY <1>3
  <2> QED BY <1>1, <1>2, <2>1, Induction
<1> QED BY <1>4

\* The block of a line, by the chunk it is in
InChunk(f, i, n) == Upto[f][i - 1] < n /\ n <= Upto[f][i]
BlockIn(f, i, n) == Low(f, i) + (n - Upto[f][i - 1]) - 1

\* A line is in a chunk
LEMMA ChunkOfLine ==
    ASSUME NEW f \in File, NEW n \in 1 .. CalcSize(f)
    PROVE  \E i \in 1 .. ChunkCount(f) :
              /\ InChunk(f, i, n)
              /\ \A k \in 1 .. ChunkCount(f) : n <= Upto[f][k] => i <= k
<1> DEFINE found == {i \in 1 .. ChunkCount(f) : n <= Upto[f][i]}
<1>1. ChunkCount(f) \in Nat /\ \A k \in 0 .. ChunkCount(f) : Upto[f][k] \in Nat
  BY ChunkType, UptoSums
<1>2. CalcSize(f) = Upto[f][ChunkCount(f)] /\ Upto[f][0] = 0
  BY UptoSums DEF CalcSize, ChunkCount
<1>3. ChunkCount(f) \in found
  BY <1>1, <1>2
<1>4. PICK i \in found : \A k \in found : i <= k
  <2>1. found \in SUBSET Nat /\ found # {}
    BY <1>1, <1>3
  <2> HIDE DEF found
  <2> QED BY <2>1, LeastElement
<1>5. Upto[f][i - 1] < n
  <2>1. CASE i = 1
    BY <1>1, <1>2, <2>1
  <2>2. CASE i # 1
    <3>1. i - 1 \in 1 .. ChunkCount(f) /\ ~ (i <= i - 1)
      BY <1>1, <1>4, <2>2
    <3>2. i - 1 \notin found
      BY <1>4, <3>1
    <3> QED BY <1>1, <3>1, <3>2
  <2> QED BY <2>1, <2>2
<1> QED BY <1>4, <1>5 DEF InChunk

\* sys_fs_helper_file_line_to_block finds it
LEMMA LineToBlockIn ==
    ASSUME NEW f \in File, NEW n \in 1 .. CalcSize(f)
    PROVE  \E i \in 1 .. ChunkCount(f) :
              InChunk(f, i, n) /\ LineToBlock(f, n) = BlockIn(f, i, n)
<1>1. PICK i \in 1 .. ChunkCount(f) :
          /\ InChunk(f, i, n)
          /\ \A k \in 1 .. ChunkCount(f) : n <= Upto[f][k] => i <= k
  BY ChunkOfLine
<1> DEFINE found == {j \in DOMAIN Chunks[f] : n <= Upto[f][j]}
<1>2. i \in found /\ \A k \in found : i <= k
  BY <1>1, ChunkType DEF InChunk
<1>3. \A k \in found : k \in Nat
  BY ChunkType
<1>4. (CHOOSE j \in found : \A k \in found : j <= k) = i
  <2> DEFINE m == CHOOSE j \in found : \A k \in found : j <= k
  <2> HIDE DEF found
  <2>1. m \in found /\ \A k \in found : m <= k
    BY <1>2
  <2> HIDE DEF m
  <2>2. m <= i /\ i <= m /\ m \in Nat /\ i \in Nat
    BY <1>2, <1>3, <2>1
  <2>3. m = i
    BY <2>2
  <2> QED BY <2>3 DEF m
<1>5. LineToBlock(f, n) = Low(f, i) + (n - Upto[f][i - 1]) - 1
  <2> DEFINE m == CHOOSE j \in found : \A k \in found : j <= k
  <2>1. LineToBlock(f, n) = IF found = {} THEN 0
                            ELSE Chunks[f][m][1] + (n - Upto[f][m - 1]) - 1
    BY DEF LineToBlock
  <2>2. m = i
    BY <1>4
  <2> HIDE DEF m, found
  <2> QED BY <1>2, <2>1, <2>2 DEF Low
<1> QED BY <1>1, <1>5 DEF BlockIn

\* The chunks concatenated: how many blocks they are, and where each one is
LEMMA BlocksPlaced ==
    ASSUME NEW f \in File
    PROVE  /\ BlocksOf[f] \in Seq(FirstUsable .. BlockCount)
           /\ Len(BlocksOf[f]) = CalcSize(f)
           /\ \A i \in 1 .. ChunkCount(f) : \A n \in Nat :
                 InChunk(f, i, n) => BlocksOf[f][n] = BlockIn(f, i, n)
<1> DEFINE N == ChunkCount(f)
           B == FirstUsable .. BlockCount
           piece(i) == [k \in 1 .. High(f, i) - Low(f, i) + 1 |-> Low(f, i) + k - 1]
           s == [i \in 1 .. N |-> piece(i)]
<1>1. /\ N \in Nat /\ DOMAIN Chunks[f] = 1 .. N
      /\ \A i \in 1 .. N : Low(f, i) \in B /\ High(f, i) \in B /\ Low(f, i) <= High(f, i)
      /\ FirstUsable \in Nat /\ BlockCount \in Nat
  BY ChunkType, BlockNumbers
<1>2. BlocksOf[f] = FlattenSeq(s)
  BY <1>1 DEF BlocksOf, Low, High
<1>3. ASSUME NEW i \in 1 .. N
      PROVE  /\ piece(i) \in Seq(B) /\ Len(piece(i)) = High(f, i) - Low(f, i) + 1
             /\ \A k \in 1 .. Len(piece(i)) : piece(i)[k] = Low(f, i) + k - 1
  <2> DEFINE len == High(f, i) - Low(f, i) + 1
  <2>1. len \in Nat /\ \A k \in 1 .. len : Low(f, i) + k - 1 \in B
    BY <1>1
  <2> HIDE DEF len, B
  <2>2. [k \in 1 .. len |-> Low(f, i) + k - 1] \in Seq(B)
    BY <2>1
  <2> QED BY <2>1, <2>2 DEF len
<1>4. /\ s \in Seq(Seq(B)) /\ Len(s) = N
      /\ \A i \in 1 .. N : s[i] \in Seq(B) /\ s[i] = piece(i)
  <2> HIDE DEF B, piece
  <2> QED BY <1>1, <1>3
<1>5. PICK h \in [0 .. N -> Seq(B)] :
          /\ h[0] = <<>> /\ \A i \in 1 .. N : h[i] = h[i - 1] \o s[i]
          /\ FlattenSeq(s) = h[N]
  <2> HIDE DEF B, s, N
  <2> QED BY <1>4, FlattenJoins
<1> HIDE DEF B, s
<1>6. /\ \A i \in 0 .. N : Upto[f][i] \in Nat
      /\ \A i \in 1 .. N : Upto[f][i] = Upto[f][i - 1] + (High(f, i) - Low(f, i) + 1)
      /\ Upto[f][0] = 0 /\ CalcSize(f) = Upto[f][N]
  BY UptoSums DEF CalcSize, ChunkCount
<1> DEFINE Placed(j) == \A i \in 1 .. j : \A n \in Nat :
                            InChunk(f, i, n) => h[j][n] = BlockIn(f, i, n)
           G == {j \in 0 .. N : Len(h[j]) = Upto[f][j] /\ Placed(j)}
<1>7. 0 \in G
  <2>1. Len(h[0]) = 0 /\ 0 \in 0 .. N
    BY <1>1, <1>5
  <2> QED BY <1>6, <2>1
<1>8. ASSUME NEW j \in 1 .. N, j - 1 \in G PROVE j \in G
  <2>1. /\ h[j - 1] \in Seq(B) /\ s[j] \in Seq(B) /\ h[j] = h[j - 1] \o s[j]
        /\ j \in 0 .. N /\ Len(h[j - 1]) = Upto[f][j - 1]
        /\ Len(h[j - 1]) \in Nat /\ Len(s[j]) \in Nat
    <3>1. j \in 0 .. N /\ j - 1 \in 0 .. N
      BY <1>1
    <3>2. h[j - 1] \in Seq(B) /\ s[j] \in Seq(B)
      BY <1>4, <1>5, <3>1
    <3>3. h[j] = h[j - 1] \o s[j]
      BY <1>5
    <3>4. Len(h[j - 1]) = Upto[f][j - 1]
      BY <1>8
    <3> QED BY <3>1, <3>2, <3>3, <3>4, LenProperties
  <2>2. /\ Len(s[j]) = High(f, j) - Low(f, j) + 1
        /\ \A k \in 1 .. Len(s[j]) : s[j][k] = Low(f, j) + k - 1
    <3> HIDE DEF piece
    <3> QED BY <1>3, <1>4
  <2>3. /\ Len(h[j]) = Len(h[j - 1]) + Len(s[j])
        /\ \A n \in 1 .. Len(h[j - 1]) + Len(s[j]) :
              h[j][n] = IF n <= Len(h[j - 1]) THEN h[j - 1][n] ELSE s[j][n - Len(h[j - 1])]
    <3> DEFINE a == h[j - 1]
               b == s[j]
    <3>1. a \in Seq(B) /\ b \in Seq(B) /\ h[j] = a \o b
      BY <2>1
    <3> HIDE DEF a, b
    <3>2. /\ Len(a \o b) = Len(a) + Len(b)
          /\ \A n \in 1 .. Len(a) + Len(b) :
                (a \o b)[n] = IF n <= Len(a) THEN a[n] ELSE b[n - Len(a)]
      BY <3>1, ConcatProperties
    <3> QED BY <3>1, <3>2 DEF a, b
  <2>4. Len(h[j]) = Upto[f][j]
    <3>1. Upto[f][j] = Upto[f][j - 1] + (High(f, j) - Low(f, j) + 1)
      BY <1>6
    <3> QED BY <2>1, <2>2, <2>3, <3>1
  <2>5. ASSUME NEW i \in 1 .. j, NEW n \in Nat, InChunk(f, i, n)
        PROVE  h[j][n] = BlockIn(f, i, n)
    <3>1. /\ Upto[f][i - 1] < n /\ n <= Upto[f][i] /\ 1 <= n
          /\ i \in 1 .. N /\ Upto[f][i] \in Nat /\ Upto[f][i - 1] \in Nat
          /\ Upto[f][j - 1] \in Nat /\ Upto[f][j] \in Nat
      <4>1. i \in 1 .. N /\ i \in 0 .. N /\ i - 1 \in 0 .. N /\ j - 1 \in 0 .. N /\ j \in 0 .. N
        BY <1>1
      <4>2. Upto[f][i] \in Nat /\ Upto[f][i - 1] \in Nat /\ Upto[f][j - 1] \in Nat
            /\ Upto[f][j] \in Nat
        BY <1>6, <4>1
      <4> QED BY <2>5, <4>1, <4>2 DEF InChunk
    <3>2. CASE i = j
      <4>1. n \in 1 .. Len(h[j - 1]) + Len(s[j]) /\ ~ (n <= Len(h[j - 1]))
        <5>1. n <= Len(h[j - 1]) + Len(s[j])
          BY <2>3, <2>4, <3>1, <3>2
        <5>2. Len(h[j - 1]) < n
          BY <2>1, <3>1, <3>2
        <5> QED BY <2>1, <3>1, <5>1, <5>2
      <4>2. h[j][n] = s[j][n - Len(h[j - 1])]
        BY <2>3, <4>1
      <4>3. \A k \in 1 .. Len(s[j]) : k = n - Len(h[j - 1]) => s[j][k] = Low(f, j) + k - 1
        BY <2>2
      <4>4. n - Len(h[j - 1]) \in 1 .. Len(s[j])
        BY <2>1, <4>1
      <4>5. s[j][n - Len(h[j - 1])] = Low(f, j) + (n - Len(h[j - 1])) - 1
        BY <4>3, <4>4
      <4> QED BY <2>1, <3>2, <4>2, <4>5 DEF BlockIn
    <3>3. CASE i # j
      <4>1. i \in 1 .. j - 1 /\ i \in 0 .. N /\ j - 1 \in 0 .. N /\ i <= j - 1
        BY <1>1, <3>3
      <4>2. Upto[f][i] <= Upto[f][j - 1]
        BY <4>1, UptoMonotonic
      <4>3. h[j - 1][n] = BlockIn(f, i, n)
        BY <1>8, <2>5, <4>1
      <4>4. n <= Len(h[j - 1])
        BY <2>1, <3>1, <4>2
      <4>5. n \in 1 .. Len(h[j - 1]) + Len(s[j])
        <5> DEFINE a == Len(h[j - 1])
                   b == Len(s[j])
        <5>1. a \in Nat /\ b \in Nat /\ n <= a /\ 1 <= n
          BY <2>1, <3>1, <4>4
        <5> HIDE DEF a, b
        <5>2. n \in 1 .. a + b
          BY <5>1
        <5> QED BY <5>2 DEF a, b
      <4> QED BY <2>3, <4>3, <4>4, <4>5
    <3> QED BY <3>2, <3>3
  <2> QED BY <2>1, <2>4, <2>5
<1>9. N \in G
  <2> HIDE DEF G
  <2>1. \A j \in 1 .. N : j - 1 \in G => j \in G
    BY <1>8
  <2>2. \A j \in 0 .. N : j \in G
    BY <1>1, <1>7, <2>1, Induction
  <2> QED BY <1>1, <2>2
<1> QED BY <1>1, <1>2, <1>5, <1>6, <1>9 DEF B

\* The block that the helper of the file system comes to for a line is the one
\* of the chunks concatenated, and none comes twice
LEMMA LinesPlaced ==
    ASSUME NEW f \in File, NEW n \in 1 .. CalcSize(f)
    PROVE  /\ LineToBlock(f, n) = BlocksOf[f][n]
           /\ LineToBlock(f, n) \in FirstUsable .. BlockCount
           /\ \E i \in 1 .. ChunkCount(f) :
                 InChunk(f, i, n) /\ BlocksOf[f][n] = BlockIn(f, i, n)
<1>1. PICK i \in 1 .. ChunkCount(f) :
          InChunk(f, i, n) /\ LineToBlock(f, n) = BlockIn(f, i, n)
  BY LineToBlockIn
<1>2. BlocksOf[f][n] = BlockIn(f, i, n) /\ n \in 1 .. Len(BlocksOf[f])
  BY <1>1, BlocksPlaced
<1>3. BlocksOf[f][n] \in FirstUsable .. BlockCount
  <2> DEFINE B == FirstUsable .. BlockCount
  <2>1. BlocksOf[f] \in Seq(B)
    BY BlocksPlaced
  <2> HIDE DEF B
  <2>2. BlocksOf[f][n] \in B
    BY <1>2, <2>1, ElementOfSeq
  <2> QED BY <2>2 DEF B
<1> QED BY <1>1, <1>2, <1>3

\* Two lines of the disk are in two blocks
LEMMA LinesApart ==
    ASSUME NEW f \in File, NEW n \in 1 .. CalcSize(f),
           NEW g \in File, NEW m \in 1 .. CalcSize(g),
           BlocksOf[f][n] = BlocksOf[g][m]
    PROVE  f = g /\ n = m
<1>1. PICK i \in 1 .. ChunkCount(f) : InChunk(f, i, n) /\ BlocksOf[f][n] = BlockIn(f, i, n)
  BY LinesPlaced
<1>2. PICK j \in 1 .. ChunkCount(g) : InChunk(g, j, m) /\ BlocksOf[g][m] = BlockIn(g, j, m)
  BY LinesPlaced
<1>3. /\ Low(f, i) <= BlockIn(f, i, n) /\ BlockIn(f, i, n) <= High(f, i)
      /\ Low(g, j) <= BlockIn(g, j, m) /\ BlockIn(g, j, m) <= High(g, j)
      /\ Low(f, i) \in Nat /\ High(f, i) \in Nat /\ Low(g, j) \in Nat /\ High(g, j) \in Nat
      /\ BlockIn(f, i, n) \in Int
  <2>1. \A h \in File : \A k \in 1 .. ChunkCount(h) : \A l \in Nat :
            InChunk(h, k, l) =>
               /\ Low(h, k) <= BlockIn(h, k, l) /\ BlockIn(h, k, l) <= High(h, k)
               /\ Low(h, k) \in Nat /\ High(h, k) \in Nat /\ BlockIn(h, k, l) \in Int
    <3> SUFFICES ASSUME NEW h \in File, NEW k \in 1 .. ChunkCount(h), NEW l \in Nat,
                        InChunk(h, k, l)
                 PROVE  /\ Low(h, k) <= BlockIn(h, k, l) /\ BlockIn(h, k, l) <= High(h, k)
                        /\ Low(h, k) \in Nat /\ High(h, k) \in Nat /\ BlockIn(h, k, l) \in Int
      OBVIOUS
    <3>1. Low(h, k) \in Nat /\ High(h, k) \in Nat
      BY ChunkType
    <3>2. Upto[h][k] \in Nat /\ Upto[h][k - 1] \in Nat
      <4>1. k \in 0 .. ChunkCount(h) /\ k - 1 \in 0 .. ChunkCount(h)
        BY ChunkType
      <4> QED BY <4>1, UptoSums
    <3>3. Upto[h][k] = Upto[h][k - 1] + (High(h, k) - Low(h, k) + 1)
      BY UptoSums
    <3> QED BY <3>1, <3>2, <3>3 DEF InChunk, BlockIn
  <2>2. n \in Nat /\ m \in Nat
    OBVIOUS
  <2> QED BY <1>1, <1>2, <2>1, <2>2
<1>4. <<f, i>> = <<g, j>>
  <2>1. ~ (High(f, i) < Low(g, j)) /\ ~ (High(g, j) < Low(f, i))
    <3>1. BlockIn(f, i, n) = BlockIn(g, j, m)
      BY <1>1, <1>2
    <3> QED BY <1>3, <3>1
  <2>2. i \in DOMAIN Chunks[f] /\ j \in DOMAIN Chunks[g]
    BY ChunkType
  <2> QED BY <2>1, <2>2, FilesConstants DEF Low, High
<1>5. Upto[f][i - 1] \in Nat /\ Low(f, i) \in Nat
  <2>1. i - 1 \in 0 .. ChunkCount(f)
    <3>1. ChunkCount(f) \in Nat
      BY ChunkType
    <3> QED BY <3>1
  <2> QED BY <1>3, <2>1, UptoSums
<1>6. f = g /\ BlockIn(f, i, n) = BlockIn(f, i, m)
  BY <1>1, <1>2, <1>4
<1>7. n = m
  <2> DEFINE u == Upto[f][i - 1]
             w == Low(f, i)
  <2>1. w + (n - u) - 1 = w + (m - u) - 1
    BY <1>6 DEF BlockIn
  <2>2. u \in Int /\ w \in Int /\ n \in Int /\ m \in Int
    BY <1>5
  <2> HIDE DEF u, w
  <2> QED BY <2>1, <2>2
<1> QED BY <1>6, <1>7

-----------------------------------------------------------------------------
(* The invariant                                                           *)

\* Where an entry of the header is still there, nothing before it is damaged:
\* a rewrite that is cut short loses the end, and what is put behind it is empty
HeaderKept ==
    \A b \in 1 .. Len(Header) :
        b <= Len(disk) /\ disk[b] \in File => \A c \in 1 .. b : disk[c] = Header[c]

\* A descriptor that is open names an entry that is there, and its size
EntriesKept ==
    \A fd \in Fd : desc[fd] # Closed =>
        /\ desc[fd].hdr \in FsHeader + 1 .. Len(Header)
        /\ desc[fd].hdr <= Len(disk)
        /\ disk[desc[fd].hdr] \in File
        /\ desc[fd].size = CalcSize(disk[desc[fd].hdr])

OffMeansClosed == ~up => \A fd \in Fd : desc[fd] = Closed

IInv == FilesTypeOK /\ HeaderKept /\ EntriesKept /\ OffMeansClosed

\* The image e is what a rewrite of block b with v leaves, at the end or when
\* it is cut short
Line(i, b, v) == IF i = b THEN v ELSE IF i <= Len(disk) THEN disk[i] ELSE Blank

Leaves(e, b, v) ==
    /\ e \in Seq(Content) /\ Len(e) <= BlockCount
    /\ \A i \in 1 .. Len(e) : e[i] = Line(i, b, v) \/ (i = Len(e) /\ e[i] = Torn)

\* The header is a sequence of files, blanks and marks
LEMMA HeaderType ==
    /\ Len(Header) \in Nat /\ FirstUsable = Len(Header) + 1 /\ Len(Header) <= BlockCount
    /\ \A b \in 1 .. Len(Header) : Header[b] \in File \cup {Blank, Mark}
    /\ DOMAIN Header = 1 .. Len(Header)
<1>1. Header \in Seq(File \cup {Blank, Mark}) /\ FirstUsable <= BlockCount /\ BlockCount \in Nat
  BY FilesConstants
<1>2. Len(Header) \in Nat /\ DOMAIN Header = 1 .. Len(Header)
      /\ \A b \in 1 .. Len(Header) : Header[b] \in File \cup {Blank, Mark}
  BY <1>1, ElementOfSeq, LenProperties
<1> QED BY <1>1, <1>2 DEF FirstUsable

\* The disk is a sequence of contents
LEMMA DiskType ==
    ASSUME FilesTypeOK
    PROVE  /\ Len(disk) \in Nat /\ DOMAIN disk = 1 .. Len(disk)
           /\ \A i \in 1 .. Len(disk) : disk[i] \in Content
<1>1. disk \in Seq(Content)
  BY DEF FilesTypeOK
<1> QED BY <1>1, LenProperties, ElementOfSeq

\* What writeBlock writes
LEMMA RewrittenLeaves ==
    ASSUME FilesTypeOK, NEW b, Writable(b), b \in FirstUsable .. BlockCount, NEW v \in Data
    PROVE  /\ Leaves(Rewritten(b, v), b, v)
           /\ Len(Rewritten(b, v)) = IF b > Len(disk) THEN b ELSE Len(disk)
           /\ \A i \in 1 .. Len(Rewritten(b, v)) : Rewritten(b, v)[i] = Line(i, b, v)
<1> DEFINE len == IF b > Len(disk) THEN b ELSE Len(disk)
           e == [i \in 1 .. len |-> Line(i, b, v)]
<1>1. b \in Nat /\ b <= BlockCount /\ len \in Nat /\ len <= BlockCount
  BY BlockNumbers, DiskType DEF FilesTypeOK
<1>2. Rewritten(b, v) = e
  BY DEF Rewritten, Line
<1>3. \A i \in 1 .. len : Line(i, b, v) \in Content
  <2>1. v \in Content /\ Blank \in Content
    BY DEF Content
  <2>2. ASSUME NEW i \in 1 .. len, i # b, i <= Len(disk) PROVE disk[i] \in Content
    BY <1>1, <2>2, DiskType
  <2> QED BY <2>1, <2>2 DEF Line
<1> HIDE DEF len
<1>4. e \in Seq(Content) /\ Len(e) = len /\ \A i \in 1 .. len : e[i] = Line(i, b, v)
  BY <1>1, <1>3
<1> HIDE DEF e
<1> QED BY <1>1, <1>2, <1>4 DEF Leaves, len

\* What a stop leaves of it
LEMMA CutShortLeaves ==
    ASSUME FilesTypeOK, NEW b, Writable(b), b \in FirstUsable .. BlockCount, NEW v \in Data,
           NEW e \in CutShort(Rewritten(b, v))
    PROVE  Leaves(e, b, v)
<1> DEFINE r == Rewritten(b, v)
<1>1. /\ r \in Seq(Content) /\ Len(r) \in Nat /\ Len(r) <= BlockCount
      /\ \A i \in 1 .. Len(r) : r[i] = Line(i, b, v) /\ r[i] \in Content
  BY RewrittenLeaves, LenProperties, ElementOfSeq DEF Leaves
<1>2. \/ \E k \in 0 .. Len(r) : e = SubSeq(r, 1, k)
      \/ \E k \in 1 .. Len(r) - 1 : e = Append(SubSeq(r, 1, k), Torn)
  BY DEF CutShort
<1> HIDE DEF r
<1>3. ASSUME NEW k \in 0 .. Len(r)
      PROVE  /\ SubSeq(r, 1, k) \in Seq(Content) /\ Len(SubSeq(r, 1, k)) = k
             /\ \A i \in 1 .. k : SubSeq(r, 1, k)[i] = r[i]
  <2>1. k \in Int /\ 1 \in Int /\ \A i \in 1 .. k : r[i] \in Content
    BY <1>1
  <2>2. /\ SubSeq(r, 1, k) \in Seq(Content)
        /\ Len(SubSeq(r, 1, k)) = IF 1 <= k THEN k - 1 + 1 ELSE 0
        /\ \A i \in 1 .. k - 1 + 1 : SubSeq(r, 1, k)[i] = r[1 + i - 1]
    BY <2>1, SubSeqProperties
  <2>3. \A i \in 1 .. k : 1 + i - 1 = i /\ i \in 1 .. k - 1 + 1
    BY <1>1
  <2> QED BY <1>1, <2>2, <2>3
<1>4. CASE \E k \in 0 .. Len(r) : e = SubSeq(r, 1, k)
  <2>1. PICK k \in 0 .. Len(r) : e = SubSeq(r, 1, k)
    BY <1>4
  <2>2. /\ e \in Seq(Content) /\ Len(e) = k /\ k <= BlockCount
        /\ \A i \in 1 .. k : e[i] = r[i]
    BY <1>1, <1>3, <2>1, BlockNumbers
  <2> QED BY <1>1, <2>2 DEF Leaves
<1>5. CASE \E k \in 1 .. Len(r) - 1 : e = Append(SubSeq(r, 1, k), Torn)
  <2>1. PICK k \in 1 .. Len(r) - 1 : e = Append(SubSeq(r, 1, k), Torn)
    BY <1>5
  <2> DEFINE s == SubSeq(r, 1, k)
  <2>2. s \in Seq(Content) /\ Len(s) = k /\ \A i \in 1 .. k : s[i] = r[i]
    BY <1>1, <1>3
  <2>3. Torn \in Content
    BY DEF Content
  <2> HIDE DEF s
  <2>4. /\ e \in Seq(Content) /\ Len(e) = k + 1 /\ e[k + 1] = Torn
        /\ \A i \in 1 .. k : e[i] = r[i]
    <3>1. /\ Append(s, Torn) \in Seq(Content) /\ Len(Append(s, Torn)) = Len(s) + 1
          /\ \A i \in 1 .. Len(s) : Append(s, Torn)[i] = s[i]
          /\ Append(s, Torn)[Len(s) + 1] = Torn
      BY <2>2, <2>3, AppendProperties
    <3> QED BY <2>1, <2>2, <3>1 DEF s
  <2>5. k + 1 <= BlockCount
    BY <1>1, BlockNumbers
  <2>6. \A i \in 1 .. Len(e) : i \in 1 .. k \/ (i = Len(e) /\ i = k + 1)
    BY <2>4
  <2>7. \A i \in 1 .. k : e[i] = Line(i, b, v)
    BY <1>1, <2>4
  <2> QED BY <2>4, <2>5, <2>6, <2>7 DEF Leaves
<1> QED BY <1>2, <1>4, <1>5

\* No such image touches the header, but its end may be lost
LEMMA HeaderLine ==
    ASSUME FilesTypeOK, NEW e, NEW b \in FirstUsable .. BlockCount, NEW v, Leaves(e, b, v),
           NEW i \in 1 .. Len(Header), i <= Len(e), e[i] \in File
    PROVE  /\ i <= Len(disk) /\ e[i] = disk[i]
           /\ \A c \in 1 .. i : c <= Len(e) /\ c <= Len(disk) /\ e[c] = disk[c]
<1>1. /\ Len(e) \in Nat /\ Len(disk) \in Nat /\ Len(Header) < b /\ b \in Nat /\ Len(Header) \in Nat
      /\ Torn \notin File /\ Blank \notin File
  BY HeaderType, DiskType, BlockNumbers, FilesContents, LenProperties DEF Leaves
<1>2. i \in 1 .. Len(e) /\ i # b
  BY <1>1
<1>3. i <= Len(disk) /\ e[i] = disk[i]
  BY <1>1, <1>2 DEF Leaves, Line
<1>4. ASSUME NEW c \in 1 .. i PROVE c <= Len(e) /\ c <= Len(disk) /\ e[c] = disk[c]
  <2>1. c <= Len(e) /\ c <= Len(disk) /\ c \in 1 .. Len(e) /\ c # b
    BY <1>1, <1>3
  <2>2. CASE c = i
    BY <1>3, <2>1, <2>2
  <2>3. CASE c # i
    <3>1. c # Len(e)
      BY <1>1, <2>3
    <3> QED BY <2>1, <3>1 DEF Leaves, Line
  <2> QED BY <2>1, <2>2, <2>3
<1> QED BY <1>3, <1>4

\* What an open descriptor stands for: the file of its entry
FileOf(fd) == Header[desc[fd].hdr]

\* An open descriptor points to the entry of its file
LEMMA OpenDescriptor ==
    ASSUME FilesTypeOK, HeaderKept, EntriesKept, NEW fd \in Fd, desc[fd] # Closed
    PROVE  /\ FileOf(fd) \in File /\ disk[desc[fd].hdr] = FileOf(fd)
           /\ desc[fd].hdr \in 1 .. Len(Header) /\ desc[fd].hdr <= Len(disk)
           /\ Readable(desc[fd].hdr)
           /\ desc[fd].size = CalcSize(FileOf(fd))
<1> DEFINE b == desc[fd].hdr
<1>1. /\ b \in FsHeader + 1 .. Len(Header) /\ b <= Len(disk)
      /\ disk[b] \in File /\ desc[fd].size = CalcSize(disk[b])
  BY DEF EntriesKept
<1>2. b \in 1 .. Len(Header) /\ b \in 1 .. b /\ b <= BlockCount /\ b >= 1
  BY <1>1, HeaderType, BlockNumbers DEF FsHeader
<1>3. disk[b] = Header[b]
  BY <1>1, <1>2 DEF HeaderKept
<1> QED BY <1>1, <1>2, <1>3 DEF FileOf, Readable

\* A size is a number
LEMMA SizeType ==
    ASSUME NEW f \in File
    PROVE  CalcSize(f) \in Nat
<1>1. Upto[f] \in [0 .. ChunkCount(f) -> Nat] /\ ChunkCount(f) \in 0 .. ChunkCount(f)
  BY UptoSums, ChunkType
<1> QED BY <1>1 DEF CalcSize, ChunkCount

\* The block that a call comes to, or none
LEMMA TargetOfLine ==
    ASSUME FilesTypeOK, HeaderKept, EntriesKept, PositiveLines,
           NEW fd \in Fd, desc[fd] # Closed, NEW n \in Lines
    PROVE  IF n <= CalcSize(FileOf(fd))
           THEN /\ n \in 1 .. CalcSize(FileOf(fd))
                /\ Target(fd, n) = BlocksOf[FileOf(fd)][n]
                /\ Target(fd, n) \in FirstUsable .. BlockCount
           ELSE Target(fd, n) = 0
<1>1. n \in Nat \ {0}
  BY DEF PositiveLines
<1>2. /\ FileOf(fd) \in File /\ disk[desc[fd].hdr] = FileOf(fd) /\ Readable(desc[fd].hdr)
      /\ desc[fd].size = CalcSize(FileOf(fd))
  BY OpenDescriptor
<1>3. CalcSize(FileOf(fd)) \in Nat
  BY <1>2, SizeType
<1>4. Target(fd, n) = IF n > CalcSize(FileOf(fd)) THEN 0 ELSE LineToBlock(FileOf(fd), n)
  BY <1>2 DEF Target
<1>5. CASE n <= CalcSize(FileOf(fd))
  <2>1. n \in 1 .. CalcSize(FileOf(fd)) /\ ~ (n > CalcSize(FileOf(fd)))
    BY <1>1, <1>3, <1>5
  <2>2. /\ LineToBlock(FileOf(fd), n) = BlocksOf[FileOf(fd)][n]
        /\ LineToBlock(FileOf(fd), n) \in FirstUsable .. BlockCount
    BY <1>2, <2>1, LinesPlaced
  <2> QED BY <1>4, <1>5, <2>1, <2>2
<1>6. CASE ~ (n <= CalcSize(FileOf(fd)))
  <2>1. n > CalcSize(FileOf(fd))
    BY <1>1, <1>3, <1>6
  <2> QED BY <1>4, <1>6, <2>1
<1> QED BY <1>5, <1>6

\* An entry that sys_fs_open finds
LEMMA EntryFound ==
    ASSUME FilesTypeOK, NEW f \in File, NEW b \in Entries(f)
    PROVE  /\ b \in FsHeader + 1 .. Len(Header) /\ b \in 1 .. Len(Header)
           /\ b <= Len(disk) /\ disk[b] = f
<1>1. b \in FsHeader + 1 .. FirstUsable - 1 /\ Readable(b) /\ disk[b] = f
  BY DEF Entries
<1> QED BY <1>1, HeaderType DEF Readable, FsHeader

\* An answer has a success and a value
LEMMA Answers ==
    /\ \A v : Ok(v).ok \in BOOLEAN /\ Ok(v).val = v
    /\ Error.ok \in BOOLEAN
BY DEF Ok, Error

\* What PowerOff leaves
LEMMA PoweredOff ==
    ASSUME PowerOff
    PROVE  /\ desc' \in [Fd -> [hdr : 0 .. Len(Header), size : Nat]]
           /\ up' \in BOOLEAN /\ result'.ok \in BOOLEAN
           /\ (EntriesKept /\ OffMeansClosed)'
<1>1. Closed \in [hdr : 0 .. Len(Header), size : Nat]
  BY HeaderType DEF Closed
<1>2. /\ desc' = [fd \in Fd |-> Closed] /\ up' = FALSE /\ result' = Error
      /\ \A fd \in Fd : desc'[fd] = Closed
  BY DEF PowerOff
<1>3. result'.ok \in BOOLEAN
  BY <1>2, Answers
<1>4. EntriesKept'
  BY <1>2 DEF EntriesKept
<1>5. OffMeansClosed'
  BY <1>2 DEF OffMeansClosed
<1>6. desc' \in [Fd -> [hdr : 0 .. Len(Header), size : Nat]]
  BY <1>1, <1>2
<1> QED BY <1>2, <1>3, <1>4, <1>5, <1>6

\* The image stays or is rewritten, as far as the header goes
LEMMA HeaderStays ==
    ASSUME FilesTypeOK, HeaderKept, NEW b \in FirstUsable .. BlockCount, NEW v,
           Leaves(disk', b, v)
    PROVE  HeaderKept'
<1> SUFFICES ASSUME NEW i \in 1 .. Len(Header), i <= Len(disk'), disk'[i] \in File,
                    NEW c \in 1 .. i
             PROVE  disk'[c] = Header[c]
  BY DEF HeaderKept
<1>1. /\ i <= Len(disk) /\ disk'[i] = disk[i]
      /\ \A k \in 1 .. i : k <= Len(disk') /\ k <= Len(disk) /\ disk'[k] = disk[k]
  BY HeaderLine
<1> QED BY <1>1 DEF HeaderKept

\* The invariant holds in the initial state
LEMMA InitInvariant == Init => IInv
<1> SUFFICES ASSUME Init PROVE IInv
  OBVIOUS
<1>1. PICK d \in [Used -> Data] :
          disk = Header \o [b \in 1 .. BlockCount - Len(Header) |->
                              IF b + Len(Header) \in Used THEN d[b + Len(Header)]
                              ELSE Blank]
  BY DEF Init
<1> DEFINE n == BlockCount - Len(Header)
           rest == [b \in 1 .. n |-> IF b + Len(Header) \in Used THEN d[b + Len(Header)]
                                     ELSE Blank]
<1>2. n \in Nat
  BY HeaderType, BlockNumbers
<1>3. rest \in Seq(Content) /\ Len(rest) = n
  <2>1. \A b \in 1 .. n : rest[b] \in Content
    BY DEF Content
  <2> HIDE DEF n
  <2> QED BY <1>2, <2>1
<1>4. Header \in Seq(Content)
  <2>1. Header \in Seq(File \cup {Blank, Mark})
    BY FilesConstants
  <2>2. File \cup {Blank, Mark} \subseteq Content
    BY DEF Content
  <2> QED BY <2>1, <2>2, SeqMonotonic
<1>5. disk = Header \o rest
  BY <1>1
<1> HIDE DEF rest
<1>6. /\ disk \in Seq(Content) /\ Len(disk) = Len(Header) + n
      /\ \A i \in 1 .. Len(Header) + n : disk[i] = IF i <= Len(Header) THEN Header[i]
                                                  ELSE rest[i - Len(Header)]
  <2> HIDE DEF n
  <2>1. /\ Header \o rest \in Seq(Content) /\ Len(Header \o rest) = Len(Header) + Len(rest)
        /\ \A i \in 1 .. Len(Header) + Len(rest) :
              (Header \o rest)[i] = IF i <= Len(Header) THEN Header[i]
                                    ELSE rest[i - Len(Header)]
    BY <1>3, <1>4, ConcatProperties
  <2> QED BY <1>3, <1>5, <2>1
<1>7. HeaderKept
  <2> SUFFICES ASSUME NEW b \in 1 .. Len(Header), NEW c \in 1 .. b
               PROVE  disk[c] = Header[c]
    BY DEF HeaderKept
  <2>1. c \in 1 .. Len(Header) + n /\ c <= Len(Header)
    BY <1>2, HeaderType
  <2> QED BY <1>6, <2>1
<1>8. /\ \A fd \in Fd : desc[fd] = Closed
      /\ desc = [fd \in Fd |-> Closed] /\ up = TRUE /\ result = Error
  BY DEF Init
<1>9. desc \in [Fd -> [hdr : 0 .. Len(Header), size : Nat]]
  <2>1. Closed \in [hdr : 0 .. Len(Header), size : Nat]
    BY HeaderType DEF Closed
  <2> QED BY <1>8, <2>1
<1>10. FilesTypeOK
  <2>1. Len(disk) <= BlockCount
    BY <1>2, <1>6, HeaderType, BlockNumbers
  <2>2. result.ok \in BOOLEAN /\ up \in BOOLEAN
    BY <1>8, Answers
  <2> QED BY <1>6, <1>9, <2>1, <2>2 DEF FilesTypeOK
<1> QED BY <1>7, <1>8, <1>10 DEF IInv, EntriesKept, OffMeansClosed

\* A step that leaves the image and the descriptors alone
LEMMA Looks ==
    ASSUME IInv, UNCHANGED <<disk, desc>>, up' \in BOOLEAN,
           result'.ok \in BOOLEAN, up => up'
    PROVE  IInv'
<1>1. FilesTypeOK'
  BY DEF IInv, FilesTypeOK
<1>2. HeaderKept'
  BY DEF IInv, HeaderKept
<1>3. EntriesKept'
  BY DEF IInv, EntriesKept
<1>4. OffMeansClosed'
  BY DEF IInv, OffMeansClosed
<1> QED BY <1>1, <1>2, <1>3, <1>4 DEF IInv

\* fs_open keeps it
LEMMA OpenInvariant ==
    ASSUME IInv, NEW f \in File, Open(f)
    PROVE  IInv'
<1>1. FilesTypeOK /\ HeaderKept /\ EntriesKept /\ up
  BY DEF IInv, Open
<1>2. UNCHANGED <<disk, up>> /\ up' \in BOOLEAN
  BY <1>1 DEF Open
<1>3. CASE Openable(f)
  <2>1. PICK fd \in FreeFd, b \in Entries(f) :
            /\ desc' = [desc EXCEPT ![fd] = [hdr |-> b, size |-> CalcSize(f)]]
            /\ result' = Ok(<<fd>>)
    BY <1>3 DEF Open
  <2>2. /\ b \in FsHeader + 1 .. Len(Header) /\ b \in 1 .. Len(Header)
        /\ b <= Len(disk) /\ disk[b] = f /\ fd \in Fd
    BY <1>1, EntryFound DEF FreeFd
  <2>3. b \in 0 .. Len(Header) /\ CalcSize(f) \in Nat
    BY <2>2, HeaderType, SizeType
  <2>4. /\ desc' \in [Fd -> [hdr : 0 .. Len(Header), size : Nat]]
        /\ \A c \in Fd : desc'[c] = IF c = fd THEN [hdr |-> b, size |-> CalcSize(f)]
                                    ELSE desc[c]
    <3>1. desc \in [Fd -> [hdr : 0 .. Len(Header), size : Nat]]
      BY <1>1 DEF FilesTypeOK
    <3>2. [hdr |-> b, size |-> CalcSize(f)] \in [hdr : 0 .. Len(Header), size : Nat]
      BY <2>3
    <3> DEFINE new == [hdr |-> b, size |-> CalcSize(f)]
    <3> HIDE DEF new
    <3>3. desc' = [desc EXCEPT ![fd] = new]
      BY <2>1 DEF new
    <3>4. new \in [hdr : 0 .. Len(Header), size : Nat]
      BY <3>2 DEF new
    <3>5. /\ desc' \in [Fd -> [hdr : 0 .. Len(Header), size : Nat]]
          /\ \A c \in Fd : desc'[c] = IF c = fd THEN new ELSE desc[c]
      BY <2>2, <3>1, <3>3, <3>4
    <3> QED BY <3>5 DEF new
  <2>5. FilesTypeOK'
    <3>1. result'.ok \in BOOLEAN
      BY <2>1, Answers
    <3> QED BY <1>1, <1>2, <2>4, <3>1 DEF FilesTypeOK
  <2>6. HeaderKept'
    BY <1>1, <1>2 DEF HeaderKept
  <2>7. EntriesKept'
    <3> SUFFICES ASSUME NEW c \in Fd, desc'[c] # Closed
                 PROVE  /\ desc'[c].hdr \in FsHeader + 1 .. Len(Header)
                        /\ desc'[c].hdr <= Len(disk)
                        /\ disk[desc'[c].hdr] \in File
                        /\ desc'[c].size = CalcSize(disk[desc'[c].hdr])
      BY <1>2 DEF EntriesKept
    <3>1. CASE c = fd
      <4>1. desc'[c].hdr = b /\ desc'[c].size = CalcSize(f)
        BY <2>4, <3>1
      <4> QED BY <2>2, <4>1
    <3>2. CASE c # fd
      BY <1>1, <2>4, <3>2 DEF EntriesKept
    <3> QED BY <3>1, <3>2
  <2>8. OffMeansClosed'
    BY <1>1, <1>2 DEF OffMeansClosed
  <2> QED BY <2>5, <2>6, <2>7, <2>8 DEF IInv
<1>4. CASE ~Openable(f)
  <2>1. result' = Error /\ UNCHANGED desc
    BY <1>4 DEF Open
  <2> QED BY <1>1, <1>2, <2>1, Answers, Looks
<1> QED BY <1>3, <1>4

\* fs_close keeps it
LEMMA CloseInvariant ==
    ASSUME IInv, NEW fd \in Fd, Close(fd)
    PROVE  IInv'
<1>1. /\ FilesTypeOK /\ HeaderKept /\ EntriesKept /\ up
      /\ UNCHANGED <<disk, up>> /\ result' = Ok(<<>>)
      /\ desc' = [desc EXCEPT ![fd] = Closed]
  BY DEF IInv, Close
<1>2. /\ desc' \in [Fd -> [hdr : 0 .. Len(Header), size : Nat]]
      /\ \A c \in Fd : desc'[c] = IF c = fd THEN Closed ELSE desc[c]
  <2>1. desc \in [Fd -> [hdr : 0 .. Len(Header), size : Nat]]
    BY <1>1 DEF FilesTypeOK
  <2>2. Closed \in [hdr : 0 .. Len(Header), size : Nat]
    BY HeaderType DEF Closed
  <2> QED BY <1>1, <2>1, <2>2
<1>3. FilesTypeOK'
  <2>1. result'.ok \in BOOLEAN
    BY <1>1, Answers
  <2> QED BY <1>1, <1>2, <2>1 DEF FilesTypeOK
<1>4. HeaderKept'
  BY <1>1 DEF HeaderKept
<1>5. EntriesKept'
  BY <1>1, <1>2 DEF EntriesKept
<1>6. OffMeansClosed'
  BY <1>1 DEF OffMeansClosed
<1> QED BY <1>3, <1>4, <1>5, <1>6 DEF IInv

\* fs_write keeps it
LEMMA WriteInvariant ==
    ASSUME IInv, PositiveLines, NEW fd \in Fd, NEW n \in Lines, NEW v \in Data, Write(fd, n, v)
    PROVE  IInv'
<1>1. /\ FilesTypeOK /\ HeaderKept /\ EntriesKept /\ up /\ desc[fd] # Closed
      /\ UNCHANGED <<desc, up>>
  BY DEF IInv, Write
<1>2. CASE ~Writable(Target(fd, n))
  <2>1. UNCHANGED disk /\ result' = Error
    BY <1>2 DEF Write
  <2> QED BY <1>1, <2>1, Answers, Looks DEF FilesTypeOK
<1>3. CASE Writable(Target(fd, n))
  <2> DEFINE b == Target(fd, n)
  <2>1. disk' = Rewritten(b, v) /\ result' = Ok(<<>>)
    BY <1>3 DEF Write
  <2>2. b \in FirstUsable .. BlockCount
    <3>1. ~ (0 >= 2)
      OBVIOUS
    <3>2. b # 0
      BY <1>3, <3>1 DEF Writable
    <3> QED BY <1>1, <3>2, TargetOfLine
  <2> HIDE DEF b
  <2>3. /\ Leaves(disk', b, v) /\ Len(disk') = (IF b > Len(disk) THEN b ELSE Len(disk))
        /\ \A i \in 1 .. Len(disk') : disk'[i] = Line(i, b, v)
    <3>1. Writable(b)
      BY <1>3 DEF b
    <3> QED BY <1>1, <2>1, <2>2, <3>1, RewrittenLeaves
  <2>4. FilesTypeOK'
    <3>1. result'.ok \in BOOLEAN
      BY <2>1, Answers
    <3> QED BY <1>1, <2>3, <3>1 DEF FilesTypeOK, Leaves
  <2>5. HeaderKept'
    BY <1>1, <2>2, <2>3, HeaderStays
  <2>6. EntriesKept'
    <3> SUFFICES ASSUME NEW c \in Fd, desc[c] # Closed
                 PROVE  /\ desc[c].hdr \in FsHeader + 1 .. Len(Header)
                        /\ desc[c].hdr <= Len(disk')
                        /\ disk'[desc[c].hdr] = disk[desc[c].hdr]
                        /\ disk[desc[c].hdr] \in File
                        /\ desc[c].size = CalcSize(disk[desc[c].hdr])
      BY <1>1 DEF EntriesKept
    <3> DEFINE h == desc[c].hdr
    <3>1. /\ h \in FsHeader + 1 .. Len(Header) /\ h <= Len(disk) /\ h \in 1 .. Len(Header)
          /\ disk[h] \in File /\ desc[c].size = CalcSize(disk[h])
      BY <1>1, OpenDescriptor DEF EntriesKept
    <3> HIDE DEF h
    <3>2. Len(disk) \in Nat /\ b \in Nat /\ Len(Header) < b /\ h \in Nat
      BY <1>1, <2>2, <3>1, DiskType, HeaderType, BlockNumbers
    <3>3. h <= Len(disk') /\ h \in 1 .. Len(disk') /\ h # b
      BY <2>3, <3>1, <3>2
    <3>4. disk'[h] = disk[h]
      BY <2>3, <3>1, <3>3 DEF Line
    <3> QED BY <3>1, <3>3, <3>4 DEF h
  <2>7. OffMeansClosed'
    BY <1>1 DEF OffMeansClosed
  <2> QED BY <2>4, <2>5, <2>6, <2>7 DEF IInv
<1> QED BY <1>2, <1>3

\* A write that is cut off keeps it
LEMMA StopInWriteInvariant ==
    ASSUME IInv, PositiveLines, NEW v \in Data, StopInWrite(v)
    PROVE  IInv'
<1>1. FilesTypeOK /\ HeaderKept /\ EntriesKept /\ PowerOff
  BY DEF IInv, StopInWrite
<1>2. PICK fd \in Fd \ FreeFd, n \in Lines :
          Writable(Target(fd, n)) /\ disk' \in CutShort(Rewritten(Target(fd, n), v))
  BY DEF StopInWrite
<1> DEFINE b == Target(fd, n)
<1>3. b \in FirstUsable .. BlockCount
  <2>1. desc[fd] # Closed
    BY DEF FreeFd
  <2>2. ~ (0 >= 2)
    OBVIOUS
  <2>3. b # 0
    BY <1>2, <2>2 DEF Writable
  <2> QED BY <1>1, <2>1, <2>3, TargetOfLine
<1> HIDE DEF b
<1>4. Leaves(disk', b, v)
  BY <1>1, <1>2, <1>3, CutShortLeaves DEF b
<1>5. FilesTypeOK'
  BY <1>1, <1>4, PoweredOff DEF FilesTypeOK, Leaves
<1>6. HeaderKept'
  BY <1>1, <1>3, <1>4, HeaderStays
<1> QED BY <1>1, <1>5, <1>6, PoweredOff DEF IInv

\* A stop of the machine keeps it
LEMMA StopInvariant ==
    ASSUME IInv, PowerOff, UNCHANGED disk
    PROVE  IInv'
<1>1. FilesTypeOK'
  BY PoweredOff DEF IInv, FilesTypeOK
<1>2. HeaderKept'
  BY DEF IInv, HeaderKept
<1> QED BY <1>1, <1>2, PoweredOff DEF IInv

\* Every step keeps it
LEMMA NextInvariant == IInv /\ PositiveLines /\ [Next]_vars => IInv'
<1> SUFFICES ASSUME IInv, PositiveLines, [Next]_vars PROVE IInv'
  OBVIOUS
<1>1. up \in BOOLEAN /\ result.ok \in BOOLEAN
  BY DEF IInv, FilesTypeOK
<1>2. ASSUME NEW f \in File, Open(f) PROVE IInv'
  BY <1>2, OpenInvariant
<1>3. ASSUME NEW f \in File, ReadAll(f) PROVE IInv'
  <2>1. UNCHANGED <<disk, desc, up>>
    BY <1>3 DEF ReadAll
  <2>2. result'.ok \in BOOLEAN
    <3>1. \E w : result' = Ok(w) \/ result' = Error
      BY <1>3 DEF ReadAll
    <3> QED BY <3>1, Answers
  <2> QED BY <1>1, <2>1, <2>2, Looks
<1>4. ASSUME NEW fd \in Fd, Close(fd) PROVE IInv'
  BY <1>4, CloseInvariant
<1>5. ASSUME NEW fd \in Fd, NEW n \in Lines, Read(fd, n) PROVE IInv'
  <2>1. UNCHANGED <<disk, desc, up>>
    BY <1>5 DEF Read
  <2>2. result'.ok \in BOOLEAN
    <3>1. \E w : result' = Ok(w) \/ result' = Error
      BY <1>5 DEF Read
    <3> QED BY <3>1, Answers
  <2> QED BY <1>1, <2>1, <2>2, Looks
<1>6. ASSUME NEW fd \in Fd, NEW n \in Lines, NEW v \in Data, Write(fd, n, v) PROVE IInv'
  BY <1>6, WriteInvariant
<1>7. ASSUME NEW v \in Data, StopInWrite(v) PROVE IInv'
  BY <1>7, StopInWriteInvariant
<1>8. CASE BadDescriptor
  BY <1>1, <1>8, Answers, Looks DEF BadDescriptor
<1>9. CASE ClosedDescriptor
  BY <1>9, StopInvariant DEF ClosedDescriptor
<1>10. CASE Stop
  BY <1>10, StopInvariant DEF Stop
<1>11. CASE Boot
  <2>1. UNCHANGED <<disk, desc, result>> /\ up' = TRUE
    BY <1>11 DEF Boot
  <2> QED BY <1>1, <2>1, Looks
<1>12. CASE UNCHANGED vars
  BY <1>1, <1>12, Looks DEF vars
<1> QED BY <1>2, <1>3, <1>4, <1>5, <1>6, <1>7, <1>8, <1>9, <1>10, <1>11, <1>12 DEF Next

\* It holds of every run whose lines are positive
LEMMA Invariance == PositiveLines /\ Spec => []IInv
<1>1. PositiveLines /\ Spec => [](IInv)
  <2>1. Init => IInv
    BY InitInvariant
  <2> SUFFICES ASSUME PositiveLines PROVE Spec => []IInv
    OBVIOUS
  <2>2. IInv /\ [Next]_vars => IInv'
    BY NextInvariant
  <2> QED BY <2>1, <2>2, PTL DEF Spec
<1> QED BY <1>1

\* Whatever is rewritten and cut short, the image never outgrows the disk, and
\* a descriptor never names a block outside the header.
THEOREM Types == PositiveLines /\ Spec => []FilesTypeOK
<1>1. IInv => FilesTypeOK
  BY DEF IInv
<1> QED BY <1>1, Invariance, PTL

\* While a descriptor is open its entry is there, and the size that was found at
\* the open is that of the file: the size sys_fs_read trusts is never stale.
THEOREM DescriptorsStayCurrent == PositiveLines /\ Spec => []DescriptorsCurrent
<1>1. IInv => DescriptorsCurrent
  <2> SUFFICES ASSUME IInv, NEW fd \in Fd, desc[fd] # Closed
               PROVE  /\ Readable(desc[fd].hdr)
                      /\ disk[desc[fd].hdr] \in File
                      /\ desc[fd].size = Len(BlocksOf[disk[desc[fd].hdr]])
    BY DEF DescriptorsCurrent
  <2>1. /\ FileOf(fd) \in File /\ disk[desc[fd].hdr] = FileOf(fd) /\ Readable(desc[fd].hdr)
        /\ desc[fd].size = CalcSize(FileOf(fd))
    BY OpenDescriptor DEF IInv
  <2> QED BY <2>1, BlocksPlaced
<1> QED BY <1>1, Invariance, PTL

-----------------------------------------------------------------------------
(* Files are texts                                                         *)

\* The entry of a file is there; what a line shows
Intact(f)   == Readable(EntryOf[f]) /\ disk[EntryOf[f]] = f
Shown(f, n) == IF Readable(BlocksOf[f][n]) /\ Intact(f) THEN disk[BlocksOf[f][n]] ELSE Lost
HandleOf(fd) == IF desc[fd] # Closed THEN FileOf(fd) ELSE NoFile

\* A file has one entry of the header, before the mark
LEMMA EntryIs ==
    ASSUME NEW f \in File
    PROVE  /\ EntryOf[f] \in FsHeader + 1 .. Len(Header) /\ EntryOf[f] \in 1 .. Len(Header)
           /\ Header[EntryOf[f]] = f
           /\ \A c \in 1 .. Len(Header) : Header[c] = f => c = EntryOf[f]
           /\ \A c \in FsHeader + 1 .. EntryOf[f] - 1 : Header[c] \notin {f, Mark}
<1>1. PICK b \in FsHeader + 1 .. Len(Header) :
          /\ Header[b] = f
          /\ \A c \in FsHeader + 1 .. b - 1 : Header[c] # Mark
          /\ \A c \in DOMAIN Header : Header[c] = f => c = b
  BY FilesConstants
<1>2. b \in 1 .. Len(Header) /\ b \in DOMAIN Header
  BY HeaderType DEF FsHeader
<1>3. EntryOf[f] = CHOOSE c \in DOMAIN Header : Header[c] = f
  BY DEF EntryOf
<1>4. EntryOf[f] = b
  BY <1>1, <1>2, <1>3
<1>5. ASSUME NEW c \in FsHeader + 1 .. b - 1 PROVE Header[c] \notin {f, Mark}
  <2>1. c \in DOMAIN Header /\ c # b
    BY <1>2, HeaderType DEF FsHeader
  <2> QED BY <1>1, <2>1
<1> QED BY <1>1, <1>2, <1>4, <1>5, HeaderType

\* sys_fs_open finds the entry of a file exactly if it is there
LEMMA IntactIsFound ==
    ASSUME FilesTypeOK, HeaderKept, NEW f \in File
    PROVE  /\ Intact(f) <=> Entries(f) # {}
           /\ \A b \in Entries(f) : b = EntryOf[f]
<1>1. ASSUME NEW b \in Entries(f) PROVE b = EntryOf[f] /\ Intact(f)
  <2>1. b \in 1 .. Len(Header) /\ b <= Len(disk) /\ disk[b] = f /\ Readable(b)
    BY EntryFound DEF Entries
  <2>2. Header[b] = f
    BY <2>1 DEF HeaderKept
  <2>3. b = EntryOf[f]
    BY <2>1, <2>2, EntryIs
  <2> QED BY <2>1, <2>3 DEF Intact
<1>2. ASSUME Intact(f) PROVE EntryOf[f] \in Entries(f)
  <2> DEFINE e == EntryOf[f]
  <2>1. /\ e \in FsHeader + 1 .. Len(Header) /\ e \in 1 .. Len(Header)
        /\ \A c \in FsHeader + 1 .. e - 1 : Header[c] \notin {f, Mark}
    BY EntryIs
  <2>2. Readable(e) /\ disk[e] = f /\ e <= Len(disk)
    BY <1>2 DEF Intact, Readable
  <2> HIDE DEF e
  <2>3. \A c \in 1 .. e : disk[c] = Header[c]
    BY <2>1, <2>2 DEF HeaderKept
  <2>4. FsHeader \in 1 .. e /\ \A c \in FsHeader + 1 .. e - 1 : c \in 1 .. e
    BY <2>1, HeaderType DEF FsHeader
  <2>5. disk[FsHeader] = Mark
    BY <2>3, <2>4, FilesConstants
  <2>6. e \in FsHeader + 1 .. FirstUsable - 1
    BY <2>1, HeaderType DEF FsHeader
  <2>7. \A c \in FsHeader + 1 .. e - 1 : disk[c] \notin {f, Mark}
    BY <2>1, <2>3, <2>4
  <2> QED BY <2>2, <2>5, <2>6, <2>7 DEF Entries, e
<1> QED BY <1>1, <1>2

\* The handle of a descriptor
LEMMA HandleIs ==
    ASSUME IInv, NEW fd \in Fd
    PROVE  /\ HandleOf(fd) = NoFile <=> fd \in FreeFd
           /\ HandleOf(fd) # NoFile => HandleOf(fd) \in File /\ Intact(HandleOf(fd))
<1>1. FilesTypeOK /\ HeaderKept /\ EntriesKept
  BY DEF IInv
<1>2. CASE desc[fd] = Closed
  BY <1>2 DEF HandleOf, FreeFd
<1>3. CASE desc[fd] # Closed
  <2>1. /\ FileOf(fd) \in File /\ disk[desc[fd].hdr] = FileOf(fd)
        /\ desc[fd].hdr \in 1 .. Len(Header) /\ Readable(desc[fd].hdr)
    BY <1>1, <1>3, OpenDescriptor
  <2>2. desc[fd].hdr = EntryOf[FileOf(fd)]
    BY <2>1, EntryIs DEF FileOf
  <2>3. Intact(FileOf(fd))
    BY <2>1, <2>2 DEF Intact
  <2>4. FileOf(fd) # NoFile
    BY <2>1, FilesContents
  <2> QED BY <1>3, <2>1, <2>3, <2>4 DEF HandleOf, FreeFd
<1> QED BY <1>2, <1>3

\* The mapping
LEMMA TextIs ==
    /\ TextOnDisk = [f \in File |-> [n \in 1 .. CalcSize(f) |-> Shown(f, n)]]
    /\ TextOnDisk' = [f \in File |-> [n \in 1 .. CalcSize(f) |-> Shown(f, n)']]
    /\ \A f \in File : Text!Line(f) = 1 .. CalcSize(f)
    /\ \A f \in File : [g \in File |-> Len(BlocksOf[g])][f] = CalcSize(f)
<1>1. \A f \in File : Len(BlocksOf[f]) = CalcSize(f) /\ DOMAIN BlocksOf[f] = 1 .. CalcSize(f)
  BY BlocksPlaced, LenProperties
<1>2. \A f \in File : [g \in File |-> Len(BlocksOf[g])][f] = CalcSize(f)
  BY <1>1
<1>3. \A f \in File : Text!Line(f) = 1 .. CalcSize(f)
  BY <1>1 DEF Text!Line
<1>4. TextOnDisk = [f \in File |-> [n \in 1 .. CalcSize(f) |-> Shown(f, n)]]
  BY <1>1 DEF TextOnDisk, Shown, Intact
<1>5. TextOnDisk' = [f \in File |-> [n \in 1 .. CalcSize(f) |-> Shown(f, n)']]
  BY <1>1 DEF TextOnDisk, Shown, Intact
<1> QED BY <1>2, <1>3, <1>4, <1>5

\* The handles of all descriptors
LEMMA HandlesAre ==
    /\ OffMeansClosed => OpenFiles = [fd \in Fd |-> HandleOf(fd)]
    /\ OffMeansClosed' => OpenFiles' = [fd \in Fd |-> HandleOf(fd)']
<1>1. ASSUME OffMeansClosed PROVE OpenFiles = [fd \in Fd |-> HandleOf(fd)]
  BY <1>1 DEF OffMeansClosed, OpenFiles, HandleOf, FileOf
<1>2. ASSUME OffMeansClosed' PROVE OpenFiles' = [fd \in Fd |-> HandleOf(fd)']
  BY <1>2 DEF OffMeansClosed, OpenFiles, HandleOf, FileOf
<1> QED BY <1>1, <1>2

\* As long as the image stays the texts do
LEMMA SameText ==
    ASSUME UNCHANGED disk
    PROVE  TextOnDisk' = TextOnDisk
BY DEF TextOnDisk, Readable

\* Descriptors that stay have the handles they had
LEMMA SameHandles ==
    ASSUME IInv, IInv', UNCHANGED desc
    PROVE  OpenFiles' = OpenFiles
<1>1. \A fd \in Fd : HandleOf(fd)' = HandleOf(fd)
  BY DEF HandleOf, FileOf
<1> QED BY <1>1, HandlesAre DEF IInv

\* The value of a line after a rewrite, whole or cut short
LEMMA ShownAfter ==
    ASSUME FilesTypeOK, HeaderKept, NEW b \in FirstUsable .. BlockCount, NEW v,
           Leaves(disk', b, v), NEW f \in File, NEW n \in 1 .. CalcSize(f)
    PROVE  \/ Shown(f, n)' = Lost
           \/ BlocksOf[f][n] = b /\ Intact(f) /\ Shown(f, n)' = v
           \/ Shown(f, n)' = Shown(f, n)
           \/ Shown(f, n)' = Blank /\ Shown(f, n) = Lost
           \/ Shown(f, n)' = Torn /\ BlocksOf[f][n] = Len(disk')
<1> DEFINE B == BlocksOf[f][n]
           e == EntryOf[f]
<1>1. B \in FirstUsable .. BlockCount
  BY LinesPlaced
<1>2. e \in 1 .. Len(Header)
  BY EntryIs
<1> HIDE DEF B, e
<1>3. CASE ~ (Readable(B)' /\ Intact(f)')
  BY <1>3 DEF Shown, B
<1>4. CASE Readable(B)' /\ Intact(f)'
  <2>1. Shown(f, n)' = disk'[B] /\ B \in 1 .. Len(disk')
    <3>1. B >= 1 /\ B <= Len(disk') /\ B \in Nat
      BY <1>1, <1>4, BlockNumbers DEF Readable
    <3>2. Len(disk') \in Nat
      BY LenProperties DEF Leaves
    <3> QED BY <1>4, <3>1, <3>2 DEF Shown, B
  <2>2. e <= Len(disk') /\ disk'[e] \in File /\ disk'[e] = f
    BY <1>4 DEF Intact, Readable, e
  <2>3. e <= Len(disk) /\ disk'[e] = disk[e]
    BY <1>2, <2>2, HeaderLine
  <2>4. Intact(f)
    BY <1>2, <2>2, <2>3, HeaderType, BlockNumbers DEF Intact, Readable, e
  <2>5. disk'[B] = Line(B, b, v) \/ (B = Len(disk') /\ disk'[B] = Torn)
    BY <2>1 DEF Leaves
  <2>6. CASE B = Len(disk') /\ disk'[B] = Torn
    BY <2>1, <2>6 DEF B
  <2>7. CASE disk'[B] = Line(B, b, v)
    <3>1. CASE B = b
      BY <2>1, <2>4, <2>7, <3>1 DEF Line, B
    <3>2. CASE B # b /\ B <= Len(disk)
      <4>1. Readable(B)
        BY <1>1, <3>2, BlockNumbers DEF Readable
      <4> QED BY <2>1, <2>4, <2>7, <3>2, <4>1 DEF Line, Shown, B
    <3>3. CASE B # b /\ ~ (B <= Len(disk))
      BY <2>1, <2>7, <3>3 DEF Line, Shown, B, Readable
    <3> QED BY <3>1, <3>2, <3>3
  <2> QED BY <2>5, <2>6, <2>7
<1> QED BY <1>3, <1>4

\* The mapping, one descriptor and one line at a time
LEMMA Mapped ==
    ASSUME IInv, IInv'
    PROVE  /\ Text!Fd = Fd /\ Text!Error = Error /\ \A v : Text!Ok(v) = Ok(v)
           /\ OpenFiles = [fd \in Fd |-> HandleOf(fd)]
           /\ OpenFiles' = [fd \in Fd |-> HandleOf(fd)']
           /\ \A fd \in Fd : OpenFiles[fd] = HandleOf(fd)
           /\ \A f \in File : \A n \in 1 .. CalcSize(f) :
                 TextOnDisk[f][n] = Shown(f, n) /\ TextOnDisk'[f][n] = Shown(f, n)'
           /\ \A f \in File : Text!Line(f) = 1 .. CalcSize(f)
<1>1. OpenFiles = [fd \in Fd |-> HandleOf(fd)] /\ OpenFiles' = [fd \in Fd |-> HandleOf(fd)']
  BY HandlesAre DEF IInv
<1>2. \A fd \in Fd : OpenFiles[fd] = HandleOf(fd)
  BY <1>1
<1>3. \A f \in File : \A n \in 1 .. CalcSize(f) :
          TextOnDisk[f][n] = Shown(f, n) /\ TextOnDisk'[f][n] = Shown(f, n)'
  BY TextIs
<1>4. Text!Fd = Fd /\ Text!Error = Error /\ \A v : Text!Ok(v) = Ok(v)
  BY DEF Text!Fd, Fd, Text!Error, Error, Text!Ok, Ok
<1> QED BY <1>1, <1>2, <1>3, <1>4, TextIs

\* All handles are used if and only if no descriptor is free
LEMMA NoneFree ==
    ASSUME IInv, IInv'
    PROVE  Text!AllUsed <=> FreeFd = {}
<1>1. \A fd \in Fd : OpenFiles[fd] = NoFile <=> fd \in FreeFd
  BY Mapped, HandleIs
<1> QED BY <1>1, Mapped DEF Text!AllUsed, FreeFd

\* A file without an entry cannot be read
LEMMA NotThere ==
    ASSUME IInv, IInv', NEW f \in File, Entries(f) = {}
    PROVE  Text!Unreadable(f)
<1>1. ~Intact(f)
  BY IntactIsFound DEF IInv
<1>2. \A n \in 1 .. CalcSize(f) : TextOnDisk[f][n] = Lost
  BY <1>1, Mapped DEF Shown
<1> QED BY <1>2, Mapped DEF Text!Unreadable

\* fs_open opens a text file
LEMMA OpenRefines ==
    ASSUME IInv, IInv', NEW f \in File, Open(f)
    PROVE  Text!Next
<1>1. TextOnDisk' = TextOnDisk
  BY SameText DEF Open
<1>2. CASE ~Openable(f)
  <2>1. result' = Error /\ UNCHANGED desc
    BY <1>2 DEF Open
  <2>2. OpenFiles' = OpenFiles
    BY <2>1, SameHandles
  <2>3. Text!AllUsed \/ Text!Unreadable(f)
    BY <1>2, NoneFree, NotThere DEF Openable
  <2>4. Text!Open(f)
    BY <1>1, <2>1, <2>2, <2>3, Mapped DEF Text!Open
  <2> QED BY <2>4 DEF Text!Next
<1>3. CASE Openable(f)
  <2>1. PICK fd \in FreeFd, b \in Entries(f) :
            /\ desc' = [desc EXCEPT ![fd] = [hdr |-> b, size |-> CalcSize(f)]]
            /\ result' = Ok(<<fd>>)
    BY <1>3 DEF Open
  <2>2. fd \in Fd /\ desc[fd] = Closed /\ desc \in [Fd -> [hdr : 0 .. Len(Header), size : Nat]]
    BY DEF FreeFd, IInv, FilesTypeOK
  <2>3. Header[b] = f /\ b # 0 /\ b \in 1 .. Len(Header)
    BY IntactIsFound, EntryIs, HeaderType DEF IInv
  <2>4. HandleOf(fd)' = f
    <3>1. desc'[fd] = [hdr |-> b, size |-> CalcSize(f)]
      BY <2>1, <2>2
    <3>2. desc'[fd].hdr = b /\ Closed.hdr = 0
      BY <3>1 DEF Closed
    <3> QED BY <2>3, <3>2 DEF HandleOf, FileOf
  <2>5. \A d \in Fd : d # fd => HandleOf(d)' = HandleOf(d)
    BY <2>1, <2>2 DEF HandleOf, FileOf
  <2>6. OpenFiles' = [OpenFiles EXCEPT ![fd] = f]
    BY <2>2, <2>4, <2>5, Mapped
  <2>7. OpenFiles[fd] = NoFile
    BY <2>2, Mapped DEF HandleOf
  <2>8. Text!Open(f)
    BY <1>1, <2>1, <2>2, <2>6, <2>7, Mapped DEF Text!Open
  <2> QED BY <2>8 DEF Text!Next
<1> QED BY <1>2, <1>3

\* fs_close closes it
LEMMA CloseRefines ==
    ASSUME IInv, IInv', NEW fd \in Fd, Close(fd)
    PROVE  Text!Next
<1>1. TextOnDisk' = TextOnDisk
  BY SameText DEF Close
<1>2. desc' = [desc EXCEPT ![fd] = Closed] /\ result' = Ok(<<>>)
  BY DEF Close
<1>3. desc \in [Fd -> [hdr : 0 .. Len(Header), size : Nat]]
  BY DEF IInv, FilesTypeOK
<1>4. HandleOf(fd)' = NoFile
  BY <1>2, <1>3 DEF HandleOf
<1>5. \A d \in Fd : d # fd => HandleOf(d)' = HandleOf(d)
  BY <1>2, <1>3 DEF HandleOf, FileOf
<1>6. OpenFiles' = [OpenFiles EXCEPT ![fd] = NoFile]
  BY <1>4, <1>5, Mapped
<1>7. Text!Close(fd)
  BY <1>1, <1>2, <1>6, Mapped DEF Text!Close
<1> QED BY <1>7, Mapped DEF Text!Next

\* A call that is refused
LEMMA RefuseRefines ==
    ASSUME IInv, IInv', UNCHANGED <<disk, desc>>, result' = Error
    PROVE  Text!Next
<1>1. TextOnDisk' = TextOnDisk /\ OpenFiles' = OpenFiles
  BY SameText, SameHandles
<1>2. Text!Refuse
  BY <1>1, Mapped DEF Text!Refuse
<1> QED BY <1>2 DEF Text!Next

\* What a descriptor and a line number mean for the text
LEMMA LineOfTarget ==
    ASSUME IInv, IInv', PositiveLines, NEW fd \in Fd, desc[fd] # Closed, NEW n \in Lines
    PROVE  \/ Target(fd, n) = 0
           \/ \E f \in File :
                 /\ HandleOf(fd) = f /\ OpenFiles[fd] = f /\ f # NoFile /\ Intact(f)
                 /\ n \in 1 .. CalcSize(f) /\ n \in Text!Line(f)
                 /\ Target(fd, n) = BlocksOf[f][n]
                 /\ Target(fd, n) \in FirstUsable .. BlockCount
<1>1. FilesTypeOK /\ HeaderKept /\ EntriesKept
  BY DEF IInv
<1>2. HandleOf(fd) # NoFile /\ HandleOf(fd) = FileOf(fd)
  BY HandleIs DEF FreeFd, HandleOf
<1>3. HandleOf(fd) \in File /\ Intact(HandleOf(fd))
  BY <1>2, HandleIs
<1>4. CASE n <= CalcSize(FileOf(fd))
  BY <1>1, <1>2, <1>3, <1>4, TargetOfLine, Mapped
<1>5. CASE ~ (n <= CalcSize(FileOf(fd)))
  BY <1>1, <1>5, TargetOfLine
<1> QED BY <1>4, <1>5

\* fs_read reads a line of the text
LEMMA ReadRefines ==
    ASSUME IInv, IInv', PositiveLines, NEW fd \in Fd, NEW n \in Lines, Read(fd, n)
    PROVE  Text!Next
<1>1. /\ UNCHANGED <<disk, desc>> /\ desc[fd] # Closed
      /\ result' = IF Readable(Target(fd, n)) THEN Ok(<<disk[Target(fd, n)]>>) ELSE Error
  BY DEF Read
<1>2. CASE ~Readable(Target(fd, n))
  BY <1>1, <1>2, RefuseRefines
<1>3. CASE Readable(Target(fd, n))
  <2>1. Target(fd, n) # 0
    BY <1>3 DEF Readable
  <2>2. PICK f \in File :
            /\ OpenFiles[fd] = f /\ f # NoFile /\ Intact(f)
            /\ n \in 1 .. CalcSize(f) /\ n \in Text!Line(f)
            /\ Target(fd, n) = BlocksOf[f][n]
            /\ Target(fd, n) \in FirstUsable .. BlockCount
    BY <1>1, <2>1, LineOfTarget
  <2>3. TextOnDisk[f][n] = disk[Target(fd, n)]
    BY <1>3, <2>2, Mapped DEF Shown
  <2>4. disk[Target(fd, n)] # Lost
    <3>1. Target(fd, n) \in 1 .. Len(disk)
      BY <1>3, <2>2, BlockNumbers, DiskType DEF Readable, IInv
    <3> QED BY <3>1, DiskType, FilesContents DEF Content, IInv
  <2>5. TextOnDisk' = TextOnDisk /\ OpenFiles' = OpenFiles
    BY <1>1, SameText, SameHandles
  <2>6. Text!Read(fd, n)
    BY <1>1, <1>3, <2>2, <2>3, <2>4, <2>5, Mapped DEF Text!Read
  <2>7. fd \in Text!Fd
    BY Mapped
  <2> QED BY <2>2, <2>6, <2>7 DEF Text!Next
<1> QED BY <1>2, <1>3

\* A file is read up to one place: where the first line is missing
EndOf(m, N, R) == (\A n \in 1 .. m : n \in R) /\ (m = N \/ m + 1 \notin R)

\* A text has one end
LEMMA OneEnd ==
    ASSUME NEW N \in Nat, NEW R
    PROVE  /\ \E m \in 0 .. N : EndOf(m, N, R)
           /\ \A m, k \in 0 .. N : EndOf(m, N, R) /\ EndOf(k, N, R) => m = k
<1>1. ASSUME NEW m \in 0 .. N, NEW k \in 0 .. N, EndOf(m, N, R), EndOf(k, N, R), m < k
      PROVE  FALSE
  <2>1. m + 1 \in 1 .. k /\ m # N
    BY <1>1
  <2> QED BY <1>1, <2>1 DEF EndOf
<1>2. \E m \in 0 .. N : EndOf(m, N, R)
  <2> DEFINE S == {m \in 0 .. N : m = N \/ m + 1 \notin R}
  <2>1. S \in SUBSET Nat /\ N \in S
    OBVIOUS
  <2>2. PICK m \in S : \A k \in S : m <= k
    BY <2>1, LeastElement
  <2>3. ASSUME NEW n \in 1 .. m PROVE n \in R
    <3>1. n - 1 \in 0 .. N /\ n - 1 < m /\ n - 1 # N /\ (n - 1) + 1 = n
      BY <2>1
    <3>2. n - 1 \notin S
      BY <2>2, <3>1
    <3> QED BY <3>1, <3>2
  <2>4. m \in 0 .. N /\ (m = N \/ m + 1 \notin R)
    OBVIOUS
  <2> QED BY <2>3, <2>4 DEF EndOf
<1>3. ASSUME NEW m \in 0 .. N, NEW k \in 0 .. N, EndOf(m, N, R), EndOf(k, N, R)
      PROVE  m = k
  BY <1>1, <1>3
<1> QED BY <1>2, <1>3

\* The lines that a whole read returns are those before the first lost one
LEMMA WholeFile ==
    ASSUME IInv, IInv', NEW f \in File, Intact(f), ReadAll(f), Openable(f)
    PROVE  result' = Ok(Text!UpToLost(f))
<1> DEFINE N == CalcSize(f)
           block(n) == LineToBlock(f, n)
           R == {n \in 1 .. N : Readable(block(n))}
           lost == {n \in Text!Line(f) : TextOnDisk[f][n] = Lost}
           P(m) == (\A n \in 1 .. m : Readable(block(n))) /\ (m = N \/ ~Readable(block(m + 1)))
           Q(m) == (\A n \in 1 .. m : n \notin lost) /\ (m = N \/ m + 1 \in lost)
           end == CHOOSE m \in 0 .. N : P(m)
           last == CHOOSE m \in 0 .. N : Q(m)
<1>1. result' = Ok([n \in 1 .. end |-> disk[block(n)]])
  BY DEF ReadAll
<1>2. N \in Nat
  BY SizeType
<1>3. \A n \in 1 .. N : block(n) = BlocksOf[f][n] /\ block(n) \in FirstUsable .. BlockCount
  BY LinesPlaced
<1>4. ASSUME NEW n \in 1 .. N
      PROVE  /\ n \in R <=> n \notin lost
             /\ n \in R => TextOnDisk[f][n] = disk[block(n)]
  <2>1. CASE Readable(block(n))
    <3>1. TextOnDisk[f][n] = disk[block(n)]
      BY <1>3, <2>1, Mapped DEF Shown
    <3>2. block(n) \in 1 .. Len(disk)
      BY <1>3, <2>1, BlockNumbers, DiskType DEF Readable, IInv
    <3>3. disk[block(n)] # Lost
      BY <3>2, DiskType, FilesContents DEF Content, IInv
    <3> QED BY <2>1, <3>1, <3>3
  <2>2. CASE ~Readable(block(n))
    <3>1. TextOnDisk[f][n] = Lost
      BY <1>3, <2>2, Mapped DEF Shown
    <3> QED BY <2>2, <3>1, Mapped
  <2> QED BY <2>1, <2>2
<1>5. \A n \in 1 .. N : n \in R <=> Readable(block(n))
  OBVIOUS
<1> HIDE DEF R, lost, block, N
<1>6. ASSUME NEW m \in 0 .. N PROVE (P(m) <=> EndOf(m, N, R)) /\ (Q(m) <=> EndOf(m, N, R))
  <2>1. (\A n \in 1 .. m : n \in 1 .. N) /\ (m # N => m + 1 \in 1 .. N)
    BY <1>2
  <2> QED BY <1>4, <1>5, <2>1 DEF EndOf
<1>7. PICK m \in 0 .. N : EndOf(m, N, R)
  BY <1>2, OneEnd
<1>8. end \in 0 .. N /\ P(end)
  BY <1>6, <1>7
<1>9. last \in 0 .. N /\ Q(last)
  BY <1>6, <1>7
<1> HIDE DEF end, last
<1>10. end = last /\ EndOf(end, N, R)
  BY <1>2, <1>6, <1>8, <1>9, OneEnd
<1>11. \A n \in 1 .. end : disk[block(n)] = TextOnDisk[f][n]
  <2>1. \A n \in 1 .. end : n \in 1 .. N /\ n \in R
    BY <1>2, <1>8, <1>10 DEF EndOf
  <2> QED BY <1>4, <2>1
<1>12. Text!UpToLost(f) = [n \in 1 .. last |-> TextOnDisk[f][n]]
  BY TextIs DEF Text!UpToLost, last, lost, N
<1> QED BY <1>1, <1>10, <1>11, <1>12

\* fs_read_all reads the whole text
LEMMA ReadAllRefines ==
    ASSUME IInv, IInv', NEW f \in File, ReadAll(f)
    PROVE  Text!Next
<1>1. TextOnDisk' = TextOnDisk /\ OpenFiles' = OpenFiles
  BY SameText, SameHandles DEF ReadAll
<1>2. CASE Openable(f)
  <2>1. Intact(f)
    BY <1>2, IntactIsFound DEF Openable, IInv
  <2>2. result' = Ok(Text!UpToLost(f))
    BY <1>2, <2>1, WholeFile
  <2>3. ~Text!AllUsed
    BY <1>2, NoneFree DEF Openable
  <2>4. Text!ReadAll(f)
    BY <1>1, <2>2, <2>3, Mapped DEF Text!ReadAll
  <2> QED BY <2>4 DEF Text!Next
<1>3. CASE ~Openable(f)
  <2>1. result' = Error
    BY <1>3 DEF ReadAll
  <2>2. Text!AllUsed \/ Text!Unreadable(f)
    BY <1>3, NoneFree, NotThere DEF Openable
  <2>3. Text!ReadAll(f)
    BY <1>1, <2>1, <2>2, Mapped DEF Text!ReadAll
  <2> QED BY <2>3 DEF Text!Next
<1> QED BY <1>2, <1>3

\* A write that is done leaves no line torn, and the image no shorter
LEMMA WriteRefines ==
    ASSUME IInv, IInv', PositiveLines, NEW fd \in Fd, NEW n \in Lines, NEW v \in Data,
           Write(fd, n, v)
    PROVE  Text!Next
<1>0. PICK b : b = Target(fd, n)
  OBVIOUS
<1>1. UNCHANGED desc /\ desc[fd] # Closed
  BY DEF Write
<1>2. CASE ~Writable(b)
  <2>1. UNCHANGED disk /\ result' = Error
    BY <1>0, <1>2 DEF Write
  <2> QED BY <1>1, <2>1, RefuseRefines
<1>3. CASE Writable(b)
  <2>1. disk' = Rewritten(b, v) /\ result' = Ok(<<>>)
    BY <1>0, <1>3 DEF Write
  <2>2. b # 0
    BY <1>3 DEF Writable
  <2>3. PICK f \in File :
            /\ OpenFiles[fd] = f /\ f # NoFile /\ Intact(f)
            /\ n \in 1 .. CalcSize(f) /\ n \in Text!Line(f)
            /\ b = BlocksOf[f][n] /\ b \in FirstUsable .. BlockCount
    BY <1>0, <1>1, <2>2, LineOfTarget
  <2>4. FilesTypeOK /\ HeaderKept
    BY DEF IInv
  <2>5. /\ Leaves(disk', b, v)
        /\ Len(disk') = IF b > Len(disk) THEN b ELSE Len(disk)
        /\ \A i \in 1 .. Len(disk') : disk'[i] = Line(i, b, v)
    BY <1>3, <2>1, <2>3, <2>4, RewrittenLeaves
  <2>6. Len(disk) \in Nat /\ b \in Nat /\ b >= 1 /\ b <= BlockCount /\ Len(Header) < b
    BY <2>3, <2>4, DiskType, BlockNumbers, HeaderType
  <2>7. Shown(f, n)' = v
    <3>1. Readable(b)' /\ disk'[b] = v
      BY <2>5, <2>6 DEF Readable, Line
    <3>2. EntryOf[f] \in 1 .. Len(Header)
      BY EntryIs
    <3>3. EntryOf[f] <= Len(disk) /\ disk[EntryOf[f]] = f /\ EntryOf[f] >= 1 /\ EntryOf[f] <= BlockCount
      BY <2>3 DEF Intact, Readable
    <3>4. disk'[EntryOf[f]] = f /\ Readable(EntryOf[f])'
      BY <2>5, <2>6, <3>2, <3>3, HeaderType DEF Line, Readable
    <3> QED BY <2>3, <3>1, <3>4 DEF Shown, Intact
  <2>8. ASSUME NEW g \in File, NEW m \in 1 .. CalcSize(g), ~ (g = f /\ m = n)
        PROVE  \/ Shown(g, m)' = Shown(g, m)
               \/ Shown(g, m)' = Blank /\ Shown(g, m) = Lost
    <3>0. PICK c, e : c = BlocksOf[g][m] /\ e = EntryOf[g]
      OBVIOUS
    <3>1. c # b
      BY <2>3, <2>8, <3>0, LinesApart
    <3>2. c \in FirstUsable .. BlockCount /\ c \in Nat /\ c >= 1 /\ c <= BlockCount
      BY <3>0, LinesPlaced, BlockNumbers
    <3>3. e \in 1 .. Len(Header) /\ e # b
      BY <2>6, <3>0, EntryIs
    <3>4. Readable(e) => Readable(e)' /\ disk'[e] = disk[e]
      BY <2>5, <2>6, <3>3 DEF Readable, Line
    <3>5. Readable(c) => Readable(c)' /\ disk'[c] = disk[c]
      BY <2>5, <2>6, <3>1, <3>2 DEF Readable, Line
    <3>6. Readable(c)' /\ ~Readable(c) => disk'[c] = Blank
      BY <2>5, <2>6, <3>1, <3>2 DEF Readable, Line
    <3>7. Intact(g)' => Intact(g)
      <4>1. SUFFICES ASSUME Intact(g)' PROVE Intact(g)
        OBVIOUS
      <4>2. e <= Len(disk') /\ disk'[e] \in File /\ disk'[e] = g
        BY <3>0, <4>1 DEF Intact, Readable
      <4>3. e <= Len(disk) /\ disk'[e] = disk[e]
        BY <2>3, <2>4, <2>5, <3>3, <4>2, HeaderLine
      <4>4. e >= 1 /\ e <= BlockCount /\ disk[e] = g
        BY <3>3, <4>2, <4>3, HeaderType, BlockNumbers
      <4> QED BY <3>0, <4>3, <4>4 DEF Intact, Readable
    <3>8. Intact(g) => Intact(g)'
      BY <3>0, <3>4 DEF Intact
    <3> QED BY <3>0, <3>5, <3>6, <3>7, <3>8 DEF Shown
  <2>9. OpenFiles' = OpenFiles
    BY <1>1, SameHandles
  <2>10. \A g \in File : \A m \in Text!Line(g) :
            IF g = OpenFiles[fd] /\ m = n THEN TextOnDisk'[g][m] = v
            ELSE \/ TextOnDisk'[g][m] = TextOnDisk[g][m]
                 \/ TextOnDisk'[g][m] = Blank /\ TextOnDisk[g][m] = Lost
    <3>1. TAKE g \in File
    <3>2. TAKE m \in Text!Line(g)
    <3>3. m \in 1 .. CalcSize(g)
      BY Mapped
    <3>4. TextOnDisk[g][m] = Shown(g, m) /\ TextOnDisk'[g][m] = Shown(g, m)'
      BY <3>3, Mapped
    <3>5. CASE g = f /\ m = n
      BY <2>3, <2>7, <3>4, <3>5
    <3>6. CASE ~ (g = f /\ m = n)
      BY <2>3, <2>8, <3>3, <3>4, <3>6
    <3> QED BY <3>5, <3>6
  <2>11. Text!Write(fd, n, v)
    BY <2>1, <2>9, <2>10, Mapped DEF Text!Write
  <2>12. fd \in Text!Fd
    BY Mapped
  <2> QED BY <2>3, <2>11, <2>12 DEF Text!Next
<1> QED BY <1>2, <1>3

\* The machine goes off: nothing stays open
LEMMA AllClosed ==
    ASSUME IInv, IInv', PowerOff
    PROVE  OpenFiles' = [fd \in Text!Fd |-> NoFile] /\ result' = Text!Error
<1>1. \A fd \in Fd : HandleOf(fd)' = NoFile
  BY DEF PowerOff, HandleOf
<1> QED BY <1>1, Mapped DEF PowerOff

\* A stop closes every handle
LEMMA StopRefines ==
    ASSUME IInv, IInv', PowerOff, UNCHANGED disk
    PROVE  Text!Next
<1>1. TextOnDisk' = TextOnDisk
  BY SameText
<1>2. Text!Stop
  BY <1>1, AllClosed DEF Text!Stop, Text!AtMostOne
<1> QED BY <1>2 DEF Text!Next

\* A write that is cut off wrote the line or did not
LEMMA StopInWriteRefines ==
    ASSUME IInv, IInv', PositiveLines, NEW v \in Data, StopInWrite(v)
    PROVE  Text!Next
<1>1. PowerOff
  BY DEF StopInWrite
<1>2. PICK fd \in Fd \ FreeFd, n \in Lines :
          /\ Writable(Target(fd, n))
          /\ disk' \in CutShort(Rewritten(Target(fd, n), v))
  BY DEF StopInWrite
<1>0. PICK b : b = Target(fd, n)
  OBVIOUS
<1>3. b # 0 /\ desc[fd] # Closed
  BY <1>0, <1>2 DEF Writable, FreeFd
<1>4. PICK f \in File :
          /\ OpenFiles[fd] = f /\ n \in 1 .. CalcSize(f)
          /\ b = BlocksOf[f][n] /\ b \in FirstUsable .. BlockCount
  BY <1>0, <1>3, LineOfTarget
<1>5. FilesTypeOK /\ HeaderKept
  BY DEF IInv
<1>6. Leaves(disk', b, v)
  BY <1>0, <1>2, <1>4, <1>5, CutShortLeaves
<1> DEFINE old == TextOnDisk
           new == TextOnDisk'
           torn == {l \in Text!AllLines : new[l[1]][l[2]] = Torn /\ old[l[1]][l[2]] # Torn}
           written == {l \in Text!AllLines : /\ new[l[1]][l[2]] \in Data \ {Blank}
                                             /\ new[l[1]][l[2]] # old[l[1]][l[2]]}
<1>7. ASSUME NEW g \in File, NEW m \in 1 .. CalcSize(g)
      PROVE  \/ new[g][m] = Lost
             \/ BlocksOf[g][m] = b /\ new[g][m] = v
             \/ new[g][m] = old[g][m]
             \/ new[g][m] = Blank /\ old[g][m] = Lost
             \/ new[g][m] = Torn /\ BlocksOf[g][m] = Len(disk')
  BY <1>4, <1>5, <1>6, Mapped, ShownAfter
<1>8. \A l \in Text!AllLines : /\ l[1] \in File /\ l[2] \in 1 .. CalcSize(l[1])
                               /\ l = <<l[1], l[2]>>
  <2>1. TAKE l \in Text!AllLines
  <2>2. PICK g \in File : l \in {<<g, m>> : m \in Text!Line(g)}
    BY DEF Text!AllLines
  <2>3. PICK m \in Text!Line(g) : l = <<g, m>>
    BY <2>2
  <2>4. m \in 1 .. CalcSize(g)
    BY Mapped
  <2> QED BY <2>3, <2>4
<1> HIDE DEF old, new
<1>9. \A l \in torn : BlocksOf[l[1]][l[2]] = Len(disk')
  <2>1. Torn # Lost /\ Torn # Blank /\ v # Torn
    BY FilesContents
  <2> QED BY <1>7, <1>8, <2>1
<1>10. \A l \in written : l[1] = f /\ l[2] = n
  <2>1. Torn \notin Data /\ Lost \notin Data
    BY FilesContents
  <2>2. \A l \in written : BlocksOf[l[1]][l[2]] = b
    BY <1>7, <1>8, <2>1
  <2> QED BY <1>4, <1>8, <2>2, LinesApart
<1>11. Text!AtMostOne(torn)
  <2>1. SUFFICES ASSUME NEW k \in torn, NEW l \in torn PROVE k = l
    BY DEF Text!AtMostOne
  <2>2. BlocksOf[k[1]][k[2]] = BlocksOf[l[1]][l[2]]
    BY <1>9
  <2>3. k[1] = l[1] /\ k[2] = l[2]
    BY <1>8, <2>2, LinesApart
  <2> QED BY <1>8, <2>3
<1>12. Text!AtMostOne(written)
  <2>1. \A l \in written : l = <<f, n>>
    BY <1>8, <1>10
  <2> QED BY <2>1 DEF Text!AtMostOne
<1>13. \A l \in written : \E d \in Text!Fd : OpenFiles[d] = l[1]
  BY <1>4, <1>10, Mapped
<1>14. \A g \in File : \A m \in Text!Line(g) :
          \/ new[g][m] \in {old[g][m], Lost, Torn} \cup Data
          \/ new[g][m] = Blank /\ old[g][m] = Lost
  BY <1>7, Mapped
<1>15. Text!Stop
  BY <1>1, <1>11, <1>12, <1>13, <1>14, AllClosed DEF Text!Stop, old, new
<1> QED BY <1>15 DEF Text!Next

\* The initial states are those of text files
LEMMA InitRefines == Init => Text!Init
<1> SUFFICES ASSUME Init PROVE Text!Init
  OBVIOUS
<1>1. IInv
  BY InitInvariant
<1>2. FilesTypeOK /\ HeaderKept
  BY <1>1 DEF IInv
<1>3. PICK d \in [Used -> Data] :
          disk = Header \o [b \in 1 .. BlockCount - Len(Header) |->
                                IF b + Len(Header) \in Used THEN d[b + Len(Header)]
                                ELSE Blank]
  BY DEF Init
<1>4. /\ Len(disk) = BlockCount
      /\ \A b \in 1 .. Len(Header) : disk[b] = Header[b]
      /\ \A b \in FirstUsable .. BlockCount : b \in Used => disk[b] = d[b]
  <2> DEFINE M == BlockCount - Len(Header)
             tail == [b \in 1 .. M |-> IF b + Len(Header) \in Used THEN d[b + Len(Header)]
                                       ELSE Blank]
  <2>1. M \in Nat /\ Len(Header) \in Nat /\ FirstUsable = Len(Header) + 1 /\ BlockCount \in Nat
    BY HeaderType, BlockNumbers
  <2>2. Header \in Seq(File \cup {Blank, Mark}) /\ tail \in Seq(Data \cup {Blank})
    BY <2>1, FilesConstants, SeqDef
  <2>3. Len(tail) = M
    BY <2>1, LenProperties, <2>2
  <2> DEFINE T == File \cup Data \cup {Blank, Mark}
  <2>4. Header \in Seq(T) /\ tail \in Seq(T)
    BY <2>2
  <2>5. \A b \in 1 .. M : tail[b] = IF b + Len(Header) \in Used THEN d[b + Len(Header)] ELSE Blank
    OBVIOUS
  <2>6. disk = Header \o tail
    BY <1>3
  <2> HIDE DEF M, tail, T
  <2>7. /\ Len(disk) = Len(Header) + M
        /\ \A i \in 1 .. Len(Header) + M :
              disk[i] = IF i <= Len(Header) THEN Header[i] ELSE tail[i - Len(Header)]
    BY <2>3, <2>4, <2>6, ConcatProperties
  <2>8. Len(disk) = BlockCount
    BY <2>1, <2>7 DEF M
  <2>9. \A b \in 1 .. Len(Header) : disk[b] = Header[b]
    BY <2>1, <2>7
  <2>10. ASSUME NEW b \in FirstUsable .. BlockCount, b \in Used PROVE disk[b] = d[b]
    <3>1. b - Len(Header) \in 1 .. M /\ (b - Len(Header)) + Len(Header) = b
          /\ b \in 1 .. Len(Header) + M /\ ~ (b <= Len(Header))
      BY <2>1 DEF M
    <3> QED BY <2>5, <2>7, <2>10, <3>1
  <2> QED BY <2>8, <2>9, <2>10
<1>5. \A f \in File : Intact(f)
  BY <1>4, EntryIs, HeaderType, BlockNumbers DEF Intact, Readable
<1>6. ASSUME NEW f \in File, NEW n \in 1 .. CalcSize(f) PROVE Shown(f, n) \in Data
  <2> DEFINE b == BlocksOf[f][n]
  <2>1. b \in FirstUsable .. BlockCount
    BY LinesPlaced
  <2>2. b \in Used
    <3>1. n \in DOMAIN BlocksOf[f]
      BY BlocksPlaced, LenProperties
    <3> QED BY <3>1 DEF Used, Range
  <2> HIDE DEF b
  <2>3. disk[b] \in Data
    BY <1>3, <1>4, <2>1, <2>2
  <2>4. Readable(b)
    BY <1>4, <2>1, BlockNumbers DEF Readable
  <2> QED BY <1>5, <2>3, <2>4 DEF Shown, b
<1>7. \A f \in File : TextOnDisk[f] \in [Text!Line(f) -> Data]
  <2>1. TAKE f \in File
  <2>2. TextOnDisk[f] = [n \in 1 .. CalcSize(f) |-> Shown(f, n)]
    BY TextIs
  <2> QED BY <1>6, <2>2, TextIs
<1>8. OpenFiles = [fd \in Text!Fd |-> NoFile] /\ result = Text!Error
  BY DEF Init, OpenFiles, Text!Fd, Fd, Text!Error, Error
<1> QED BY <1>7, <1>8 DEF Text!Init

\* Every step is one on text files, or none
LEMMA NextRefines ==
    IInv /\ IInv' /\ PositiveLines /\ [Next]_vars => [Text!Next]_(Text!vars)
<1> SUFFICES ASSUME IInv, IInv', PositiveLines, [Next]_vars PROVE [Text!Next]_(Text!vars)
  OBVIOUS
<1>1. CASE UNCHANGED vars
  <2>1. TextOnDisk' = TextOnDisk /\ OpenFiles' = OpenFiles
    BY <1>1, SameText, SameHandles DEF vars
  <2> QED BY <1>1, <2>1 DEF vars, Text!vars
<1>2. ASSUME NEW f \in File, Open(f) \/ ReadAll(f) PROVE Text!Next
  BY <1>2, OpenRefines, ReadAllRefines
<1>3. ASSUME NEW fd \in Fd, Close(fd) PROVE Text!Next
  BY <1>3, CloseRefines
<1>4. ASSUME NEW fd \in Fd, NEW n \in Lines, Read(fd, n) PROVE Text!Next
  BY <1>4, ReadRefines
<1>5. ASSUME NEW fd \in Fd, NEW n \in Lines, NEW v \in Data, Write(fd, n, v) PROVE Text!Next
  BY <1>5, WriteRefines
<1>6. ASSUME NEW v \in Data, StopInWrite(v) PROVE Text!Next
  BY <1>6, StopInWriteRefines
<1>7. CASE BadDescriptor
  BY <1>7, RefuseRefines DEF BadDescriptor
<1>8. CASE ClosedDescriptor \/ Stop
  BY <1>8, StopRefines DEF ClosedDescriptor, Stop
<1>9. CASE Boot
  <2>1. UNCHANGED <<disk, desc, result>>
    BY <1>9 DEF Boot
  <2>2. TextOnDisk' = TextOnDisk /\ OpenFiles' = OpenFiles
    BY <2>1, SameText, SameHandles
  <2> QED BY <2>1, <2>2 DEF Text!vars
<1> QED BY <1>1, <1>2, <1>3, <1>4, <1>5, <1>6, <1>7, <1>8, <1>9 DEF Next

\* Whatever disk, headers, chunks and programs: KaguFS behaves as a set of
\* texts does, of which a stop may lose lines (TextFiles), as long as line
\* numbers are 1 or more (sys_fs_open, sys_fs_read, sys_fs_write, sys_fs_close,
\* Disk::writeBlock).
THEOREM Refinement == PositiveLines /\ Spec => ImplementsTextFiles
<1> SUFFICES ASSUME PositiveLines PROVE Spec => ImplementsTextFiles
  OBVIOUS
<1>1. Init => Text!Init
  BY InitRefines
<1>2. IInv /\ IInv' /\ [Next]_vars => [Text!Next]_(Text!vars)
  BY NextRefines
<1>3. Spec => []IInv
  BY Invariance
<1> QED BY <1>1, <1>2, <1>3, PTL DEF Spec, ImplementsTextFiles, Text!Spec
=============================================================================
