----------------------------- MODULE ChunkerProofs -----------------------------
(***************************************************************************)
(* Proofs about Chunker for every file and chunk size: what the chunkers   *)
(* cut, ReconstructData puts together again.                               *)
(*                                                                         *)
(* FlattenSeq is a recursive function.  What it computes is shown without  *)
(* an induction theorem: of the arguments where it differed from what it   *)
(* should be, the smallest would contradict its recursive equation.        *)
(***************************************************************************)
EXTENDS Chunker, SequenceTheorems, WellFoundedInduction, TLAPS

LEMMA MinOfTwo ==
  ASSUME NEW a \in Nat, NEW b \in Nat
  PROVE  Min({a, b}) \in {a, b} /\ Min({a, b}) <= a /\ Min({a, b}) <= b
<1>1. \E x \in {a, b} : \A y \in {a, b} : x =< y
  OBVIOUS
<1>2. Min({a, b}) \in {a, b} /\ \A y \in {a, b} : Min({a, b}) =< y
  BY <1>1, Zenon DEF Min
<1> QED BY <1>2

\* H[i] is the first i of some sequences, one after another.
Joins(H, seqs) ==
  /\ H[1] = seqs[1]
  /\ \A i \in 1..Len(seqs) : i # 1 => H[i] = H[i-1] \o seqs[i]

\* The recursive equation of FlattenSeq has one solution.
LEMMA FlattenIs ==
  ASSUME NEW seqs, NEW n \in Nat \ {0}, Len(seqs) = n, NEW H, Joins(H, seqs)
  PROVE  FlattenSeq(seqs) = H[n]
<1> USE DEF Joins
<1> DEFINE F == CHOOSE f : f = [i \in 1..n |-> IF i = 1 THEN seqs[i] ELSE f[i-1] \o seqs[i]]
           G == [i \in 1..n |-> H[i]]
           Wrong == {i \in 1..n : F[i] # H[i]}
<1>0. G = [i \in 1..n |-> IF i = 1 THEN seqs[i] ELSE G[i-1] \o seqs[i]]
  <2>1. \A i \in 1..n : i # 1 => i - 1 \in 1..n
    OBVIOUS
  <2> QED BY <2>1
<1>1. F = [i \in 1..n |-> IF i = 1 THEN seqs[i] ELSE F[i-1] \o seqs[i]]
  <2> HIDE DEF G
  <2> QED BY <1>0, Zenon
<1>2. FlattenSeq(seqs) = F[n]
  BY DEF FlattenSeq
<1> HIDE DEF F
<1>3. ASSUME Wrong # {} PROVE FALSE
  <2>1. Wrong \subseteq Nat
    OBVIOUS
  <2>2. PICK m \in Wrong : \A y \in Wrong : ~(<<y, m>> \in OpToRel(<, Nat))
    <3> HIDE DEF Wrong
    <3> QED BY <1>3, <2>1, NatLessThanWellFounded, WFMin
  <2>3. m \in 1..n /\ F[m] # H[m]
    OBVIOUS
  <2>4. CASE m = 1
    <3>1. F[1] = seqs[1]
      BY <1>1
    <3>2. H[1] = seqs[1]
      OBVIOUS
    <3> QED BY <2>3, <2>4, <3>1, <3>2
  <2>5. CASE m # 1
    <3>1. m - 1 \in 1..n /\ m - 1 < m /\ m - 1 \in Nat /\ m \in Nat
      BY <2>3, <2>5
    <3>2. m - 1 \notin Wrong
      BY <2>2, <3>1 DEF OpToRel
    <3>3. F[m-1] = H[m-1]
      BY <3>1, <3>2
    <3>4. F[m] = F[m-1] \o seqs[m]
      BY <1>1, <2>3, <2>5
    <3>5. H[m] = H[m-1] \o seqs[m]
      BY <2>3, <2>5
    <3> QED BY <2>3, <3>3, <3>4, <3>5
  <2> QED BY <2>4, <2>5
<1>4. n \notin Wrong
  BY <1>3
<1> QED BY <1>2, <1>4

-------------------------------------------------------------------------------
\* Where a sequence is cut into n pieces, and the pieces.
IsCut(e, n, data) ==
  /\ e \in [0..n -> 0..Len(data)]
  /\ e[0] = 0 /\ e[n] = Len(data)
  /\ \A i \in 1..n : e[i-1] <= e[i]

Piece(data, e, i) == SubSeq(data, e[i-1] + 1, e[i])

LEMMA CutPoints ==
  ASSUME NEW data \in Seq(Nat), NEW n \in Nat \ {0}, NEW e, IsCut(e, n, data), NEW i \in 1..n
  PROVE  /\ 1 \in 1..Len(data)+1 /\ e[i-1] \in 1-1..Len(data) /\ e[i] \in e[i-1]..Len(data)
         /\ 1-1 = 0 /\ 1 \in 1..n /\ n \in 1..n /\ (i # 1 => i - 1 \in 1..n)
<1>1. Len(data) \in Nat
  BY LenProperties
<1>2. 1 \in 1..n /\ n \in 1..n /\ i \in 0..n /\ i - 1 \in 0..n /\ (i # 1 => i - 1 \in 1..n)
  OBVIOUS
<1>3. e[i-1] \in 0..Len(data) /\ e[i] \in 0..Len(data) /\ e[i-1] <= e[i]
  BY <1>2 DEF IsCut
<1> QED BY <1>1, <1>2, <1>3

\* The pieces, one after another, are the sequence.
LEMMA PiecesJoin ==
  ASSUME NEW data \in Seq(Nat), NEW n \in Nat \ {0}, NEW e, IsCut(e, n, data),
         NEW seqs, Len(seqs) = n, \A i \in 1..n : seqs[i] = Piece(data, e, i)
  PROVE  FlattenSeq(seqs) = data
<1>1. PICK H : H = [i \in 1..n |-> SubSeq(data, 1, e[i])]
  OBVIOUS
<1>2. H[1] = seqs[1]
  <2>1. 1 \in 1..n /\ e[1-1] = 0
    BY CutPoints DEF IsCut
  <2>2. H[1] = SubSeq(data, 1, e[1]) /\ seqs[1] = SubSeq(data, e[1-1] + 1, e[1])
    BY <1>1, <2>1 DEF Piece
  <2>3. e[1-1] + 1 = 1
    BY <2>1
  <2> QED BY <2>2, <2>3
<1>3. ASSUME NEW i \in 1..n, i # 1 PROVE H[i] = H[i-1] \o seqs[i]
  <2>1. PICK k, m : k = e[i-1] /\ m = e[i]
    OBVIOUS
  <2>2. 1 \in 1..Len(data)+1 /\ k \in 1-1..Len(data) /\ m \in k..Len(data) /\ i - 1 \in 1..n
    BY <1>3, <2>1, CutPoints
  <2>3. SubSeq(data, 1, k) \o SubSeq(data, k + 1, m) = SubSeq(data, 1, m)
    BY <2>2, ConcatAdjacentSubSeq
  <2>4. H[i] = SubSeq(data, 1, m) /\ H[i-1] = SubSeq(data, 1, k) /\ seqs[i] = SubSeq(data, k + 1, m)
    BY <1>1, <2>1, <2>2 DEF Piece
  <2> QED BY <2>3, <2>4
<1>4. H[n] = data
  <2>1. n \in 1..n /\ e[n] = Len(data)
    BY CutPoints DEF IsCut
  <2> QED BY <1>1, <2>1, SubSeqFull
<1>5. Joins(H, seqs)
  BY <1>2, <1>3, Zenon DEF Joins
<1> QED BY <1>4, <1>5, FlattenIs

\* Chunks that are such pieces become the data again.
LEMMA PiecesReconstruct ==
  ASSUME NEW data \in Seq(Nat), NEW n \in Nat \ {0}, NEW e, IsCut(e, n, data),
         NEW chunks, chunks = [i \in 1..n |-> Chunk(Piece(data, e, i))]
  PROVE  ReconstructData(chunks, CreateManifest(data, chunks)) = data
<1> DEFINE seqs == [i \in DOMAIN chunks |-> chunks[i].bytes]
<1>1. seqs = [i \in 1..n |-> Piece(data, e, i)]
  BY DEF Chunk
<1> HIDE DEF seqs
<1>2. Len(seqs) = n /\ \A i \in 1..n : seqs[i] = Piece(data, e, i)
  BY <1>1
<1>3. FlattenSeq(seqs) = data
  BY <1>2, PiecesJoin
<1>4. ReconstructData(chunks, CreateManifest(data, chunks)) =
        [i \in 1..Len(data) |-> IF i <= Len(FlattenSeq(seqs)) THEN FlattenSeq(seqs)[i] ELSE 0]
  BY DEF ReconstructData, CreateManifest, seqs
<1>5. data \in [1..Len(data) -> Nat] /\ Len(data) \in Nat
  BY LenProperties
<1>6. data = [i \in 1..Len(data) |-> IF i <= Len(data) THEN data[i] ELSE 0]
  BY <1>5
<1> QED BY <1>3, <1>4, <1>6

\* The number of chunks of a file, rounded up.
LEMMA DivUp ==
  ASSUME NEW len \in Nat \ {0}, NEW size \in Nat \ {0}
  PROVE  LET n == (len + size - 1) \div size IN
         n \in Nat \ {0} /\ (n-1) * size < len /\ len <= n * size
OBVIOUS

\* What ChunkData cuts: pieces of ChunkSize bytes, and the rest.
LEMMA ChunkDataCuts ==
  ASSUME NEW data \in Seq(Nat), data # <<>>
  PROVE  \E n \in Nat \ {0} : \E e :
           /\ IsCut(e, n, data)
           /\ ChunkData(data) = [i \in 1..n |-> Chunk(Piece(data, e, i))]
<1> DEFINE len == Len(data)
           n == (len + ChunkSize - 1) \div ChunkSize
           last(i) == Min({i * ChunkSize, len})
           e == [i \in 0..n |-> last(i)]
<1>1. len \in Nat \ {0} /\ ChunkSize \in Nat \ {0}
  BY EmptySeq, ChunkerAssumption
<1>2. n \in Nat \ {0} /\ (n-1) * ChunkSize < len /\ len <= n * ChunkSize
  BY <1>1, DivUp
<1>3. ChunkData(data) =
        [i \in 1..n |-> Chunk(SubSeq(data, (i-1) * ChunkSize + 1, last(i)))]
  BY DEF ChunkData
<1> HIDE DEF len, n
<1>4. ASSUME NEW i \in 0..n
      PROVE  /\ i * ChunkSize \in Nat /\ last(i) \in 0..len
             /\ last(i) = IF i < n THEN i * ChunkSize ELSE len
  <2>1. i * ChunkSize \in Nat /\ n * ChunkSize \in Nat /\ (n-1) * ChunkSize \in Nat
    BY <1>1, <1>2
  <2>2. last(i) \in {i * ChunkSize, len} /\ last(i) <= i * ChunkSize /\ last(i) <= len
    BY <1>1, <2>1, MinOfTwo
  <2>3. i < n => i * ChunkSize <= (n-1) * ChunkSize
    BY <1>1, <1>2
  <2>4. ~(i < n) => i = n
    BY <1>2
  <2> HIDE DEF last
  <2> QED BY <1>1, <1>2, <2>1, <2>2, <2>3, <2>4
<1> HIDE DEF last
<1>5. ASSUME NEW i \in 1..n
      PROVE  /\ i - 1 \in 0..n /\ i \in 0..n /\ i - 1 < n
             /\ last(i-1) = (i-1) * ChunkSize /\ last(i-1) <= last(i)
  <2>1. i - 1 \in 0..n /\ i \in 0..n /\ i - 1 < n
    BY <1>2
  <2>2. last(i-1) = (i-1) * ChunkSize /\ last(i-1) \in 0..len
    BY <1>4, <2>1
  <2>3. last(i) = IF i < n THEN i * ChunkSize ELSE len
    BY <1>4, <2>1
  <2>4. (i-1) * ChunkSize <= i * ChunkSize
    BY <1>1, <1>2
  <2> QED BY <1>1, <2>1, <2>2, <2>3, <2>4
<1>6. IsCut(e, n, data)
  <2>1. e \in [0..n -> 0..len] /\ e[0] = last(0) /\ e[n] = last(n)
    BY <1>2, <1>4
  <2>2. last(0) = 0 /\ last(n) = len
    BY <1>1, <1>2, <1>4
  <2>3. \A i \in 1..n : e[i-1] <= e[i]
    BY <1>5
  <2> HIDE DEF e
  <2> QED BY <2>1, <2>2, <2>3 DEF IsCut, len
<1>7. \A i \in 1..n : SubSeq(data, (i-1) * ChunkSize + 1, last(i)) = Piece(data, e, i)
  BY <1>5 DEF Piece
<1> HIDE DEF e
<1>8. ChunkData(data) = [i \in 1..n |-> Chunk(Piece(data, e, i))]
  BY <1>3, <1>7
<1> QED BY <1>2, <1>6, <1>8

\* What the reads of a stream cut: pieces of any length.
LEMMA ChunkReaderCuts ==
  ASSUME NEW data \in Seq(Nat), NEW chunks \in ChunkReader(data)
  PROVE  \E n \in Nat \ {0} : \E e :
           /\ IsCut(e, n, data)
           /\ chunks = [i \in 1..n |-> Chunk(Piece(data, e, i))]
<1>0. Len(data) \in Nat
  BY LenProperties
<1>1. PICK end \in ReadEnds(data) :
        chunks = [i \in DOMAIN end |->
                    Chunk(SubSeq(data, IF i = 1 THEN 1 ELSE end[i-1] + 1, end[i]))]
  BY DEF ChunkReader
<1>2. PICK n \in 1..Len(data) :
        /\ end \in [1..n -> 1..Len(data)]
        /\ end[n] = Len(data)
        /\ \A i \in 1..n : LET start == IF i = 1 THEN 0 ELSE end[i-1] IN start < end[i]
  BY DEF ReadEnds
<1> DEFINE e == [i \in 0..n |-> IF i = 0 THEN 0 ELSE end[i]]
<1>3. n \in Nat \ {0}
  BY <1>0
<1>4. ASSUME NEW i \in 1..n
      PROVE  /\ e[i] = end[i] /\ e[i-1] = IF i = 1 THEN 0 ELSE end[i-1]
             /\ e[i-1] <= e[i]
  <2>1. end[i] \in 1..Len(data) /\ i \in 0..n /\ i - 1 \in 0..n /\ i # 0
    BY <1>2, <1>3
  <2>2. e[i] = end[i] /\ e[i-1] = IF i = 1 THEN 0 ELSE end[i-1]
    BY <1>3, <2>1
  <2>3. i # 1 => i - 1 \in 1..n
    BY <1>3
  <2> HIDE DEF e
  <2>4. e[i-1] \in 0..Len(data)
    BY <1>0, <1>2, <2>2, <2>3
  <2> QED BY <1>0, <1>2, <2>1, <2>2, <2>4
<1>5. IsCut(e, n, data)
  <2>1. e \in [0..n -> 0..Len(data)] /\ e[0] = 0 /\ e[n] = end[n]
    BY <1>0, <1>2, <1>3
  <2> HIDE DEF e
  <2> QED BY <1>2, <1>4, <2>1 DEF IsCut
<1>6. \A i \in 1..n : SubSeq(data, IF i = 1 THEN 1 ELSE end[i-1] + 1, end[i]) = Piece(data, e, i)
  <2> SUFFICES ASSUME NEW i \in 1..n
               PROVE  SubSeq(data, IF i = 1 THEN 1 ELSE end[i-1] + 1, end[i]) = Piece(data, e, i)
    OBVIOUS
  <2> HIDE DEF e
  <2>1. e[i-1] + 1 = IF i = 1 THEN 1 ELSE end[i-1] + 1
    BY <1>4
  <2> QED BY <1>4, <2>1 DEF Piece
<1> HIDE DEF e
<1>7. chunks = [i \in 1..n |-> Chunk(Piece(data, e, i))]
  BY <1>1, <1>2, <1>6
<1> QED BY <1>3, <1>5, <1>7

\* However a file is cut into chunks, by its length or by the reads of a stream, the
\* reconstruction gives back each of its bytes in its place, and no others.
THEOREM ReconstructInverts ==
  ASSUME NEW data \in Seq(Nat), data # <<>>,
         NEW chunks \in {ChunkData(data)} \cup ChunkReader(data)
  PROVE  ReconstructData(chunks, CreateManifest(data, chunks)) = data
<1>1. PICK n \in Nat \ {0} : \E e :
        IsCut(e, n, data) /\ chunks = [i \in 1..n |-> Chunk(Piece(data, e, i))]
  BY ChunkDataCuts, ChunkReaderCuts
<1>2. PICK e : IsCut(e, n, data) /\ chunks = [i \in 1..n |-> Chunk(Piece(data, e, i))]
  BY <1>1
<1> QED BY <1>2, PiecesReconstruct
===============================================================================
