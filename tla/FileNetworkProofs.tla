--------------------------- MODULE FileNetworkProofs ---------------------------
(***************************************************************************)
(* Proofs about FileNetwork for every cluster, chunk size, size limit, set *)
(* of uploads, number of handlers and choice of faults: its type           *)
(* invariant, that an upload that was answered stays intact, that each of  *)
(* its blobs gets announced, and that a download has its bytes.            *)
(***************************************************************************)
EXTENDS FileNetwork, ChunkerProofs

\* The fields of a task that its phase gives a meaning.
Shaped(k) ==
  /\ k.at = "storing" => k.op \in {"post", "stream"} /\ k.left \in Seq(Chunks)
  /\ k.at = "gathering" => k.op = "get" /\ k.file \in Manifests /\ k.left \in Seq(Chunks)
  /\ k.at = "removing" =>
       /\ k.op = "delete" /\ k.file \in Manifests /\ k.left \in Seq(Chunks)
       /\ Range(k.left) \subseteq Blobs(k.file)
  /\ k.at = "fetching" =>
       /\ k.op \in {"get", "delete"} /\ k.file \in Manifests /\ k.left \in Seq(Chunks)
       /\ k.want \in Blob
       /\ k.want # k.file => k.op = "get" /\ k.left # <<>> /\ k.want \in Chunks
  /\ k.at = "spreading" =>
       /\ k.op = "delete" /\ k.file \in Manifests /\ k.left # <<>>
       /\ Range(k.left) \subseteq Blobs(k.file)

\* The type invariant, made inductive.
TypeInv == TypeOK /\ \A t \in Tasks : Shaped(task[t])
-------------------------------------------------------------------------------
\* Lemmas about sequences, chunks and manifests.

LEMMA RangeTyped ==
  ASSUME NEW S, NEW s \in Seq(S)
  PROVE  Range(s) \subseteq S
BY RangeOfSeq

LEMMA RangeSplit ==
  ASSUME NEW S, NEW s \in Seq(S), s # <<>>
  PROVE  /\ Head(s) \in S /\ Head(s) \in Range(s)
         /\ Tail(s) \in Seq(S) /\ Range(Tail(s)) \subseteq Range(s)
<1>1. Head(s) \in S /\ Tail(s) \in Seq(S) /\ Len(Tail(s)) = Len(s) - 1
  BY HeadTailProperties
<1>2. \A i \in 1 .. Len(Tail(s)) : Tail(s)[i] = s[i+1]
  BY HeadTailProperties
<1>3. Len(s) \in Nat \ {0} /\ Head(s) = s[1]
  BY EmptySeq
<1>4. /\ Range(s) = {s[i] : i \in 1 .. Len(s)}
      /\ Range(Tail(s)) = {Tail(s)[i] : i \in 1 .. Len(Tail(s))}
  BY <1>1, RangeEquality
<1>5. Head(s) \in Range(s)
  BY <1>3, <1>4
<1>6. ASSUME NEW i \in 1 .. Len(Tail(s)) PROVE Tail(s)[i] \in Range(s)
  <2>1. i + 1 \in 1 .. Len(s)
    BY <1>1, <1>3
  <2> QED BY <2>1, <1>2, <1>4
<1> QED BY <1>1, <1>4, <1>5, <1>6

LEMMA RangeAppend ==
  ASSUME NEW S, NEW s \in Seq(S), NEW e \in S
  PROVE  Append(s, e) \in Seq(S) /\ Range(Append(s, e)) = Range(s) \cup {e}
<1> DEFINE one == <<e>>
<1>1. Append(s, e) = s \o one /\ Append(s, e) \in Seq(S)
  BY AppendIsConcat, AppendProperties
<1>2. one \in Seq(S) /\ Range(one) = {e}
  BY DEF Range
<1> HIDE DEF one
<1>3. Range(s \o one) = Range(s) \cup Range(one)
  BY <1>2, RangeConcatenation
<1> QED BY <1>1, <1>2, <1>3

LEMMA LastOne ==
  ASSUME NEW S, NEW s \in Seq(S), s # <<>>, Tail(s) = <<>>
  PROVE  Len(s) = 1
<1>1. Len(s) \in Nat \ {0} /\ Len(Tail(s)) = 0
  BY EmptySeq
<1>2. Len(Tail(s)) = Len(s) - 1
  BY HeadTailProperties
<1> QED BY <1>1, <1>2

LEMMA EmptyRange == Range(<<>>) = {}
BY DEF Range

LEMMA CutType ==
  ASSUME NEW body \in Seq(Nat)
  PROVE  Cut(body) \in Seq(Nat) /\ Len(Cut(body)) \in Nat
<1> DEFINE last == Min({Len(body), MaxSize})
<1>1. Len(body) \in Nat /\ MaxSize \in Nat
  BY LenProperties, ConstantsAssumption
<1>2. last \in Nat /\ last <= Len(body)
  BY <1>1, MinOfTwo
<1> HIDE DEF last
<1>3. \A i \in 1 .. last : body[i] \in Nat
  BY <1>1, <1>2, ElementOfSeq
<1>4. SubSeq(body, 1, last) \in Seq(Nat)
  BY <1>2, <1>3, SubSeqProperties
<1>5. Cut(body) \in Seq(Nat)
  BY <1>4 DEF Cut, last
<1> QED BY <1>5, LenProperties

\* ChunkData never reads past the end of the data, and leaves nothing out of a chunk.
LEMMA ChunkDataType ==
  ASSUME NEW data \in Seq(Nat)
  PROVE  ChunkData(data) \in Seq(Chunks)
<1> DEFINE n == (Len(data) + ChunkSize - 1) \div ChunkSize
           last(i) == Min({i * ChunkSize, Len(data)})
<1>1. Len(data) \in Nat /\ ChunkSize \in Nat /\ ChunkSize > 0
  BY LenProperties, ChunkerAssumption
<1>2. n \in Nat
  BY <1>1
<1>3. ASSUME NEW i \in 1 .. n
      PROVE  Chunk(SubSeq(data, (i-1) * ChunkSize + 1, last(i))) \in Chunks
  <2>1. (i-1) * ChunkSize \in Nat /\ i * ChunkSize \in Nat
    BY <1>1, <1>2
  <2>2. last(i) \in Nat /\ last(i) <= Len(data)
    BY <1>1, <2>1, MinOfTwo
  <2>3. \A j \in (i-1) * ChunkSize + 1 .. last(i) : data[j] \in Nat
    <3> SUFFICES ASSUME NEW j \in (i-1) * ChunkSize + 1 .. last(i) PROVE data[j] \in Nat
      OBVIOUS
    <3> HIDE DEF last
    <3>1. j \in 1 .. Len(data)
      BY <1>1, <2>1, <2>2
    <3> QED BY <3>1, ElementOfSeq
  <2> HIDE DEF last
  <2>4. SubSeq(data, (i-1) * ChunkSize + 1, last(i)) \in Seq(Nat)
    BY <2>1, <2>2, <2>3, SubSeqProperties
  <2> QED BY <2>4 DEF Chunk, Chunks
<1> HIDE DEF n
<1>4. \A i \in 1 .. n : Chunk(SubSeq(data, (i-1) * ChunkSize + 1, last(i))) \in Chunks
  BY <1>3
<1>5. ChunkData(data) = [i \in 1 .. n |-> Chunk(SubSeq(data, (i-1) * ChunkSize + 1, last(i)))]
  BY DEF ChunkData, n
<1>6. ChunkData(data) \in [1 .. n -> Chunks]
  BY <1>4, <1>5
<1> QED BY <1>2, <1>6

LEMMA ChunkReaderType ==
  ASSUME NEW data \in Seq(Nat), NEW chunks \in ChunkReader(data)
  PROVE  chunks \in Seq(Chunks)
<1>0. Len(data) \in Nat
  BY LenProperties
<1>1. PICK end \in ReadEnds(data) :
        chunks = [i \in DOMAIN end |->
                    Chunk(SubSeq(data, IF i = 1 THEN 1 ELSE end[i-1] + 1, end[i]))]
  BY DEF ChunkReader
<1>2. PICK k \in 1 .. Len(data) : end \in [1 .. k -> 1 .. Len(data)]
  BY DEF ReadEnds
<1>3. ASSUME NEW i \in 1 .. k
      PROVE  Chunk(SubSeq(data, IF i = 1 THEN 1 ELSE end[i-1] + 1, end[i])) \in Chunks
  <2> DEFINE first == IF i = 1 THEN 1 ELSE end[i-1] + 1
  <2>1. first \in Nat \ {0} /\ end[i] \in 1 .. Len(data)
    BY <1>0, <1>2
  <2> HIDE DEF first
  <2>2. \A j \in first .. end[i] : data[j] \in Nat
    BY <1>0, <2>1, ElementOfSeq
  <2>3. SubSeq(data, first, end[i]) \in Seq(Nat)
    BY <1>0, <2>1, <2>2, SubSeqProperties
  <2> QED BY <2>3 DEF Chunk, Chunks, first
<1>4. chunks \in [1 .. k -> Chunks]
  BY <1>1, <1>2, <1>3
<1>5. k \in Nat
  BY <1>0
<1> QED BY <1>4, <1>5

LEMMA PiecesType ==
  ASSUME NEW op, NEW data \in Seq(Nat), NEW chunks \in Pieces(op, data)
  PROVE  chunks \in Seq(Chunks)
BY ChunkDataType, ChunkReaderType DEF Pieces

LEMMA ManifestType ==
  ASSUME NEW data \in Seq(Nat), NEW chunks \in Seq(Chunks)
  PROVE  /\ CreateManifest(data, chunks) \in Manifests
         /\ CreateManifest(data, chunks).parts = chunks
BY LenProperties DEF CreateManifest, Manifests

LEMMA BlobsType ==
  ASSUME NEW file \in Manifests
  PROVE  /\ file.parts \in Seq(Chunks) /\ Range(file.parts) \subseteq Blobs(file)
         /\ Blobs(file) \subseteq Blob /\ file \in Blobs(file) /\ file \in Blob
<1>1. file.parts \in Seq(Chunks)
  BY DEF Manifests
<1>2. Range(file.parts) \subseteq Chunks
  BY <1>1, RangeTyped
<1> QED BY <1>1, <1>2 DEF Blobs, Blob

\* A chunk is no manifest.
LEMMA Kinds ==
  /\ \A b \in Chunks : ~IsManifest(b)
  /\ \A b \in Manifests : IsManifest(b)
BY DEF Chunks, Manifests, IsManifest
-------------------------------------------------------------------------------
\* Lemmas about tasks: what a handler does next is again a task of the right shape.

Fit(k) == k \in Busy /\ Shaped(k) /\ (k.at = "spreading" => k.node \notin k.ask)

TasksOK ==
  /\ task \in [Tasks -> {Idle} \cup Busy]
  /\ \A t \in Tasks : task[t] = Idle \/ Fit(task[t])

\* The parts of TypeOK that are not about tasks.
StoresOK ==
  /\ held \in [Nodes -> SUBSET Blob]
  /\ pending \in [Nodes -> SUBSET Blob]
  /\ announced \in [Nodes -> SUBSET Blob]
  /\ known \in [Nodes -> SUBSET Blob]

RestOK ==
  /\ up \subseteq Nodes
  /\ calls \subseteq [to : up, blob : Blob]
  /\ uploaded \subseteq [op : {"post", "stream"}, node : Nodes, body : Seq(Nat), file : Manifests]
  /\ deleted \subseteq Manifests
  /\ crashed \subseteq Nodes

\* A task that has yet to read its manifest.
Opening ==
  [at : {"idle"}, op : {"get", "delete"}, node : up, body : Seq(Nat), file : Manifests,
   left : Seq(Chunks), got : Seq(Chunks), want : {None}, ask : SUBSET Nodes, global : BOOLEAN]

LEMMA Parts == TypeInv <=> TasksOK /\ StoresOK /\ RestOK
<1>1. ASSUME TypeInv PROVE TasksOK /\ StoresOK /\ RestOK
  BY <1>1 DEF TypeInv, TypeOK, TasksOK, StoresOK, RestOK, Fit
<1>2. Shaped(Idle) /\ Idle.at = "idle"
  BY DEF Shaped, Idle
<1>3. ASSUME TasksOK, StoresOK, RestOK PROVE TypeInv
  BY <1>2, <1>3 DEF TypeInv, TypeOK, TasksOK, StoresOK, RestOK, Fit
<1> QED BY <1>1, <1>3

LEMMA PartsNext == TasksOK' /\ StoresOK' /\ RestOK' => TypeInv'
BY Parts, PTL

LEMMA RunningTask ==
  ASSUME TypeInv, NEW t \in Tasks, task[t].at # "idle"
  PROVE  Fit(task[t])
<1>1. Idle.at = "idle"
  BY DEF Idle
<1> QED BY <1>1, Parts DEF TasksOK

LEMMA GotoFit ==
  ASSUME TypeInv, UNCHANGED up, NEW t \in Tasks, NEW next, next = Idle \/ Fit(next), Goto(t, next)
  PROVE  TasksOK'
<1>1. Busy' = Busy
  BY DEF Busy
<1>2. task' \in [Tasks -> {Idle} \cup Busy]
  BY DEF TypeInv, TypeOK, Goto, Fit
<1>3. \A s \in Tasks : task'[s] = Idle \/ Fit(task'[s])
  BY Parts DEF TasksOK, Goto, TypeInv, TypeOK
<1> QED BY <1>1, <1>2, <1>3 DEF TasksOK, Fit

LEMMA ProvidersType == \A b : \A S \in Providers(b) : S \in SUBSET Nodes
BY DEF Providers

LEMMA SeekFit ==
  ASSUME TypeInv, UNCHANGED up, NEW t \in Tasks, NEW k \in Opening \cup Busy, NEW b \in Blob,
         k.op \in {"get", "delete"}, k.file \in Manifests, k.left \in Seq(Chunks),
         b # k.file => k.op = "get" /\ k.left # <<>> /\ b \in Chunks,
         Seek(t, k, b)
  PROVE  TasksOK'
<1>1. PICK S \in Providers(b) : Goto(t, [k EXCEPT !.at = "fetching", !.want = b, !.ask = S])
  BY DEF Seek
<1> DEFINE next == [k EXCEPT !.at = "fetching", !.want = b, !.ask = S]
<1>2. S \in SUBSET Nodes
  BY ProvidersType
<1>3. Chunks \subseteq Blob /\ Seq(Chunks) \subseteq Seq(Blob)
  BY SeqMonotonic DEF Blob
<1>4. next \in Busy
  BY <1>2, <1>3 DEF Busy, Opening
<1>5. /\ next.at = "fetching" /\ next.want = b /\ next.op = k.op /\ next.file = k.file
      /\ next.left = k.left
  BY DEF Busy, Opening
<1>6. Shaped(next)
  BY <1>5 DEF Shaped
<1> QED BY <1>1, <1>4, <1>5, <1>6, GotoFit DEF Fit

LEMMA GatheringFit ==
  ASSUME NEW k \in Opening \cup Busy, k.op = "get", k.file \in Manifests
  PROVE  Fit(Gathering(k))
<1>1. k.file.parts \in Seq(Chunks) /\ k.file.parts \in Seq(Blob)
  BY BlobsType, SeqMonotonic DEF Blob
<1>2. Gathering(k) \in Busy
  BY <1>1 DEF Gathering, Busy, Opening
<1>3. /\ Gathering(k).at = "gathering" /\ Gathering(k).op = "get"
      /\ Gathering(k).file = k.file /\ Gathering(k).left = k.file.parts
  BY DEF Gathering, Busy, Opening
<1> QED BY <1>1, <1>2, <1>3 DEF Fit, Shaped

LEMMA RemovingFit ==
  ASSUME NEW k \in Opening \cup Busy, k.op = "delete", k.file \in Manifests
  PROVE  Fit(Removing(k))
<1>1. k.file.parts \in Seq(Chunks) /\ k.file.parts \in Seq(Blob)
  BY BlobsType, SeqMonotonic DEF Blob
<1>2. Removing(k) \in Busy
  BY <1>1 DEF Removing, Busy, Opening
<1>3. /\ Removing(k).at = "removing" /\ Removing(k).op = "delete"
      /\ Removing(k).file = k.file /\ Removing(k).left = k.file.parts
  BY DEF Removing, Busy, Opening
<1>4. Range(k.file.parts) \subseteq Blobs(k.file)
  BY BlobsType
<1> QED BY <1>1, <1>2, <1>3, <1>4 DEF Fit, Shaped

LEMMA OpenFit ==
  ASSUME TypeInv, UNCHANGED up, NEW t \in Tasks, NEW k \in Opening, Open(t, k)
  PROVE  TasksOK'
<1>1. k.op \in {"get", "delete"} /\ k.file \in Manifests /\ k.left \in Seq(Chunks)
  BY DEF Opening
<1>2. CASE Goto(t, IF k.op = "get" THEN Gathering(k) ELSE Removing(k))
  BY <1>1, <1>2, GatheringFit, RemovingFit, GotoFit
<1>3. CASE Seek(t, k, k.file)
  BY <1>1, <1>3, SeekFit, BlobsType
<1> QED BY <1>2, <1>3 DEF Open

LEMMA TraceFit ==
  ASSUME TypeInv, UNCHANGED up, NEW t \in Tasks, NEW k \in Busy, NEW blobs \in Seq(Blob),
         k.op = "delete", k.file \in Manifests, blobs # <<>>, Range(blobs) \subseteq Blobs(k.file),
         Trace(t, k, blobs)
  PROVE  TasksOK'
<1>1. PICK S \in Providers(Head(blobs)) :
        Goto(t, [k EXCEPT !.at = "spreading", !.left = blobs, !.ask = S \ {k.node}])
  BY DEF Trace
<1> DEFINE next == [k EXCEPT !.at = "spreading", !.left = blobs, !.ask = S \ {k.node}]
<1>2. S \ {k.node} \in SUBSET Nodes
  BY ProvidersType
<1>3. next \in Busy
  BY <1>2 DEF Busy
<1>4. /\ next.at = "spreading" /\ next.op = k.op /\ next.file = k.file /\ next.left = blobs
      /\ next.ask = S \ {k.node} /\ next.node = k.node
  BY DEF Busy
<1> QED BY <1>1, <1>3, <1>4, GotoFit DEF Fit, Shaped

LEMMA WithFit ==
  ASSUME NEW k \in Busy, k.op = "get", k.file \in Manifests, k.left \in Seq(Chunks),
         k.left # <<>>, NEW chunk \in Chunks
  PROVE  Fit(With(k, chunk))
<1>1. Tail(k.left) \in Seq(Chunks) /\ Append(k.got, chunk) \in Seq(Chunks)
  BY RangeSplit, RangeAppend DEF Busy
<1>2. Tail(k.left) \in Seq(Blob)
  BY <1>1, SeqMonotonic DEF Blob
<1>3. With(k, chunk) \in Busy
  BY <1>1, <1>2 DEF With, Busy
<1>4. /\ With(k, chunk).at = "gathering" /\ With(k, chunk).op = k.op
      /\ With(k, chunk).file = k.file /\ With(k, chunk).left = Tail(k.left)
  BY DEF With, Busy
<1> QED BY <1>1, <1>3, <1>4 DEF Fit, Shaped
-------------------------------------------------------------------------------
\* The type invariant: each action preserves it.

LEMMA PutType ==
  ASSUME TypeInv, NEW n \in Nodes, NEW b \in Blob, Put(n, b)
  PROVE  held' \in [Nodes -> SUBSET Blob]
BY DEF TypeInv, TypeOK, Put

LEMMA EraseType ==
  ASSUME TypeInv, NEW n \in Nodes, NEW b, Erase(n, b)
  PROVE  held' \in [Nodes -> SUBSET Blob]
BY DEF TypeInv, TypeOK, Erase

LEMMA SpawnType ==
  ASSUME TypeInv, NEW n \in Nodes, NEW blobs \in SUBSET Blob, Spawn(n, blobs)
  PROVE  pending' \in [Nodes -> SUBSET Blob]
BY DEF TypeInv, TypeOK, Spawn

LEMMA BusyFields ==
  ASSUME TypeInv, NEW k \in Busy
  PROVE  /\ k.node \in up /\ k.node \in Nodes /\ k.body \in Seq(Nat) /\ k.got \in Seq(Chunks)
         /\ k.left \in Seq(Blob) /\ k.ask \subseteq Nodes
         /\ \A ask \in SUBSET k.ask : [k EXCEPT !.ask = ask] \in Busy
         /\ \A left \in Seq(Blob) : [k EXCEPT !.left = left] \in Busy
BY DEF Busy, TypeInv, TypeOK

LEMMA DueType ==
  ASSUME NEW k \in Busy, k.left # <<>>, k.left \in Seq(Chunks)
  PROVE  Due(k) \in SUBSET Blob
<1>1. Head(k.left) \in Chunks /\ Range(k.got) \subseteq Chunks
  BY RangeSplit, RangeTyped DEF Busy
<1> QED BY <1>1 DEF Due, Blob

LEMMA DeletingType ==
  ASSUME NEW n \in up, NEW file \in Manifests, NEW global \in BOOLEAN
  PROVE  Deleting(n, file, global) \in Opening
BY EmptySeq DEF Deleting, Idle, Opening

LEMMA RequestType ==
  ASSUME TypeInv, NEW t \in Tasks, Request(t)
  PROVE  TypeInv'
<1>0. TasksOK /\ StoresOK /\ RestOK
  BY Parts
<1>1. ASSUME NEW r \in Uploads, StartUpload(t, r) PROVE TypeInv'
  <2>1. r.body \in Seq(Nat) /\ r.node \in up /\ r.op \in {"post", "stream"}
    BY <1>1, ConstantsAssumption DEF StartUpload
  <2>2. Cut(r.body) \in Seq(Nat)
    BY <2>1, CutType
  <2>3. PICK chunks \in Pieces(r.op, Cut(r.body)) :
          Goto(t, [Idle EXCEPT !.at = "storing", !.op = r.op, !.node = r.node, !.body = r.body,
                               !.left = chunks])
    BY <1>1 DEF StartUpload
  <2>4. chunks \in Seq(Chunks) /\ chunks \in Seq(Blob) /\ <<>> \in Seq(Chunks)
    BY <2>2, PiecesType, SeqMonotonic DEF Blob
  <2> DEFINE next == [Idle EXCEPT !.at = "storing", !.op = r.op, !.node = r.node,
                                  !.body = r.body, !.left = chunks]
  <2>5. next \in Busy
    BY <2>1, <2>4 DEF Busy, Idle
  <2>6. next.at = "storing" /\ next.op = r.op /\ next.left = chunks
    BY DEF Idle
  <2>7. TasksOK'
    BY <1>1, <2>1, <2>3, <2>4, <2>5, <2>6, GotoFit DEF StartUpload, Fit, Shaped
  <2> QED BY <1>0, <1>1, <2>7, PartsNext DEF StartUpload, StoresOK, RestOK
<1>2. ASSUME NEW n \in Nodes, NEW file \in Files, StartGet(t, n, file) PROVE TypeInv'
  <2>1. file \in Manifests /\ n \in up
    BY <1>0, <1>2 DEF StartGet, Files, RestOK
  <2>2. [Idle EXCEPT !.op = "get", !.node = n, !.file = file] \in Opening
    BY <2>1, EmptySeq DEF Idle, Opening
  <2>3. TasksOK'
    BY <1>2, <2>2, OpenFit DEF StartGet
  <2> QED BY <1>0, <1>2, <2>3, PartsNext DEF StartGet, StoresOK, RestOK
<1>3. ASSUME NEW n \in Nodes, NEW file \in Files, StartDelete(t, n, file) PROVE TypeInv'
  <2>1. file \in Manifests /\ n \in up
    BY <1>0, <1>3 DEF StartDelete, Files, RestOK
  <2>2. PICK op : Open(t, Deleting(n, file, op = "global"))
    BY <1>3 DEF StartDelete
  <2>3. Deleting(n, file, op = "global") \in Opening
    BY <2>1, DeletingType
  <2>4. TasksOK'
    BY <1>3, <2>2, <2>3, OpenFit DEF StartDelete
  <2>5. RestOK'
    BY <1>0, <1>3, <2>1 DEF StartDelete, RestOK
  <2> QED BY <1>0, <1>3, <2>4, <2>5, PartsNext DEF StartDelete, StoresOK
<1> QED BY <1>1, <1>2, <1>3 DEF Request

LEMMA StoringType ==
  ASSUME TypeInv, NEW t \in Tasks, StoreChunk(t) \/ UploadFails(t) \/ Seal(t)
  PROVE  TypeInv'
<1> DEFINE k == task[t]
<1>0. TasksOK /\ StoresOK /\ RestOK
  BY Parts
<1>1. /\ k.at = "storing" /\ Fit(k) /\ k \in Busy /\ k.left \in Seq(Chunks)
      /\ k.op \in {"post", "stream"}
  BY RunningTask DEF StoreChunk, UploadFails, Seal, Fit, Shaped
<1>2. k.node \in Nodes /\ k.body \in Seq(Nat) /\ k.got \in Seq(Chunks)
  BY <1>1, BusyFields
<1>3. CASE StoreChunk(t)
  <2>1. /\ Head(k.left) \in Chunks /\ Tail(k.left) \in Seq(Chunks)
        /\ Append(k.got, Head(k.left)) \in Seq(Chunks)
    BY <1>1, <1>2, <1>3, RangeSplit, RangeAppend DEF StoreChunk
  <2>2. Tail(k.left) \in Seq(Blob) /\ Head(k.left) \in Blob
    BY <2>1, SeqMonotonic DEF Blob
  <2> DEFINE next == [k EXCEPT !.left = Tail(@), !.got = Append(@, Head(k.left))]
  <2>3. next \in Busy
    BY <1>1, <2>1, <2>2 DEF Busy
  <2>4. next.at = "storing" /\ next.op = k.op /\ next.left = Tail(k.left)
    BY <1>1 DEF Busy
  <2>5. TasksOK'
    BY <1>1, <1>3, <2>1, <2>3, <2>4, GotoFit DEF StoreChunk, Fit, Shaped
  <2>6. held' \in [Nodes -> SUBSET Blob] /\ pending' \in [Nodes -> SUBSET Blob]
    BY <1>1, <1>2, <1>3, <2>2, PutType, SpawnType, DueType DEF StoreChunk
  <2> QED BY <1>0, <1>3, <2>5, <2>6, PartsNext DEF StoreChunk, StoresOK, RestOK
<1>4. CASE UploadFails(t)
  <2>1. TasksOK'
    BY <1>4, GotoFit DEF UploadFails
  <2> QED BY <1>0, <1>4, <2>1, PartsNext DEF UploadFails, StoresOK, RestOK
<1>5. CASE Seal(t)
  <2> DEFINE file == CreateManifest(Cut(k.body), k.got)
  <2>1. file \in Manifests /\ file \in Blob
    BY <1>2, CutType, ManifestType DEF Blob
  <2> HIDE DEF file
  <2>2. TasksOK'
    BY <1>5, GotoFit DEF Seal
  <2>3. held' \in [Nodes -> SUBSET Blob]
    BY <1>2, <1>5, <2>1, PutType DEF Seal, file
  <2>4. pending' \in [Nodes -> SUBSET Blob]
    <3>1. Spawn(k.node, {file}) \/ Spawn(k.node, {})
      BY <1>5 DEF Seal, file
    <3> QED BY <1>2, <2>1, <3>1, SpawnType
  <2>5. RestOK'
    BY <1>0, <1>1, <1>2, <1>5, <2>1 DEF Seal, RestOK, file
  <2> QED BY <1>0, <1>5, <2>2, <2>3, <2>4, <2>5, PartsNext DEF Seal, StoresOK
<1> QED BY <1>3, <1>4, <1>5

LEMMA FetchingType ==
  ASSUME TypeInv, NEW t \in Tasks,
         \/ NotFound(t)
         \/ \E p \in Nodes : FetchFails(t, p) \/ FetchManifest(t, p) \/ FetchChunk(t, p)
  PROVE  TypeInv'
<1> DEFINE k == task[t]
<1>0. TasksOK /\ StoresOK /\ RestOK
  BY Parts
<1>1. /\ k.at = "fetching" /\ Fit(k) /\ k \in Busy /\ Shaped(k)
      /\ k.op \in {"get", "delete"} /\ k.file \in Manifests /\ k.left \in Seq(Chunks)
      /\ k.want \in Blob
      /\ k.want # k.file => k.op = "get" /\ k.left # <<>> /\ k.want \in Chunks
  BY RunningTask DEF NotFound, FetchFails, FetchManifest, FetchChunk, Fit, Shaped
<1>2. k.node \in Nodes
  BY <1>1, BusyFields
<1>3. CASE NotFound(t)
  <2>1. TasksOK'
    BY <1>3, GotoFit DEF NotFound
  <2> QED BY <1>0, <1>3, <2>1, PartsNext DEF NotFound, StoresOK, RestOK
<1>4. ASSUME NEW p \in Nodes, FetchFails(t, p) PROVE TypeInv'
  <2> DEFINE next == [k EXCEPT !.ask = @ \ {p}]
  <2>1. next \in Busy
    BY <1>1 DEF Busy
  <2>2. /\ next.at = k.at /\ next.op = k.op /\ next.file = k.file /\ next.left = k.left
        /\ next.want = k.want
    BY <1>1 DEF Busy
  <2>3. Fit(next)
    BY <1>1, <2>1, <2>2 DEF Fit, Shaped
  <2>4. TasksOK'
    BY <1>4, <2>3, GotoFit DEF FetchFails
  <2> QED BY <1>0, <1>4, <2>4, PartsNext DEF FetchFails, StoresOK, RestOK
<1>5. ASSUME NEW p \in Nodes, FetchManifest(t, p) PROVE TypeInv'
  <2>1. TasksOK'
    BY <1>1, <1>5, GatheringFit, RemovingFit, GotoFit DEF FetchManifest
  <2>2. held' \in [Nodes -> SUBSET Blob]
    BY <1>0, <1>1, <1>2, <1>5, PutType DEF FetchManifest, StoresOK
  <2> QED BY <1>0, <1>5, <2>1, <2>2, PartsNext DEF FetchManifest, StoresOK, RestOK
<1>6. ASSUME NEW p \in Nodes, FetchChunk(t, p) PROVE TypeInv'
  <2>1. TasksOK'
    BY <1>1, <1>6, WithFit, GotoFit DEF FetchChunk
  <2>2. (IF k.node \in Advertising THEN {k.want} ELSE {}) \in SUBSET Blob
    BY <1>1
  <2>3. held' \in [Nodes -> SUBSET Blob] /\ pending' \in [Nodes -> SUBSET Blob]
    BY <1>0, <1>1, <1>2, <1>6, <2>2, PutType, SpawnType DEF FetchChunk, StoresOK
  <2> QED BY <1>0, <1>6, <2>1, <2>3, PartsNext DEF FetchChunk, StoresOK, RestOK
<1> QED BY <1>3, <1>4, <1>5, <1>6

LEMMA GatheringType ==
  ASSUME TypeInv, NEW t \in Tasks, Gather(t) \/ Answer(t)
  PROVE  TypeInv'
<1> DEFINE k == task[t]
<1>0. TasksOK /\ StoresOK /\ RestOK
  BY Parts
<1>1. /\ k.at = "gathering" /\ k \in Busy /\ k.op = "get" /\ k.file \in Manifests
      /\ k.left \in Seq(Chunks)
  BY RunningTask DEF Gather, Answer, Fit, Shaped
<1>2. CASE Gather(t)
  <2>1. Head(k.left) \in Chunks /\ Head(k.left) \in Blob
    BY <1>1, <1>2, RangeSplit DEF Gather, Blob
  <2>2. TasksOK'
    BY <1>1, <1>2, <2>1, WithFit, SeekFit, GotoFit DEF Gather
  <2> QED BY <1>0, <1>2, <2>2, PartsNext DEF Gather, StoresOK, RestOK
<1>3. CASE Answer(t)
  <2>1. TasksOK'
    BY <1>3, GotoFit DEF Answer
  <2> QED BY <1>0, <1>3, <2>1, PartsNext DEF Answer, StoresOK, RestOK
<1> QED BY <1>2, <1>3

LEMMA RemovingType ==
  ASSUME TypeInv, NEW t \in Tasks, RemoveChunk(t) \/ RemoveManifest(t)
  PROVE  TypeInv'
<1> DEFINE k == task[t]
<1>0. TasksOK /\ StoresOK /\ RestOK
  BY Parts
<1>1. /\ k.at = "removing" /\ Fit(k) /\ k \in Busy /\ k.op = "delete" /\ k.file \in Manifests
      /\ k.left \in Seq(Chunks) /\ Range(k.left) \subseteq Blobs(k.file)
  BY RunningTask DEF RemoveChunk, RemoveManifest, Fit, Shaped
<1>2. k.node \in Nodes
  BY <1>1, BusyFields
<1>3. CASE RemoveChunk(t)
  <2>1. Tail(k.left) \in Seq(Chunks) /\ Range(Tail(k.left)) \subseteq Range(k.left)
    BY <1>1, <1>3, RangeSplit DEF RemoveChunk
  <2> DEFINE next == [k EXCEPT !.left = Tail(@)]
  <2>2. next \in Busy
    BY <1>1, <2>1, SeqMonotonic, BusyFields DEF Blob
  <2>3. next.at = k.at /\ next.op = k.op /\ next.file = k.file /\ next.left = Tail(k.left)
    BY <1>1 DEF Busy
  <2>4. TasksOK'
    BY <1>1, <1>3, <2>1, <2>2, <2>3, GotoFit DEF RemoveChunk, Fit, Shaped
  <2> QED BY <1>0, <1>2, <1>3, <2>4, EraseType, PartsNext DEF RemoveChunk, StoresOK, RestOK
<1>4. CASE RemoveManifest(t)
  <2>1. TasksOK'
    <3>1. CASE Trace(t, k, <<k.file>> \o k.file.parts)
      <4> DEFINE own == <<k.file>>
      <4>1. /\ k.file.parts \in Seq(Blob) /\ own \in Seq(Blob) /\ own # <<>>
            /\ Range(k.file.parts) \subseteq Blobs(k.file) /\ k.file \in Blobs(k.file)
        BY <1>1, BlobsType, SeqMonotonic DEF Blob
      <4>2. Range(own) = {k.file}
        BY DEF Range
      <4> HIDE DEF own
      <4>3. own \o k.file.parts \in Seq(Blob)
        BY <4>1, ConcatProperties
      <4>4. own \o k.file.parts # <<>>
        BY <4>1, ConcatEqualIffEmpty
      <4>5. Range(own \o k.file.parts) = Range(own) \cup Range(k.file.parts)
        BY <4>1, RangeConcatenation
      <4>6. Trace(t, k, own \o k.file.parts)
        BY <3>1 DEF own
      <4> QED BY <1>1, <1>4, <4>1, <4>2, <4>3, <4>4, <4>5, <4>6, TraceFit DEF RemoveManifest
    <3>2. CASE Goto(t, Idle)
      BY <1>4, <3>2, GotoFit DEF RemoveManifest
    <3> QED BY <1>4, <3>1, <3>2 DEF RemoveManifest
  <2> QED BY <1>0, <1>2, <1>4, <2>1, EraseType, PartsNext DEF RemoveManifest, StoresOK, RestOK
<1> QED BY <1>3, <1>4

LEMMA SpreadingType ==
  ASSUME TypeInv, NEW t \in Tasks, Told(t) \/ \E p \in Nodes : Tell(t, p)
  PROVE  TypeInv'
<1> DEFINE k == task[t]
<1>0. TasksOK /\ StoresOK /\ RestOK
  BY Parts
<1>1. /\ k.at = "spreading" /\ Fit(k) /\ k \in Busy /\ k.op = "delete" /\ k.file \in Manifests
      /\ k.left # <<>> /\ Range(k.left) \subseteq Blobs(k.file) /\ k.left \in Seq(Blob)
  BY RunningTask DEF Told, Tell, Fit, Shaped, Busy
<1>2. /\ Head(k.left) \in Blob /\ Tail(k.left) \in Seq(Blob)
      /\ Range(Tail(k.left)) \subseteq Blobs(k.file)
  BY <1>1, RangeSplit
<1>3. CASE Told(t)
  <2>1. TasksOK'
    BY <1>1, <1>2, <1>3, TraceFit, GotoFit DEF Told
  <2> QED BY <1>0, <1>3, <2>1, PartsNext DEF Told, StoresOK, RestOK
<1>4. ASSUME NEW p \in Nodes, Tell(t, p) PROVE TypeInv'
  <2> DEFINE next == [k EXCEPT !.ask = @ \ {p}]
  <2>1. next \in Busy
    BY <1>1 DEF Busy
  <2>2. /\ next.at = k.at /\ next.op = k.op /\ next.file = k.file /\ next.left = k.left
        /\ next.ask = k.ask \ {p} /\ next.node = k.node
    BY <1>1 DEF Busy
  <2>3. Fit(next)
    BY <1>1, <2>1, <2>2 DEF Fit, Shaped
  <2>4. TasksOK'
    BY <1>4, <2>3, GotoFit DEF Tell
  <2>5. calls' \subseteq [to : up, blob : Blob]
    BY <1>0, <1>2, <1>4 DEF Tell, RestOK
  <2> QED BY <1>0, <1>4, <2>4, <2>5, PartsNext DEF Tell, StoresOK, RestOK
<1> QED BY <1>3, <1>4

LEMMA ServeType ==
  ASSUME TypeInv, Serve
  PROVE  TypeInv'
<1>0. TasksOK /\ StoresOK /\ RestOK
  BY Parts
<1>1. ASSUME NEW c \in calls, ServeChunk(c) PROVE TypeInv'
  <2>1. c.to \in Nodes
    BY <1>0 DEF RestOK
  <2>2. held' \in [Nodes -> SUBSET Blob]
    BY <1>1, <2>1, EraseType DEF ServeChunk
  <2>3. TasksOK'
    BY <1>0, <1>1 DEF ServeChunk, TasksOK, Fit, Busy
  <2> QED BY <1>0, <1>1, <2>2, <2>3, PartsNext DEF ServeChunk, StoresOK, RestOK
<1>2. ASSUME NEW c \in calls, NEW t \in Tasks, ServeFile(t, c) PROVE TypeInv'
  <2>1. c.blob \in Manifests /\ c.to \in up
    BY <1>0, <1>2, Kinds DEF ServeFile, RestOK, Blob
  <2>2. Deleting(c.to, c.blob, FALSE) \in Opening
    BY <2>1, DeletingType
  <2>3. TasksOK'
    BY <1>2, <2>2, OpenFit DEF ServeFile
  <2> QED BY <1>0, <1>2, <2>3, PartsNext DEF ServeFile, StoresOK, RestOK
<1> QED BY <1>1, <1>2 DEF Serve

LEMMA NodeType ==
  ASSUME TypeInv, NEW n \in Nodes,
         Crash(n) \/ Restart(n) \/ \E b \in pending[n] : Announce(n, b)
  PROVE  TypeInv'
<1>0. TasksOK /\ StoresOK /\ RestOK
  BY Parts
<1>1. CASE Crash(n)
  <2>1. TasksOK'
    BY <1>0, <1>1 DEF Crash, TasksOK, Fit, Busy
  <2>2. RestOK'
    BY <1>0, <1>1 DEF Crash, RestOK
  <2>3. StoresOK'
    BY <1>0, <1>1 DEF Crash, StoresOK
  <2> QED BY <2>1, <2>2, <2>3, PartsNext
<1>2. CASE Restart(n)
  <2>1. TasksOK'
    BY <1>0, <1>2 DEF Restart, TasksOK, Fit, Busy
  <2>2. RestOK'
    BY <1>0, <1>2 DEF Restart, RestOK
  <2> QED BY <1>0, <1>2, <2>1, <2>2, PartsNext DEF Restart, StoresOK
<1>3. ASSUME NEW b \in pending[n], Announce(n, b) PROVE TypeInv'
  <2>1. TasksOK'
    BY <1>0, <1>3 DEF Announce, TasksOK, Fit, Busy
  <2>2. b \in Blob
    BY <1>0 DEF StoresOK
  <2>3. StoresOK'
    BY <1>0, <1>3, <2>2 DEF Announce, StoresOK
  <2> QED BY <1>0, <1>3, <2>1, <2>3, PartsNext DEF Announce, RestOK
<1> QED BY <1>1, <1>2, <1>3

LEMMA InitType == Init => TypeInv
<1> SUFFICES ASSUME Init PROVE TypeInv
  OBVIOUS
<1>1. TasksOK
  BY DEF Init, TasksOK
<1> QED BY <1>1, Parts DEF Init, StoresOK, RestOK

LEMMA NextType == TypeInv /\ [Next]_vars => TypeInv'
<1> SUFFICES ASSUME TypeInv, [Next]_vars PROVE TypeInv'
  OBVIOUS
<1>1. CASE UNCHANGED vars
  BY <1>1, Parts, PartsNext DEF vars, TasksOK, Fit, Busy, StoresOK, RestOK
<1>2. ASSUME NEW t \in Tasks, Request(t) PROVE TypeInv'
  BY <1>2, RequestType
<1>3. ASSUME NEW t \in Tasks, Step(t) PROVE TypeInv'
  BY <1>3, StoringType, FetchingType, GatheringType, RemovingType, SpreadingType DEF Step
<1>4. CASE Serve
  BY <1>4, ServeType
<1>5. CASE Announcing
  BY <1>5, NodeType DEF Announcing
<1>6. ASSUME NEW n \in Nodes, Crash(n) \/ Restart(n) PROVE TypeInv'
  BY <1>6, NodeType
<1> QED BY <1>1, <1>2, <1>3, <1>4, <1>5, <1>6 DEF Next

\* The variables keep their types; a manifest is always a manifest by the time its parts
\* are walked through, and the node that spreads a delete never asks itself.
THEOREM TypeCorrect == Spec => []TypeOK
<1>1. TypeInv => TypeOK
  BY DEF TypeInv
<1> QED BY <1>1, InitType, NextType, PTL DEF Spec
-------------------------------------------------------------------------------
\* That uploads stay intact.  A handler that stores has what it has stored so far; one
\* that deletes, here or at a provider, does so for a file that a client asked to delete.

KeptInv ==
  /\ \A t \in Tasks : task[t].at = "storing" =>
       \A b \in Range(task[t].got) : b \in held[task[t].node] \/ b \in Touched
  /\ \A t \in Tasks : task[t].at # "idle" /\ task[t].op = "delete" => task[t].file \in deleted
  /\ \A c \in calls : c.blob \in Touched /\ (IsManifest(c.blob) => c.blob \in deleted)
  /\ UploadsIntact

\* What a step may make of a task.
Moved(t) ==
  \/ task'[t] = task[t]
  \/ task'[t] = Idle
  \/ StoreChunk(t)
  \/ /\ task'[t].at = "storing" /\ task'[t].op \in {"post", "stream"}
     /\ task'[t].got = <<>>
  \/ task'[t].at \in {"fetching", "gathering"} /\ task'[t].op = "get"
  \/ /\ task'[t].at \in {"fetching", "removing", "spreading"} /\ task'[t].op = "delete"
     /\ task'[t].file \in deleted'

LEMMA IdleFields == Idle.at = "idle" /\ Idle.got = <<>>
BY DEF Idle

LEMMA GotoOne ==
  ASSUME TypeInv, NEW t \in Tasks, NEW next, Goto(t, next)
  PROVE  task'[t] = next /\ \A s \in Tasks \ {t} : Moved(s)
BY DEF Goto, TypeInv, TypeOK, Moved

LEMMA OpenMoves ==
  ASSUME TypeInv, NEW t \in Tasks, NEW k \in Opening, Open(t, k),
         k.op = "delete" => k.file \in deleted'
  PROVE  \A s \in Tasks : Moved(s)
<1>1. CASE Goto(t, IF k.op = "get" THEN Gathering(k) ELSE Removing(k))
  <2>1. task'[t] = (IF k.op = "get" THEN Gathering(k) ELSE Removing(k))
    BY <1>1, GotoOne
  <2>2. /\ Gathering(k).at = "gathering" /\ Gathering(k).op = k.op
        /\ Removing(k).at = "removing" /\ Removing(k).op = k.op /\ Removing(k).file = k.file
    BY DEF Gathering, Removing, Opening
  <2>3. k.op \in {"get", "delete"}
    BY DEF Opening
  <2> QED BY <1>1, <2>1, <2>2, <2>3, GotoOne DEF Moved
<1>2. CASE Seek(t, k, k.file)
  <2>1. PICK S : Goto(t, [k EXCEPT !.at = "fetching", !.want = k.file, !.ask = S])
    BY <1>2 DEF Seek
  <2>2. task'[t] = [k EXCEPT !.at = "fetching", !.want = k.file, !.ask = S]
    BY <2>1, GotoOne
  <2>3. task'[t].at = "fetching" /\ task'[t].op = k.op /\ task'[t].file = k.file
    BY <2>2 DEF Opening
  <2>4. k.op \in {"get", "delete"}
    BY DEF Opening
  <2> QED BY <2>1, <2>3, <2>4, GotoOne DEF Moved
<1> QED BY <1>1, <1>2 DEF Open

LEMMA TraceMoves ==
  ASSUME TypeInv, NEW t \in Tasks, NEW k \in Busy, NEW blobs, Trace(t, k, blobs),
         k.op = "delete", k.file \in deleted'
  PROVE  \A s \in Tasks : Moved(s)
<1>1. PICK S : Goto(t, [k EXCEPT !.at = "spreading", !.left = blobs, !.ask = S \ {k.node}])
  BY DEF Trace
<1>2. task'[t] = [k EXCEPT !.at = "spreading", !.left = blobs, !.ask = S \ {k.node}]
  BY <1>1, GotoOne
<1>3. task'[t].at = "spreading" /\ task'[t].op = k.op /\ task'[t].file = k.file
  BY <1>2 DEF Busy
<1> QED BY <1>1, <1>3, GotoOne DEF Moved

LEMMA RequestMoves ==
  ASSUME TypeInv, NEW t \in Tasks, Request(t)
  PROVE  \A s \in Tasks : Moved(s)
<1>0. RestOK
  BY Parts
<1>1. ASSUME NEW r \in Uploads, StartUpload(t, r) PROVE \A s \in Tasks : Moved(s)
  <2>1. PICK chunks :
          Goto(t, [Idle EXCEPT !.at = "storing", !.op = r.op, !.node = r.node, !.body = r.body,
                               !.left = chunks])
    BY <1>1 DEF StartUpload
  <2>2. task'[t] = [Idle EXCEPT !.at = "storing", !.op = r.op, !.node = r.node, !.body = r.body,
                                !.left = chunks]
    BY <2>1, GotoOne
  <2>3. task'[t].at = "storing" /\ task'[t].op = r.op /\ task'[t].got = <<>>
    BY <2>2 DEF Idle
  <2> QED BY <2>1, <2>3, GotoOne, ConstantsAssumption DEF Moved
<1>2. ASSUME NEW n \in Nodes, NEW file \in Files, StartGet(t, n, file)
      PROVE  \A s \in Tasks : Moved(s)
  <2>1. file \in Manifests /\ n \in up
    BY <1>0, <1>2 DEF StartGet, Files, RestOK
  <2> DEFINE k == [Idle EXCEPT !.op = "get", !.node = n, !.file = file]
  <2>2. k \in Opening /\ k.op = "get"
    BY <2>1, EmptySeq DEF Idle, Opening
  <2> QED BY <1>2, <2>2, OpenMoves DEF StartGet
<1>3. ASSUME NEW n \in Nodes, NEW file \in Files, StartDelete(t, n, file)
      PROVE  \A s \in Tasks : Moved(s)
  <2>1. file \in Manifests /\ n \in up
    BY <1>0, <1>3 DEF StartDelete, Files, RestOK
  <2>2. PICK op : Open(t, Deleting(n, file, op = "global"))
    BY <1>3 DEF StartDelete
  <2>3. Deleting(n, file, op = "global") \in Opening
    BY <2>1, DeletingType
  <2>4. Deleting(n, file, op = "global").file = file
    BY DEF Deleting, Idle
  <2> QED BY <1>3, <2>2, <2>3, <2>4, OpenMoves DEF StartDelete
<1> QED BY <1>1, <1>2, <1>3 DEF Request

LEMMA StepMoves ==
  ASSUME TypeInv, KeptInv, NEW t \in Tasks, Step(t)
  PROVE  \A s \in Tasks : Moved(s)
<1> DEFINE k == task[t]
<1>0. k.at # "idle" => /\ k \in Busy /\ Shaped(k)
                       /\ k.op = "delete" => k.file \in deleted
  BY RunningTask DEF Fit, KeptInv
<1>1. CASE StoreChunk(t)
  BY <1>1, GotoOne DEF StoreChunk, Moved
<1>2. CASE UploadFails(t) \/ Seal(t) \/ NotFound(t) \/ Answer(t)
  BY <1>2, GotoOne DEF UploadFails, Seal, NotFound, Answer, Moved
<1>3. ASSUME NEW p \in Nodes, FetchFails(t, p) PROVE \A s \in Tasks : Moved(s)
  <2>1. task'[t] = [k EXCEPT !.ask = @ \ {p}]
    BY <1>3, GotoOne DEF FetchFails
  <2>2. /\ task'[t].at = "fetching" /\ task'[t].op = k.op /\ task'[t].file = k.file
        /\ k.op \in {"get", "delete"}
    BY <1>0, <1>3, <2>1 DEF FetchFails, Busy, Shaped
  <2> QED BY <1>0, <1>3, <2>2, GotoOne DEF FetchFails, Moved
<1>4. ASSUME NEW p \in Nodes, FetchManifest(t, p) PROVE \A s \in Tasks : Moved(s)
  <2>1. k \in Busy /\ (k.op = "delete" => k.file \in deleted')
    BY <1>0, <1>4 DEF FetchManifest
  <2>2. /\ Gathering(k).at = "gathering" /\ Gathering(k).op = k.op
        /\ Removing(k).at = "removing" /\ Removing(k).op = k.op /\ Removing(k).file = k.file
    BY <2>1 DEF Gathering, Removing, Busy
  <2> QED BY <1>4, <2>1, <2>2, GotoOne DEF FetchManifest, Moved
<1>5. ASSUME NEW p \in Nodes, FetchChunk(t, p) PROVE \A s \in Tasks : Moved(s)
  <2>1. k \in Busy /\ k.op = "get"
    BY <1>0, <1>5 DEF FetchChunk, Shaped
  <2>2. With(k, k.want).at = "gathering" /\ With(k, k.want).op = "get"
    BY <2>1 DEF With, Busy
  <2> QED BY <1>5, <2>2, GotoOne DEF FetchChunk, Moved
<1>6. CASE Gather(t)
  <2>1. k \in Busy /\ k.op = "get"
    BY <1>0, <1>6 DEF Gather, Shaped
  <2>2. CASE Goto(t, With(k, Head(k.left)))
    <3>1. With(k, Head(k.left)).at = "gathering" /\ With(k, Head(k.left)).op = "get"
      BY <2>1 DEF With, Busy
    <3> QED BY <2>2, <3>1, GotoOne DEF Moved
  <2>3. CASE Seek(t, k, Head(k.left))
    <3>1. PICK S : Goto(t, [k EXCEPT !.at = "fetching", !.want = Head(k.left), !.ask = S])
      BY <2>3 DEF Seek
    <3>2. task'[t] = [k EXCEPT !.at = "fetching", !.want = Head(k.left), !.ask = S]
      BY <3>1, GotoOne
    <3>3. task'[t].at = "fetching" /\ task'[t].op = "get"
      BY <2>1, <3>2 DEF Busy
    <3> QED BY <3>1, <3>3, GotoOne DEF Moved
  <2> QED BY <1>6, <2>2, <2>3 DEF Gather
<1>7. CASE RemoveChunk(t)
  <2>1. k \in Busy /\ k.op = "delete" /\ k.file \in deleted'
    BY <1>0, <1>7 DEF RemoveChunk, Shaped
  <2>2. task'[t] = [k EXCEPT !.left = Tail(@)]
    BY <1>7, GotoOne DEF RemoveChunk
  <2>3. task'[t].at = "removing" /\ task'[t].op = "delete" /\ task'[t].file = k.file
    BY <1>7, <2>1, <2>2 DEF RemoveChunk, Busy
  <2> QED BY <1>7, <2>1, <2>3, GotoOne DEF RemoveChunk, Moved
<1>8. CASE RemoveManifest(t)
  <2>1. k \in Busy /\ k.op = "delete" /\ k.file \in deleted'
    BY <1>0, <1>8 DEF RemoveManifest, Shaped
  <2>2. CASE Goto(t, Idle)
    BY <2>2, GotoOne DEF Moved
  <2> QED BY <1>8, <2>1, <2>2, TraceMoves DEF RemoveManifest
<1>9. ASSUME NEW p \in Nodes, Tell(t, p) PROVE \A s \in Tasks : Moved(s)
  <2>1. k \in Busy /\ k.op = "delete" /\ k.file \in deleted'
    BY <1>0, <1>9 DEF Tell, Shaped
  <2>2. task'[t] = [k EXCEPT !.ask = @ \ {p}]
    BY <1>9, GotoOne DEF Tell
  <2>3. task'[t].at = "spreading" /\ task'[t].op = "delete" /\ task'[t].file = k.file
    BY <1>9, <2>1, <2>2 DEF Tell, Busy
  <2> QED BY <1>9, <2>1, <2>3, GotoOne DEF Tell, Moved
<1>10. CASE Told(t)
  <2>1. k \in Busy /\ k.op = "delete" /\ k.file \in deleted'
    BY <1>0, <1>10 DEF Told, Shaped
  <2>2. CASE Goto(t, Idle)
    BY <2>2, GotoOne DEF Moved
  <2> QED BY <1>10, <2>1, <2>2, TraceMoves DEF Told
<1> QED BY <1>1, <1>2, <1>3, <1>4, <1>5, <1>6, <1>7, <1>8, <1>9, <1>10 DEF Step

LEMMA NextMoves ==
  ASSUME TypeInv, KeptInv, [Next]_vars
  PROVE  \A s \in Tasks : Moved(s)
<1>1. CASE UNCHANGED task
  BY <1>1 DEF Moved
<1>2. ASSUME NEW t \in Tasks, Request(t) \/ Step(t) PROVE \A s \in Tasks : Moved(s)
  BY <1>2, RequestMoves, StepMoves
<1>3. ASSUME NEW c \in calls, NEW t \in Tasks, ServeFile(t, c) PROVE \A s \in Tasks : Moved(s)
  <2>1. c.blob \in Manifests /\ c.to \in up /\ c.blob \in deleted
    BY <1>3, Parts, Kinds DEF ServeFile, RestOK, Blob, KeptInv
  <2>2. /\ Deleting(c.to, c.blob, FALSE) \in Opening
        /\ Deleting(c.to, c.blob, FALSE).file = c.blob
    BY <2>1, DeletingType DEF Deleting, Idle
  <2> QED BY <1>3, <2>1, <2>2, OpenMoves DEF ServeFile
<1>4. ASSUME NEW n \in Nodes, Crash(n) PROVE \A s \in Tasks : Moved(s)
  BY <1>4 DEF Crash, Moved
<1>5. CASE UNCHANGED vars
  BY <1>1, <1>5 DEF vars
<1>6. ASSUME NEW c \in calls, ServeChunk(c) PROVE UNCHANGED task
  BY <1>6 DEF ServeChunk
<1>7. ASSUME NEW n \in Nodes, NEW b \in pending[n], Announce(n, b) PROVE UNCHANGED task
  BY <1>7 DEF Announce
<1>8. ASSUME NEW n \in Nodes, Restart(n) PROVE UNCHANGED task
  BY <1>8 DEF Restart
<1> QED BY <1>1, <1>2, <1>3, <1>4, <1>5, <1>6, <1>7, <1>8 DEF Next, Serve, Announcing

\* What only a few actions change.
Footprint ==
  /\ deleted \subseteq deleted' /\ crashed \subseteq crashed'
  /\ calls' \subseteq calls \/ \E t \in Tasks, p \in Nodes : Tell(t, p)
  /\ UNCHANGED uploaded \/ \E t \in Tasks : Seal(t)

LEMMA NextFootprint == [Next]_vars => Footprint
<1> SUFFICES ASSUME [Next]_vars PROVE Footprint
  OBVIOUS
<1>1. ASSUME NEW t \in Tasks, Request(t) PROVE Footprint
  BY <1>1 DEF Footprint, Request, StartUpload, StartGet, StartDelete
<1>2. ASSUME NEW t \in Tasks, Step(t) PROVE Footprint
  <2>1. CASE StoreChunk(t) \/ UploadFails(t) \/ NotFound(t) \/ Gather(t) \/ Answer(t)
    BY <2>1 DEF Footprint, StoreChunk, UploadFails, NotFound, Gather, Answer
  <2>2. CASE RemoveChunk(t) \/ RemoveManifest(t) \/ Told(t)
    BY <2>2 DEF Footprint, RemoveChunk, RemoveManifest, Told
  <2>3. CASE Seal(t)
    <3>1. UNCHANGED <<calls, deleted, crashed>>
      BY <2>3 DEF Seal
    <3> QED BY <2>3, <3>1 DEF Footprint
  <2>4. ASSUME NEW p \in Nodes, FetchFails(t, p) \/ FetchManifest(t, p) \/ FetchChunk(t, p)
        PROVE  Footprint
    BY <2>4 DEF Footprint, FetchFails, FetchManifest, FetchChunk
  <2>5. ASSUME NEW p \in Nodes, Tell(t, p) PROVE Footprint
    <3>1. UNCHANGED <<uploaded, deleted, crashed>>
      BY <2>5 DEF Tell
    <3> QED BY <2>5, <3>1 DEF Footprint
  <2> QED BY <1>2, <2>1, <2>2, <2>3, <2>4, <2>5 DEF Step
<1>3. ASSUME Serve \/ Announcing PROVE Footprint
  BY <1>3 DEF Footprint, Serve, ServeChunk, ServeFile, Announcing, Announce
<1>4. ASSUME NEW n \in Nodes, Crash(n) \/ Restart(n) PROVE Footprint
  BY <1>4 DEF Footprint, Crash, Restart
<1>5. CASE UNCHANGED vars
  BY <1>5 DEF Footprint, vars
<1> QED BY <1>1, <1>2, <1>3, <1>4, <1>5 DEF Next

\* Only what a client has asked to delete leaves a store.
LEMMA Lasting ==
  ASSUME TypeInv, KeptInv, [Next]_vars
  PROVE  /\ deleted \subseteq deleted' /\ Touched \subseteq Touched'
         /\ \A n \in Nodes : \A b \in held[n] : b \in held'[n] \/ b \in Touched'
<1> DEFINE Lasts == \A n \in Nodes : \A b \in held[n] : b \in held'[n] \/ b \in Touched'
<1>0. held \in [Nodes -> SUBSET Blob] /\ calls \subseteq [to : up, blob : Blob]
  BY DEF TypeInv, TypeOK
<1>1. deleted \subseteq deleted'
  BY NextFootprint DEF Footprint
<1>2. Touched \subseteq Touched'
  BY <1>1 DEF Touched
<1>3. ASSUME NEW n, NEW b, Put(n, b) \/ UNCHANGED held PROVE Lasts
  BY <1>0, <1>3 DEF Put
<1>4. ASSUME NEW n, NEW b \in Touched, Erase(n, b) PROVE Lasts
  BY <1>0, <1>2, <1>4 DEF Erase
<1>5. ASSUME NEW t \in Tasks, RemoveChunk(t) \/ RemoveManifest(t) PROVE Lasts
  <2> DEFINE k == task[t]
  <2>1. k.file \in Manifests /\ k.file \in deleted /\ Range(k.left) \subseteq Blobs(k.file)
        /\ k.left \in Seq(Chunks)
    BY <1>5, RunningTask DEF RemoveChunk, RemoveManifest, Fit, Shaped, KeptInv
  <2>2. Blobs(k.file) \subseteq Touched
    BY <2>1 DEF Touched
  <2>3. k.file \in Touched /\ (k.left # <<>> => Head(k.left) \in Touched)
    BY <2>1, <2>2, RangeSplit, BlobsType
  <2> QED BY <1>4, <1>5, <2>3 DEF RemoveChunk, RemoveManifest
<1>6. ASSUME NEW c \in calls, ServeChunk(c) PROVE Lasts
  BY <1>4, <1>6 DEF ServeChunk, KeptInv
<1>7. ASSUME NEW t \in Tasks, Request(t) PROVE UNCHANGED held
  BY <1>7 DEF Request, StartUpload, StartGet, StartDelete
<1>8. ASSUME NEW t \in Tasks, Step(t) PROVE Lasts
  <2>1. CASE RemoveChunk(t) \/ RemoveManifest(t)
    BY <1>5, <2>1
  <2>2. CASE StoreChunk(t) \/ UploadFails(t) \/ Seal(t) \/ NotFound(t) \/ Gather(t)
             \/ Answer(t) \/ Told(t)
    BY <1>3, <2>2 DEF StoreChunk, UploadFails, Seal, NotFound, Gather, Answer, Told
  <2>3. ASSUME NEW p \in Nodes,
               FetchFails(t, p) \/ FetchManifest(t, p) \/ FetchChunk(t, p) \/ Tell(t, p)
        PROVE  Lasts
    BY <1>3, <2>3 DEF FetchFails, FetchManifest, FetchChunk, Tell
  <2> QED BY <1>8, <2>1, <2>2, <2>3 DEF Step
<1>9. ASSUME NEW c \in calls, NEW t \in Tasks, ServeFile(t, c) PROVE UNCHANGED held
  BY <1>9 DEF ServeFile
<1>10. ASSUME NEW n \in Nodes, Crash(n) \/ Restart(n) \/ \E b \in pending[n] : Announce(n, b)
       PROVE  UNCHANGED held
  BY <1>10 DEF Crash, Restart, Announce
<1>11. ASSUME UNCHANGED vars PROVE Lasts
  BY <1>0, <1>11 DEF vars
<1>12. Lasts
  BY <1>3, <1>6, <1>7, <1>8, <1>9, <1>10, <1>11 DEF Next, Serve, Announcing
<1> QED BY <1>1, <1>2, <1>12

\* What a request to a provider asks to delete.
LEMMA CallsKept ==
  ASSUME TypeInv, KeptInv, [Next]_vars
  PROVE  \A c \in calls' : c.blob \in Touched' /\ (IsManifest(c.blob) => c.blob \in deleted')
<1>1. CASE calls' \subseteq calls
  BY <1>1, Lasting DEF KeptInv
<1>2. ASSUME NEW t \in Tasks, NEW p \in Nodes, Tell(t, p)
      PROVE \A c \in calls' : c.blob \in Touched' /\ (IsManifest(c.blob) => c.blob \in deleted')
  <2> DEFINE k == task[t]
  <2>1. /\ k.file \in Manifests /\ k.file \in deleted /\ Range(k.left) \subseteq Blobs(k.file)
        /\ k.left \in Seq(Blob) /\ k.left # <<>>
    BY <1>2, RunningTask DEF Tell, Fit, Shaped, Busy, KeptInv
  <2>2. Head(k.left) \in Blobs(k.file)
    BY <2>1, RangeSplit
  <2>3. Head(k.left) \in Touched
    BY <2>1, <2>2 DEF Touched
  <2>4. IsManifest(Head(k.left)) => Head(k.left) = k.file
    <3>1. Range(k.file.parts) \subseteq Chunks
      BY <2>1, BlobsType, RangeTyped
    <3> QED BY <2>2, <3>1, Kinds DEF Blobs
  <2>5. \A c \in calls' : c \in calls \/ c.blob = Head(k.left)
    BY <1>2 DEF Tell
  <2> QED BY <2>1, <2>3, <2>4, <2>5, Lasting DEF KeptInv
<1>3. calls' \subseteq calls \/ \E t \in Tasks, p \in Nodes : Tell(t, p)
  BY NextFootprint DEF Footprint
<1> QED BY <1>1, <1>2, <1>3

\* The new upload is Seal's, and the handler has each of its chunks.
LEMMA UploadsKept ==
  ASSUME TypeInv, KeptInv, [Next]_vars
  PROVE  UploadsIntact'
<1>0. RestOK
  BY Parts
<1>1. CASE UNCHANGED uploaded
  BY <1>0, <1>1, Lasting DEF KeptInv, UploadsIntact, RestOK
<1>2. ASSUME NEW t \in Tasks, Seal(t) PROVE UploadsIntact'
  <2> DEFINE k == task[t]
             file == CreateManifest(Cut(k.body), k.got)
             new == [op |-> k.op, node |-> k.node, body |-> k.body, file |-> file]
  <2>1. k.node \in Nodes /\ k.body \in Seq(Nat) /\ k.got \in Seq(Chunks)
    BY <1>2, RunningTask, BusyFields DEF Seal, Fit
  <2>2. Blobs(file) = Range(k.got) \cup {file}
    BY <2>1, CutType, ManifestType DEF Blobs
  <2>3. \A b \in Range(k.got) : b \in held[k.node] \/ b \in Touched
    BY <1>2 DEF Seal, KeptInv
  <2> HIDE DEF file
  <2>4. file \in held'[k.node]
    BY <1>2, <2>1 DEF Seal, Put, TypeInv, TypeOK, file
  <2>5. \A b \in Blobs(file) : b \in held'[k.node] \/ b \in Touched'
    BY <2>1, <2>2, <2>3, <2>4, Lasting
  <2>6. uploaded' = uploaded \cup {new}
    BY <1>2 DEF Seal, file
  <2>7. \A u \in uploaded : \A b \in Blobs(u.file) : b \in held'[u.node] \/ b \in Touched'
    BY <1>0, Lasting DEF KeptInv, UploadsIntact, RestOK
  <2> QED BY <2>5, <2>6, <2>7 DEF UploadsIntact
<1>3. UNCHANGED uploaded \/ \E t \in Tasks : Seal(t)
  BY NextFootprint DEF Footprint
<1> QED BY <1>1, <1>2, <1>3

LEMMA NextKept == TypeInv /\ KeptInv /\ [Next]_vars => KeptInv'
<1> SUFFICES ASSUME TypeInv, KeptInv, [Next]_vars PROVE KeptInv'
  OBVIOUS
<1>1. ASSUME NEW t \in Tasks, task'[t].at = "storing"
      PROVE  \A b \in Range(task'[t].got) : b \in held'[task'[t].node] \/ b \in Touched'
  <2> DEFINE k == task[t]
  <2>1. CASE task'[t] = task[t]
    <3>1. k.node \in Nodes
      BY <1>1, <2>1, RunningTask, BusyFields DEF Fit
    <3> QED BY <1>1, <2>1, <3>1, Lasting DEF KeptInv
  <2>2. CASE StoreChunk(t)
    <3>1. /\ k.at = "storing" /\ k.node \in Nodes /\ k.got \in Seq(Chunks)
          /\ k.left \in Seq(Chunks) /\ k.left # <<>> /\ k \in Busy
      BY <2>2, RunningTask, BusyFields DEF StoreChunk, Fit, Shaped
    <3>2. task'[t] = [k EXCEPT !.left = Tail(@), !.got = Append(@, Head(k.left))]
      BY <2>2, GotoOne DEF StoreChunk
    <3>3. task'[t].node = k.node /\ task'[t].got = Append(k.got, Head(k.left))
      BY <3>1, <3>2 DEF Busy
    <3>4. Range(Append(k.got, Head(k.left))) = Range(k.got) \cup {Head(k.left)}
      BY <3>1, RangeSplit, RangeAppend
    <3>5. Head(k.left) \in held'[k.node]
      BY <2>2, <3>1 DEF StoreChunk, Put, TypeInv, TypeOK
    <3>6. \A b \in Range(k.got) : b \in held'[k.node] \/ b \in Touched'
      BY <3>1, Lasting DEF KeptInv
    <3> QED BY <3>3, <3>4, <3>5, <3>6
  <2>3. CASE task'[t].got = <<>>
    BY <2>3, EmptyRange
  <2> QED BY <1>1, <2>1, <2>2, <2>3, NextMoves, IdleFields DEF Moved
<1>2. ASSUME NEW t \in Tasks, task'[t].at # "idle", task'[t].op = "delete"
      PROVE  task'[t].file \in deleted'
  <2>1. CASE task'[t] = task[t]
    BY <1>2, <2>1, Lasting DEF KeptInv
  <2>2. CASE StoreChunk(t)
    <3>1. task[t] \in Busy /\ task[t].op \in {"post", "stream"}
      BY <2>2, RunningTask DEF StoreChunk, Fit, Shaped
    <3>2. task'[t] = [task[t] EXCEPT !.left = Tail(@), !.got = Append(@, Head(task[t].left))]
      BY <2>2, GotoOne DEF StoreChunk
    <3>3. task'[t].op = task[t].op
      BY <3>1, <3>2 DEF Busy
    <3> QED BY <1>2, <3>1, <3>3
  <2> QED BY <1>2, <2>1, <2>2, NextMoves, IdleFields DEF Moved
<1> QED BY <1>1, <1>2, CallsKept, UploadsKept DEF KeptInv

\* Whatever else is uploaded, fetched, deleted or broken off: each blob of an upload that
\* was answered stays with its node, unless a client deletes a file that has the blob.
THEOREM UploadsStayIntact == Spec => []UploadsIntact
<1>1. Init => KeptInv
  BY IdleFields DEF Init, KeptInv, UploadsIntact
<1>2. KeptInv => UploadsIntact
  BY DEF KeptInv
<1> QED BY <1>1, <1>2, InitType, NextType, NextKept, PTL DEF Spec
-------------------------------------------------------------------------------
\* That each blob of an upload is announced.

OnRecord(n) == pending[n] \cup announced[n]

Reachable(n) == n \in Advertising \ crashed

AnnouncedInv ==
  /\ \A t \in Tasks :
       /\ task[t].at = "storing" /\ Reachable(task[t].node)
       /\ task[t].op = "stream" \/ task[t].left = <<>>
       => Range(task[t].got) \subseteq OnRecord(task[t].node)
  /\ \A u \in uploaded : Reachable(u.node) => Blobs(u.file) \subseteq OnRecord(u.node)

\* A node that has not stopped announces all it has set out to.
LEMMA RecordLasts ==
  ASSUME TypeInv, [Next]_vars
  PROVE  /\ crashed \subseteq crashed'
         /\ \A n \in Nodes \ crashed' : OnRecord(n) \subseteq OnRecord(n)'
<1> DEFINE Lasts == \A n \in Nodes \ crashed' : OnRecord(n) \subseteq OnRecord(n)'
<1>0. pending \in [Nodes -> SUBSET Blob] /\ announced \in [Nodes -> SUBSET Blob]
  BY DEF TypeInv, TypeOK
<1>1. crashed \subseteq crashed'
  BY NextFootprint DEF Footprint
<1>2. ASSUME NEW n, NEW blobs, Spawn(n, blobs) \/ UNCHANGED pending, UNCHANGED announced
      PROVE  Lasts
  BY <1>0, <1>2 DEF Spawn, OnRecord
<1>3. ASSUME NEW n \in Nodes, Crash(n) PROVE Lasts
  BY <1>0, <1>3 DEF Crash, OnRecord
<1>4. ASSUME NEW n \in Nodes, NEW b \in pending[n], Announce(n, b) PROVE Lasts
  BY <1>0, <1>4 DEF Announce, OnRecord
<1>5. ASSUME NEW t \in Tasks, Request(t)
      PROVE  UNCHANGED pending /\ UNCHANGED announced
  BY <1>5 DEF Request, StartUpload, StartGet, StartDelete
<1>6. ASSUME NEW t \in Tasks, Step(t) PROVE Lasts
  BY <1>2, <1>6 DEF Step, StoreChunk, UploadFails, Seal, NotFound, Gather, Answer, RemoveChunk,
         RemoveManifest, Told, FetchFails, FetchManifest, FetchChunk, Tell
<1>7. ASSUME NEW n \in Nodes, Restart(n) PROVE UNCHANGED pending /\ UNCHANGED announced
  BY <1>7 DEF Restart
<1>8. ASSUME Serve PROVE UNCHANGED pending /\ UNCHANGED announced
  BY <1>8 DEF Serve, ServeChunk, ServeFile
<1>9. ASSUME UNCHANGED vars PROVE UNCHANGED pending /\ UNCHANGED announced
  BY <1>9 DEF vars
<1>10. Lasts
  BY <1>2, <1>3, <1>4, <1>5, <1>6, <1>7, <1>8, <1>9 DEF Next, Announcing
<1> QED BY <1>1, <1>10

LEMMA NextAnnounced == TypeInv /\ KeptInv /\ AnnouncedInv /\ [Next]_vars => AnnouncedInv'
<1> SUFFICES ASSUME TypeInv, KeptInv, AnnouncedInv, [Next]_vars PROVE AnnouncedInv'
  OBVIOUS
<1>0. /\ pending \in [Nodes -> SUBSET Blob] /\ announced \in [Nodes -> SUBSET Blob]
      /\ uploaded \subseteq [op : {"post", "stream"}, node : Nodes, body : Seq(Nat), file : Manifests]
  BY DEF TypeInv, TypeOK
<1>1. ASSUME NEW t \in Tasks,
             task'[t].at = "storing", task'[t].node \in Advertising \ crashed',
             task'[t].op = "stream" \/ task'[t].left = <<>>
      PROVE  Range(task'[t].got) \subseteq pending'[task'[t].node] \cup announced'[task'[t].node]
  <2> DEFINE k == task[t]
  <2>1. CASE task'[t] = task[t]
    <3>1. k.node \in Nodes
      BY <1>1, <2>1, RunningTask, BusyFields DEF Fit
    <3>2. k.node \in Nodes \ crashed' /\ Reachable(k.node)
      BY <1>1, <2>1, <3>1, RecordLasts DEF Reachable
    <3>3. Range(k.got) \subseteq OnRecord(k.node)
      BY <1>1, <2>1, <3>2 DEF AnnouncedInv
    <3> QED BY <1>1, <2>1, <3>2, <3>3, RecordLasts DEF OnRecord
  <2>2. CASE StoreChunk(t)
    <3>1. /\ k.at = "storing" /\ k.node \in Nodes /\ k.got \in Seq(Chunks)
          /\ k.left \in Seq(Chunks) /\ k.left # <<>> /\ k \in Busy
          /\ k.op \in {"post", "stream"}
      BY <2>2, RunningTask, BusyFields DEF StoreChunk, Fit, Shaped
    <3>2. task'[t] = [k EXCEPT !.left = Tail(@), !.got = Append(@, Head(k.left))]
      BY <2>2, GotoOne DEF StoreChunk
    <3>3. /\ task'[t].node = k.node /\ task'[t].got = Append(k.got, Head(k.left))
          /\ task'[t].op = k.op /\ task'[t].left = Tail(k.left)
      BY <3>1, <3>2 DEF Busy
    <3>4. Range(Append(k.got, Head(k.left))) = Range(k.got) \cup {Head(k.left)}
      BY <3>1, RangeSplit, RangeAppend
    <3>5. pending'[k.node] = pending[k.node] \cup Due(k) /\ UNCHANGED <<announced, crashed>>
      BY <1>0, <2>2, <3>1 DEF StoreChunk, Spawn
    <3>6. Reachable(k.node)
      BY <1>1, <3>3, <3>5 DEF Reachable
    <3>7. CASE k.op = "stream"
      <4>1. Range(k.got) \subseteq OnRecord(k.node)
        BY <3>1, <3>6, <3>7 DEF AnnouncedInv
      <4>2. Due(k) = {Head(k.left)}
        BY <3>6, <3>7 DEF Due, Reachable
      <4> QED BY <3>3, <3>4, <3>5, <4>1, <4>2 DEF OnRecord
    <3>8. CASE k.op = "post"
      <4>1. Len(k.left) = 1
        BY <1>1, <3>1, <3>3, <3>8, LastOne
      <4>2. Due(k) = Range(k.got) \cup {Head(k.left)}
        BY <3>8, <4>1 DEF Due
      <4> QED BY <3>3, <3>4, <3>5, <4>2 DEF OnRecord
    <3> QED BY <3>1, <3>7, <3>8
  <2>3. CASE task'[t].got = <<>>
    BY <2>3, EmptyRange
  <2> QED BY <1>1, <2>1, <2>2, <2>3, NextMoves, IdleFields DEF Moved
<1>2. ASSUME NEW u \in uploaded, Reachable(u.node)'
      PROVE  Blobs(u.file) \subseteq OnRecord(u.node)'
  <2>1. u.node \in Nodes \ crashed' /\ Reachable(u.node)
    BY <1>0, <1>2, RecordLasts DEF Reachable
  <2> QED BY <2>1, RecordLasts DEF AnnouncedInv
<1>3. ASSUME NEW t \in Tasks, Seal(t), NEW u \in uploaded', u \notin uploaded,
             Reachable(u.node)'
      PROVE  Blobs(u.file) \subseteq OnRecord(u.node)'
  <2> DEFINE k == task[t]
             file == CreateManifest(Cut(k.body), k.got)
  <2>1. /\ k.node \in Nodes /\ k.body \in Seq(Nat) /\ k.got \in Seq(Chunks)
        /\ k.at = "storing" /\ k.left = <<>>
    BY <1>3, RunningTask, BusyFields DEF Seal, Fit
  <2>2. Blobs(file) = Range(k.got) \cup {file}
    BY <2>1, CutType, ManifestType DEF Blobs
  <2> HIDE DEF file
  <2>3. u = [op |-> k.op, node |-> k.node, body |-> k.body, file |-> file]
    BY <1>3 DEF Seal, file
  <2>4. Reachable(k.node) /\ UNCHANGED announced
    BY <1>3, <2>3 DEF Seal, Reachable
  <2>5. Range(k.got) \subseteq OnRecord(k.node)
    BY <2>1, <2>4 DEF AnnouncedInv
  <2>6. pending'[k.node] = pending[k.node] \cup {file}
    BY <1>0, <1>3, <2>1, <2>4 DEF Seal, Spawn, Reachable, file
  <2> QED BY <2>2, <2>3, <2>4, <2>5, <2>6 DEF OnRecord
<1>4. UNCHANGED uploaded \/ \E t \in Tasks : Seal(t)
  BY NextFootprint DEF Footprint
<1>5. ASSUME NEW u \in uploaded', Reachable(u.node)'
      PROVE  Blobs(u.file) \subseteq OnRecord(u.node)'
  BY <1>2, <1>3, <1>4, <1>5
<1> QED BY <1>1, <1>5 DEF AnnouncedInv, Reachable, OnRecord

\* Once all is quiet, each blob of an upload is on record for its node, if that has not
\* stopped since and has an address to announce.
THEOREM UploadsGetAnnounced == Spec => []UploadsAnnounced
<1>1. Init => KeptInv /\ AnnouncedInv
  BY IdleFields DEF Init, KeptInv, UploadsIntact, AnnouncedInv
<1>2. TypeInv /\ AnnouncedInv => UploadsAnnounced
  <2> SUFFICES ASSUME TypeInv, AnnouncedInv, AtRest, NEW u \in uploaded, Reachable(u.node)
               PROVE  Blobs(u.file) \subseteq announced[u.node]
    BY DEF UploadsAnnounced, Reachable
  <2>1. u.node \in Nodes
    BY DEF TypeInv, TypeOK
  <2>2. pending[u.node] = {}
    BY <2>1 DEF AtRest
  <2> QED BY <2>2 DEF AnnouncedInv, OnRecord
<1> QED BY <1>1, <1>2, InitType, NextType, NextKept, NextAnnounced, PTL DEF Spec
-------------------------------------------------------------------------------
\* That a download has the bytes that were uploaded.

\* The chunks a task has and those it has yet to handle, in their order.
Whole(k) == k.got \o k.left

\* An upload goes through the pieces of its body, a download through those of its file.
Served(k) ==
  /\ k.at = "storing" => k.body # <<>> /\ Whole(k) \in Pieces(k.op, Cut(k.body))
  /\ k.at = "gathering" => Whole(k) = k.file.parts
  /\ k.at = "fetching" =>
       IF k.want = k.file THEN k.got = <<>>
       ELSE Whole(k) = k.file.parts /\ k.want = Head(k.left)

\* An upload that was answered has a manifest of its body's pieces, and is no stream that
\* is longer than allowed.
Sealed(u) ==
  /\ u.body # <<>> /\ ~TooLong(u)
  /\ \E chunks \in Pieces(u.op, Cut(u.body)) : u.file = CreateManifest(Cut(u.body), chunks)

ServedInv ==
  /\ \A t \in Tasks : Served(task[t])
  /\ \A u \in uploaded : Sealed(u)

LEMMA ShiftOne ==
  ASSUME NEW S, NEW s \in Seq(S), NEW r \in Seq(S), r # <<>>
  PROVE  Append(s, Head(r)) \o Tail(r) = s \o r
<1> DEFINE one == <<Head(r)>>
<1>1. Head(r) \in S /\ Tail(r) \in Seq(S) /\ Len(r) \in Nat \ {0} /\ Head(r) = r[1]
  BY HeadTailProperties, EmptySeq
<1>2. Append(s, Head(r)) = s \o one /\ one \in Seq(S)
  BY <1>1, AppendIsConcat
<1>3. one \o Tail(r) = r
  <2>1. 1 \in 1..Len(r) /\ Len(r) \in 1..Len(r)
    BY <1>1
  <2>2. SubSeq(r, 1, Len(r)) = <<r[1]>> \o SubSeq(r, 1+1, Len(r))
    BY <2>1, SubSeqRecursiveFirst
  <2>3. SubSeq(r, 1, Len(r)) = r /\ Tail(r) = SubSeq(r, 1+1, Len(r))
    BY SubSeqFull, TailIsSubSeq
  <2> QED BY <1>1, <2>2, <2>3
<1> HIDE DEF one
<1>4. (s \o one) \o Tail(r) = s \o (one \o Tail(r))
  BY <1>1, <1>2, ConcatAssociative
<1> QED BY <1>2, <1>3, <1>4

LEMMA GotoServed ==
  ASSUME TypeInv, ServedInv, NEW t \in Tasks, NEW next, Goto(t, next), Served(next)
  PROVE  \A s \in Tasks : Served(task'[s])
BY DEF Goto, TypeInv, TypeOK, ServedInv

LEMMA QuietServed ==
  ASSUME NEW k, k.at \notin {"storing", "gathering", "fetching"}
  PROVE  Served(k)
BY DEF Served

LEMMA GatheringServed ==
  ASSUME NEW k \in Opening \cup Busy, k.got = <<>>, k.file \in Manifests
  PROVE  Served(Gathering(k))
<1>1. /\ Gathering(k).at = "gathering" /\ Gathering(k).got = <<>>
      /\ Gathering(k).file = k.file /\ Gathering(k).left = k.file.parts
  BY DEF Gathering, Busy, Opening
<1>2. <<>> \o k.file.parts = k.file.parts
  BY BlobsType, ConcatEmptySeq
<1>3. Whole(Gathering(k)) = k.file.parts
  BY <1>1, <1>2 DEF Whole
<1> QED BY <1>1, <1>3 DEF Served

LEMMA RemovingServed ==
  ASSUME NEW k \in Opening \cup Busy
  PROVE  Served(Removing(k))
<1>1. Removing(k).at = "removing"
  BY DEF Removing, Busy, Opening
<1> QED BY <1>1, QuietServed

LEMMA SeekServed ==
  ASSUME TypeInv, ServedInv, NEW t \in Tasks, NEW k \in Opening \cup Busy, NEW b, Seek(t, k, b),
         IF b = k.file THEN k.got = <<>> ELSE Whole(k) = k.file.parts /\ b = Head(k.left)
  PROVE  \A s \in Tasks : Served(task'[s])
<1>1. PICK S : Goto(t, [k EXCEPT !.at = "fetching", !.want = b, !.ask = S])
  BY DEF Seek
<1> DEFINE next == [k EXCEPT !.at = "fetching", !.want = b, !.ask = S]
<1>2. /\ next.at = "fetching" /\ next.want = b /\ next.file = k.file
      /\ next.left = k.left /\ next.got = k.got
  BY DEF Busy, Opening
<1> HIDE DEF next
<1>3. Whole(next) = Whole(k)
  BY <1>2 DEF Whole
<1>4. Served(next)
  BY <1>2, <1>3 DEF Served
<1> QED BY <1>1, <1>4, GotoServed DEF next

LEMMA OpenServed ==
  ASSUME TypeInv, ServedInv, NEW t \in Tasks, NEW k \in Opening, k.got = <<>>, Open(t, k)
  PROVE  \A s \in Tasks : Served(task'[s])
<1>1. k.file \in Manifests
  BY DEF Opening
<1>2. CASE Goto(t, IF k.op = "get" THEN Gathering(k) ELSE Removing(k))
  <2>1. Served(Gathering(k)) /\ Served(Removing(k))
    BY <1>1, GatheringServed, RemovingServed
  <2> QED BY <1>2, <2>1, GotoServed
<1>3. CASE Seek(t, k, k.file)
  BY <1>3, SeekServed
<1> QED BY <1>2, <1>3 DEF Open

LEMMA TraceServed ==
  ASSUME TypeInv, ServedInv, NEW t \in Tasks, NEW k \in Busy, NEW blobs, Trace(t, k, blobs)
  PROVE  \A s \in Tasks : Served(task'[s])
<1>1. PICK S : Goto(t, [k EXCEPT !.at = "spreading", !.left = blobs, !.ask = S \ {k.node}])
  BY DEF Trace
<1>2. [k EXCEPT !.at = "spreading", !.left = blobs, !.ask = S \ {k.node}].at = "spreading"
  BY DEF Busy
<1>3. Served([k EXCEPT !.at = "spreading", !.left = blobs, !.ask = S \ {k.node}])
  BY <1>2, QuietServed
<1> QED BY <1>1, <1>3, GotoServed

LEMMA WithServed ==
  ASSUME NEW k \in Busy, k.left \in Seq(Chunks), k.left # <<>>, Whole(k) = k.file.parts
  PROVE  Served(With(k, Head(k.left)))
<1> DEFINE next == With(k, Head(k.left))
<1>1. /\ next.at = "gathering" /\ next.file = k.file
      /\ next.left = Tail(k.left) /\ next.got = Append(k.got, Head(k.left))
  BY DEF With, Busy
<1>2. k.got \in Seq(Chunks)
  BY DEF Busy
<1> HIDE DEF next
<1>3. Whole(next) = Whole(k)
  BY <1>1, <1>2, ShiftOne DEF Whole
<1>4. Served(next)
  BY <1>1, <1>3 DEF Served
<1> QED BY <1>4 DEF next

\* A body that is not empty is not cut to nothing.
LEMMA CutNotEmpty ==
  ASSUME NEW body \in Seq(Nat), body # <<>>
  PROVE  Cut(body) # <<>>
<1> DEFINE last == Min({Len(body), MaxSize})
<1>1. Len(body) \in Nat \ {0} /\ MaxSize \in Nat \ {0}
  BY EmptySeq, ConstantsAssumption
<1>2. last \in {Len(body), MaxSize} /\ last <= Len(body)
  BY <1>1, MinOfTwo
<1> HIDE DEF last
<1>3. \A i \in 1..last : body[i] \in Nat
  BY <1>1, <1>2, ElementOfSeq
<1>4. Len(SubSeq(body, 1, last)) = last
  BY <1>1, <1>2, <1>3, SubSeqProperties
<1>5. Len(Cut(body)) # 0
  BY <1>1, <1>2, <1>4 DEF Cut, last
<1> QED BY <1>5, EmptySeq

\* What Cut leaves.
LEMMA CutIs ==
  ASSUME NEW body \in Seq(Nat)
  PROVE  Cut(body) = IF Len(body) > MaxSize THEN SubSeq(body, 1, MaxSize) ELSE body
<1> DEFINE last == Min({Len(body), MaxSize})
<1>1. Len(body) \in Nat /\ MaxSize \in Nat
  BY LenProperties, ConstantsAssumption
<1>2. last \in {Len(body), MaxSize} /\ last <= Len(body) /\ last <= MaxSize
  BY <1>1, MinOfTwo
<1>3. Cut(body) = SubSeq(body, 1, last)
  BY DEF Cut
<1> HIDE DEF last
<1>4. last = IF Len(body) > MaxSize THEN MaxSize ELSE Len(body)
  BY <1>1, <1>2
<1>5. SubSeq(body, 1, Len(body)) = body
  BY SubSeqFull
<1> QED BY <1>3, <1>4, <1>5

LEMMA RequestServed ==
  ASSUME TypeInv, ServedInv, NEW t \in Tasks, Request(t)
  PROVE  \A s \in Tasks : Served(task'[s])
<1>0. RestOK
  BY Parts
<1>1. ASSUME NEW r \in Uploads, StartUpload(t, r) PROVE \A s \in Tasks : Served(task'[s])
  <2>1. PICK chunks \in Pieces(r.op, Cut(r.body)) :
          Goto(t, [Idle EXCEPT !.at = "storing", !.op = r.op, !.node = r.node, !.body = r.body,
                               !.left = chunks])
    BY <1>1 DEF StartUpload
  <2> DEFINE next == [Idle EXCEPT !.at = "storing", !.op = r.op, !.node = r.node,
                                  !.body = r.body, !.left = chunks]
  <2>2. r.body \in Seq(Nat) /\ r.body # <<>>
    BY ConstantsAssumption
  <2>3. chunks \in Seq(Chunks)
    BY <2>1, <2>2, CutType, PiecesType
  <2>4. /\ next.at = "storing" /\ next.op = r.op /\ next.body = r.body
        /\ next.left = chunks /\ next.got = <<>>
    BY DEF Idle
  <2> HIDE DEF next
  <2>5. Whole(next) = chunks
    BY <2>3, <2>4, ConcatEmptySeq DEF Whole
  <2>6. Served(next)
    BY <2>1, <2>2, <2>4, <2>5 DEF Served
  <2> QED BY <2>1, <2>6, GotoServed DEF next
<1>2. ASSUME NEW n \in Nodes, NEW file \in Files, StartGet(t, n, file)
      PROVE  \A s \in Tasks : Served(task'[s])
  <2>1. file \in Manifests /\ n \in up
    BY <1>0, <1>2 DEF StartGet, Files, RestOK
  <2> DEFINE k == [Idle EXCEPT !.op = "get", !.node = n, !.file = file]
  <2>2. k \in Opening /\ k.got = <<>>
    BY <2>1, EmptySeq DEF Idle, Opening
  <2> QED BY <1>2, <2>2, OpenServed DEF StartGet
<1>3. ASSUME NEW n \in Nodes, NEW file \in Files, StartDelete(t, n, file)
      PROVE  \A s \in Tasks : Served(task'[s])
  <2>1. file \in Manifests /\ n \in up
    BY <1>0, <1>3 DEF StartDelete, Files, RestOK
  <2>2. PICK op : Open(t, Deleting(n, file, op = "global"))
    BY <1>3 DEF StartDelete
  <2>3. Deleting(n, file, op = "global") \in Opening
    BY <2>1, DeletingType
  <2>4. Deleting(n, file, op = "global").got = <<>>
    BY DEF Deleting, Idle
  <2> QED BY <2>2, <2>3, <2>4, OpenServed
<1> QED BY <1>1, <1>2, <1>3 DEF Request

LEMMA StepServed ==
  ASSUME TypeInv, ServedInv, NEW t \in Tasks, Step(t)
  PROVE  \A s \in Tasks : Served(task'[s])
<1> DEFINE k == task[t]
           Goal == \A s \in Tasks : Served(task'[s])
<1>0. k.at # "idle" => Fit(k)
  BY RunningTask
<1>00. Served(k) /\ Served(Idle)
  BY QuietServed, IdleFields DEF ServedInv
<1>1. CASE StoreChunk(t)
  <2> DEFINE next == [k EXCEPT !.left = Tail(@), !.got = Append(@, Head(k.left))]
  <2>1. /\ k.at = "storing" /\ k.left # <<>> /\ k \in Busy /\ k.left \in Seq(Chunks)
        /\ k.got \in Seq(Chunks) /\ Goto(t, next)
    BY <1>0, <1>1 DEF StoreChunk, Fit, Shaped, Busy
  <2>2. /\ next.at = "storing" /\ next.op = k.op /\ next.body = k.body
        /\ next.left = Tail(k.left) /\ next.got = Append(k.got, Head(k.left))
    BY <2>1 DEF Busy
  <2> HIDE DEF next
  <2>3. Whole(next) = Whole(k)
    BY <2>1, <2>2, ShiftOne DEF Whole
  <2>4. Served(next)
    BY <1>00, <2>1, <2>2, <2>3 DEF Served
  <2> QED BY <2>1, <2>4, GotoServed
<1>2. CASE UploadFails(t) \/ Seal(t) \/ NotFound(t) \/ Answer(t)
  BY <1>00, <1>2, GotoServed DEF UploadFails, Seal, NotFound, Answer
<1>3. ASSUME NEW p \in Nodes, FetchFails(t, p) PROVE Goal
  <2> DEFINE next == [k EXCEPT !.ask = @ \ {p}]
  <2>1. k.at = "fetching" /\ k \in Busy /\ Goto(t, next)
    BY <1>0, <1>3 DEF FetchFails, Fit
  <2>2. /\ next.at = "fetching" /\ next.want = k.want /\ next.file = k.file
        /\ next.left = k.left /\ next.got = k.got
    BY <2>1 DEF Busy
  <2> HIDE DEF next
  <2>3. Served(next)
    BY <1>00, <2>1, <2>2 DEF Served, Whole
  <2> QED BY <2>1, <2>3, GotoServed
<1>4. ASSUME NEW p \in Nodes, FetchManifest(t, p) PROVE Goal
  <2>1. k \in Busy /\ k.file \in Manifests /\ k.got = <<>>
    BY <1>0, <1>00, <1>4 DEF FetchManifest, Fit, Shaped, Served
  <2>2. Served(Gathering(k)) /\ Served(Removing(k))
    BY <2>1, GatheringServed, RemovingServed
  <2>3. Goto(t, Gathering(k)) \/ Goto(t, Removing(k))
    BY <1>4 DEF FetchManifest
  <2> QED BY <2>2, <2>3, GotoServed
<1>5. ASSUME NEW p \in Nodes, FetchChunk(t, p) PROVE Goal
  <2>1. /\ k \in Busy /\ k.left \in Seq(Chunks) /\ k.left # <<>>
        /\ Whole(k) = k.file.parts /\ k.want = Head(k.left) /\ Goto(t, With(k, k.want))
    BY <1>0, <1>00, <1>5 DEF FetchChunk, Fit, Shaped, Served
  <2>2. Served(With(k, k.want))
    BY <2>1, WithServed
  <2> QED BY <2>1, <2>2, GotoServed
<1>6. CASE Gather(t)
  <2>1. /\ k \in Busy /\ k.left \in Seq(Chunks) /\ k.left # <<>> /\ k.file \in Manifests
        /\ Whole(k) = k.file.parts
    BY <1>0, <1>00, <1>6 DEF Gather, Fit, Shaped, Served
  <2>2. CASE Goto(t, With(k, Head(k.left)))
    BY <2>1, <2>2, WithServed, GotoServed
  <2>3. CASE Seek(t, k, Head(k.left))
    <3>1. Head(k.left) \in Chunks
      BY <2>1, RangeSplit
    <3>2. Head(k.left) # k.file
      BY <2>1, <3>1, Kinds
    <3> QED BY <2>1, <2>3, <3>2, SeekServed
  <2> QED BY <1>6, <2>2, <2>3 DEF Gather
<1>7. CASE RemoveChunk(t)
  <2>1. k.at = "removing" /\ k \in Busy /\ Goto(t, [k EXCEPT !.left = Tail(@)])
    BY <1>0, <1>7 DEF RemoveChunk, Fit
  <2>2. [k EXCEPT !.left = Tail(@)].at = "removing"
    BY <2>1 DEF Busy
  <2>3. Served([k EXCEPT !.left = Tail(@)])
    BY <2>2, QuietServed
  <2> QED BY <2>1, <2>3, GotoServed
<1>8. CASE RemoveManifest(t)
  BY <1>0, <1>00, <1>8, TraceServed, GotoServed DEF RemoveManifest, Fit
<1>9. ASSUME NEW p \in Nodes, Tell(t, p) PROVE Goal
  <2>1. k.at = "spreading" /\ k \in Busy /\ Goto(t, [k EXCEPT !.ask = @ \ {p}])
    BY <1>0, <1>9 DEF Tell, Fit
  <2>2. [k EXCEPT !.ask = @ \ {p}].at = "spreading"
    BY <2>1 DEF Busy
  <2>3. Served([k EXCEPT !.ask = @ \ {p}])
    BY <2>2, QuietServed
  <2> QED BY <2>1, <2>3, GotoServed
<1>10. CASE Told(t)
  BY <1>0, <1>00, <1>10, TraceServed, GotoServed DEF Told, Fit
<1> QED BY <1>1, <1>2, <1>3, <1>4, <1>5, <1>6, <1>7, <1>8, <1>9, <1>10 DEF Step

LEMMA NextServed == TypeInv /\ KeptInv /\ ServedInv /\ [Next]_vars => ServedInv'
<1> SUFFICES ASSUME TypeInv, KeptInv, ServedInv, [Next]_vars PROVE ServedInv'
  OBVIOUS
<1> DEFINE Tasked == \A s \in Tasks : Served(task'[s])
<1>0. UNCHANGED task => Tasked
  BY DEF ServedInv
<1>1. ASSUME NEW t \in Tasks, Request(t) \/ Step(t) PROVE Tasked
  BY <1>1, RequestServed, StepServed
<1>2. ASSUME NEW c \in calls, NEW t \in Tasks, ServeFile(t, c) PROVE Tasked
  <2>1. c.blob \in Manifests /\ c.to \in up
    BY <1>2, Parts, Kinds DEF ServeFile, RestOK, Blob
  <2>2. /\ Deleting(c.to, c.blob, FALSE) \in Opening
        /\ Deleting(c.to, c.blob, FALSE).got = <<>>
    BY <2>1, DeletingType DEF Deleting, Idle
  <2> QED BY <1>2, <2>2, OpenServed DEF ServeFile
<1>3. ASSUME NEW n \in Nodes, Crash(n) PROVE Tasked
  BY <1>3, QuietServed, IdleFields DEF Crash, ServedInv
<1>4. ASSUME NEW c \in calls, ServeChunk(c) PROVE UNCHANGED task
  BY <1>4 DEF ServeChunk
<1>5. ASSUME NEW n \in Nodes, Restart(n) \/ \E b \in pending[n] : Announce(n, b)
      PROVE  UNCHANGED task
  BY <1>5 DEF Restart, Announce
<1>6. UNCHANGED vars => UNCHANGED task
  BY DEF vars
<1>7. Tasked
  BY <1>0, <1>1, <1>2, <1>3, <1>4, <1>5, <1>6 DEF Next, Serve, Announcing
<1>8. ASSUME NEW u \in uploaded' PROVE Sealed(u)
  <2>1. CASE u \in uploaded
    BY <2>1 DEF ServedInv
  <2>2. ASSUME NEW t \in Tasks, Seal(t), u \notin uploaded PROVE Sealed(u)
    <3> DEFINE k == task[t]
    <3>1. /\ k.at = "storing" /\ k.left = <<>> /\ k.got \in Seq(Chunks) /\ k.op \in {"post", "stream"}
      BY <2>2, RunningTask DEF Seal, Fit, Shaped, Busy
    <3>2. u.op = k.op /\ u.body = k.body /\ ~TooLong(k) /\ u.file = CreateManifest(Cut(k.body), k.got)
      BY <1>8, <2>2 DEF Seal
    <3>3. Whole(k) = k.got
      BY <3>1, ConcatEmptySeq DEF Whole
    <3>4. k.body # <<>> /\ k.got \in Pieces(k.op, Cut(k.body))
      BY <3>1, <3>3 DEF ServedInv, Served
    <3> QED BY <3>2, <3>4 DEF Sealed, TooLong
  <2> QED BY <1>8, <2>1, <2>2, NextFootprint DEF Footprint
<1> QED BY <1>7, <1>8 DEF ServedInv

\* A download that is answered has the bytes that were uploaded, and all of them unless the
\* upload was a POST of more than MaxSize bytes, which is truncated: whatever the size of a
\* chunk, however the upload was cut into chunks, and whatever else is stored, deleted,
\* cached or broken off at the same time.
THEOREM DownloadsAreExact == Spec => []DownloadsExact
<1>1. Init => KeptInv /\ ServedInv
  BY IdleFields, QuietServed DEF Init, KeptInv, UploadsIntact, ServedInv
<1>2. TypeInv /\ ServedInv => DownloadsExact
  <2> SUFFICES ASSUME TypeInv, ServedInv, NEW t \in Tasks,
                      task[t].at = "gathering", task[t].left = <<>>,
                      NEW u \in uploaded, u.file = task[t].file
               PROVE  Reply(task[t]) = IF Truncated(u) THEN SubSeq(u.body, 1, MaxSize) ELSE u.body
    BY DEF DownloadsExact
  <2> DEFINE k == task[t]
             data == Cut(u.body)
  <2>1. k.got \in Seq(Chunks) /\ u.body \in Seq(Nat) /\ u.op \in {"post", "stream"}
    BY RunningTask, Parts DEF Fit, Busy, RestOK
  <2>2. Whole(k) = k.got /\ Whole(k) = k.file.parts
    BY <2>1, ConcatEmptySeq DEF Whole, ServedInv, Served
  <2>3. PICK chunks : /\ u.body # <<>> /\ ~TooLong(u) /\ chunks \in Pieces(u.op, data)
                      /\ u.file = CreateManifest(data, chunks)
    BY DEF ServedInv, Sealed
  <2>4. data \in Seq(Nat) /\ data # <<>>
    BY <2>1, <2>3, CutType, CutNotEmpty
  <2>5. chunks \in {ChunkData(data)} \cup ChunkReader(data)
    BY <2>3 DEF Pieces
  <2>6. data = IF Truncated(u) THEN SubSeq(u.body, 1, MaxSize) ELSE u.body
    BY <2>1, <2>3, CutIs DEF Truncated, TooLong
  <2> HIDE DEF data
  <2>7. CreateManifest(data, chunks).parts = chunks
    BY DEF CreateManifest
  <2>8. k.got = chunks /\ k.file = CreateManifest(data, chunks)
    BY <2>2, <2>3, <2>7
  <2>9. Reply(k) = data
    BY <2>4, <2>5, <2>8, ReconstructInverts DEF Reply
  <2> QED BY <2>6, <2>9
<1> QED BY <1>1, <1>2, InitType, NextType, NextKept, NextServed, PTL DEF Spec
===============================================================================
