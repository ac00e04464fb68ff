------------------------------- MODULE Chunker -------------------------------
(***************************************************************************)
(* internal/storage/chunker.go: files, chunks and manifests.  A chunk      *)
(* stands for its SHA-256 hash, so the hash check of ReconstructData is an *)
(* equality of chunks.  A manifest is a record with other fields than a    *)
(* chunk: both are blobs of the chunk store.  Its CreatedAt, which tells   *)
(* two uploads of the same chunks apart, is left out.                      *)
(***************************************************************************)
EXTENDS Integers, Sequences, SequencesExt

CONSTANTS
  ChunkSize,   \* storage.chunk_size
  None         \* no data

ASSUME ChunkerAssumption == ChunkSize \in Nat \ {0}

Chunk(bytes) == [bytes |-> bytes]
IsManifest(blob) == "parts" \in DOMAIN blob

\* Mutation of ChunkData: the last byte of a full chunk is left out.
ChunkDataShort(data) ==
  [i \in 1..(Len(data) + ChunkSize - 1) \div ChunkSize |->
     Chunk(SubSeq(data, (i-1) * ChunkSize + 1, Min({i * ChunkSize, Len(data)}) - 1))]

ChunkData(data) ==
  [i \in 1..(Len(data) + ChunkSize - 1) \div ChunkSize |->
     Chunk(SubSeq(data, (i-1) * ChunkSize + 1, Min({i * ChunkSize, Len(data)})))]

\* Where the reads of a stream may end: each returns one to ChunkSize bytes.
ReadEnds(data) ==
  UNION {{end \in [1..k -> 1..Len(data)] :
            /\ end[k] = Len(data)
            /\ \A i \in 1..k : LET start == IF i = 1 THEN 0 ELSE end[i-1] IN
                 start < end[i] /\ end[i] <= start + ChunkSize} : k \in 1..Len(data)}

\* ChunkReader, and the same loop in handlePostFileStream: one chunk for each read.
ChunkReader(data) ==
  {[i \in DOMAIN end |-> Chunk(SubSeq(data, IF i = 1 THEN 1 ELSE end[i-1] + 1, end[i]))] :
   end \in ReadEnds(data)}

CreateManifest(data, chunks) == [parts |-> chunks, size |-> Len(data)]

\* The chunks are copied one after another into a zeroed buffer of the size the
\* manifest gives.
ReconstructData(chunks, manifest) ==
  LET copied == FlattenSeq([i \in DOMAIN chunks |-> chunks[i].bytes]) IN
  IF chunks # manifest.parts THEN None
  ELSE [i \in 1..manifest.size |-> IF i <= Len(copied) THEN copied[i] ELSE 0]
===============================================================================
