------------------------------ MODULE ChunkStore ------------------------------
(***************************************************************************)
(* internal/storage/store.go: the chunks of one node as files under its    *)
(* data directory, written to a .tmp file and renamed, counted in memory,  *)
(* and guarded by one sync.RWMutex.  Each system call on the disk is a     *)
(* step, so that a crash can fall between any two of them.                 *)
(*                                                                         *)
(* A file is modelled by the number of its chunk's bytes it holds: GetChunk*)
(* hashes what it reads, so only the full length passes.  The directories  *)
(* and the hex names are left out (one path and one .tmp path per chunk).  *)
(***************************************************************************)
EXTENDS Integers, FiniteSets, FiniteSetsExt

CONSTANTS
  Chunks, Threads, None,
  Size,             \* Size[c]: the length of chunk c
  Workload          \* the calls the HTTP handlers make

VARIABLES
  file,      \* bytes at a chunk's final path, or NoFile
  tmp,       \* bytes at its .tmp path, or NoFile
  up,        \* the process runs and NewChunkStore has returned
  stats,     \* StoreStats: TotalChunks, TotalBytes
  wlock,     \* the goroutine that holds, or drains readers for, the write lock
  pc, req,   \* per goroutine: where it is, and the call it serves
  info,      \* DeleteChunk's info.Size(), the lock holder's local
  damaged,   \* history: the files a power loss cut short
  replaced,  \* history: the files puts have replaced since the start, and their bytes
  counted,   \* history: updateStats succeeded when the store was opened
  answer     \* the result returned by the last step, or None

disk == <<file, tmp, damaged, replaced>>
vars == <<file, tmp, up, stats, wlock, pc, req, info, damaged, replaced, counted, answer>>

NoFile   == -1
Stored   == {c \in Chunks : file[c] # NoFile}

Pending  == [t \in Threads |->
               IF pc[t] = "idle" THEN None
               ELSE [req |-> req[t], stage |-> IF pc[t] = "counting" THEN "done" ELSE "asked"]]

S == INSTANCE ContentStore WITH held <- Stored, pending <- Pending, extra <- replaced.chunks

ASSUME ConstantsAssumption ==
  /\ IsFiniteSet(Chunks)
  /\ Size \in [Chunks -> Nat \ {0}]
  /\ None \notin Threads \cup Chunks \cup S!Requests \cup [req : S!Requests, stage : S!Stages]
  /\ Workload \subseteq S!Requests \cup S!Malformed

WriteOps == {"put", "delete"}
Labels   == {"idle", "wait", "drain", "locked", "writing", "counting", "reading"}
Intact(c) == file[c] = Size[c]
Plain(k) == [kind |-> k]
Bytes    == MapThenSumSet(LAMBDA c : file[c], Stored)
Nothing  == [chunks |-> 0, bytes |-> 0]

Init ==
  /\ file = [c \in Chunks |-> NoFile]
  /\ tmp  = [c \in Chunks |-> NoFile]
  /\ up = TRUE
  /\ stats = Nothing
  /\ wlock = None
  /\ pc  = [t \in Threads |-> "idle"]
  /\ req = [t \in Threads |-> None]
  /\ info = 0
  /\ damaged = {} /\ replaced = Nothing /\ counted = TRUE
  /\ answer = None
-------------------------------------------------------------------------------
(* sync.RWMutex.  A writer first takes wlock, which stops new readers, then  *)
(* waits for those inside; Unlock lets every reader that queued meanwhile in.*)

IsWrite(t) == req[t] # None /\ req[t].op \in WriteOps
Inside(t)  == pc[t] \in {"locked", "writing", "counting"}

\* The first lines of each function turn a malformed argument away.
Reject(t, r) ==
  /\ up /\ pc[t] = "idle"
  /\ answer' = [to |-> t, req |-> r,
                says |-> Plain(IF r.op = "has" THEN "no" ELSE "failed")]
  /\ UNCHANGED <<disk, up, stats, wlock, pc, req, info, counted>>

\* The call has hashed its data and reaches the mutex.
Call(t, r) ==
  /\ up /\ pc[t] = "idle"
  /\ pc'  = [pc EXCEPT ![t] = "wait"]
  /\ req' = [req EXCEPT ![t] = r]
  /\ answer' = None
  /\ UNCHANGED <<disk, up, stats, wlock, info, counted>>

Lock(t) ==
  /\ pc[t] = "wait" /\ IsWrite(t) /\ wlock = None
  /\ wlock' = t
  /\ pc' = [pc EXCEPT ![t] = "drain"]
  /\ answer' = None
  /\ UNCHANGED <<disk, up, stats, req, info, counted>>

Drained(t) ==
  /\ pc[t] = "drain"
  /\ \A u \in Threads : pc[u] # "reading"
  /\ pc' = [pc EXCEPT ![t] = "locked"]
  /\ answer' = None
  /\ UNCHANGED <<disk, up, stats, wlock, req, info, counted>>

RLock(t) ==
  /\ pc[t] = "wait" /\ ~IsWrite(t) /\ wlock = None
  /\ pc' = [pc EXCEPT ![t] = "reading"]
  /\ answer' = None
  /\ UNCHANGED <<disk, up, stats, wlock, req, info, counted>>

\* The function returns a and its deferred Unlock runs.
UnlockAndReturn(t, a) ==
  /\ answer' = [to |-> t, req |-> req[t], says |-> a]
  /\ wlock' = None
  /\ pc' = [u \in Threads |-> IF u = t THEN "idle"
                              ELSE IF pc[u] = "wait" /\ ~IsWrite(u) THEN "reading"
                              ELSE pc[u]]
  /\ req' = [req EXCEPT ![t] = None]

RUnlockAndReturn(t, a) ==
  /\ answer' = [to |-> t, req |-> req[t], says |-> a]
  /\ pc'  = [pc EXCEPT ![t] = "idle"]
  /\ req' = [req EXCEPT ![t] = None]
-------------------------------------------------------------------------------
(* PutChunk, after Lock. *)

InPut(t, label) == pc[t] = label /\ req[t].op = "put"

\* os.Stat finds the final file: the chunk counts as stored.
PutExists(t) ==
  /\ InPut(t, "locked") /\ file[req[t].chunk] # NoFile
  /\ UnlockAndReturn(t, Plain("ok"))
  /\ UNCHANGED <<disk, up, stats, info, counted>>

\* Mutation of PutCreate: the mutex covers only the check for the final file.
PutCreateUnlocked(t) ==
  /\ InPut(t, "locked")
  /\ tmp' = [tmp EXCEPT ![req[t].chunk] = 0]
  /\ pc' = [pc EXCEPT ![t] = "writing"]
  /\ wlock' = None
  /\ answer' = None
  /\ UNCHANGED <<file, damaged, replaced, up, stats, req, info, counted>>

\* Any error of os.Stat passes for absence, also one on a file that is there.  MkdirAll,
\* then WriteFile creates or truncates the .tmp file.
PutCreate(t) ==
  /\ InPut(t, "locked")
  /\ tmp' = [tmp EXCEPT ![req[t].chunk] = 0]
  /\ pc' = [pc EXCEPT ![t] = "writing"]
  /\ answer' = None
  /\ UNCHANGED <<file, damaged, replaced, up, stats, wlock, req, info, counted>>

PutWrite(t) ==
  /\ InPut(t, "writing") /\ tmp[req[t].chunk] < Size[req[t].chunk]
  /\ tmp' = [tmp EXCEPT ![req[t].chunk] = @ + 1]
  /\ answer' = None
  /\ UNCHANGED <<file, damaged, replaced, up, stats, wlock, pc, req, info, counted>>

\* The rename replaces a file that os.Stat has not seen, which is then counted again.
Renamed(c) ==
  /\ file' = [file EXCEPT ![c] = tmp[c]]
  /\ tmp'  = [tmp EXCEPT ![c] = NoFile]
  /\ damaged'  = damaged \ {c}
  /\ replaced' = IF file[c] = NoFile THEN replaced
                 ELSE [chunks |-> replaced.chunks + 1, bytes |-> replaced.bytes + file[c]]

\* Mutation of PutRename: a short write is renamed too.
PutRenameShort(t) ==
  /\ InPut(t, "writing")
  /\ Renamed(req[t].chunk)
  /\ pc' = [pc EXCEPT ![t] = "counting"]
  /\ answer' = None
  /\ UNCHANGED <<up, stats, wlock, req, info, counted>>

PutRename(t) ==
  /\ InPut(t, "writing") /\ tmp[req[t].chunk] = Size[req[t].chunk]
  /\ Renamed(req[t].chunk)
  /\ pc' = [pc EXCEPT ![t] = "counting"]
  /\ answer' = None
  /\ UNCHANGED <<up, stats, wlock, req, info, counted>>

PutCount(t) ==
  /\ InPut(t, "counting")
  /\ stats' = [chunks |-> stats.chunks + 1, bytes |-> stats.bytes + Size[req[t].chunk]]
  /\ UnlockAndReturn(t, Plain("ok"))
  /\ UNCHANGED <<disk, up, info, counted>>

\* Mutation of PutWriteFails: the early return leaves the mutex locked.
PutWriteFailsLocked(t) ==
  /\ InPut(t, "writing")
  /\ answer' = [to |-> t, req |-> req[t], says |-> Plain("failed")]
  /\ pc'  = [pc EXCEPT ![t] = "idle"]
  /\ req' = [req EXCEPT ![t] = None]
  /\ UNCHANGED <<disk, up, stats, wlock, info, counted>>

\* MkdirAll or the open fails, or the write or the close does (the .tmp file stays).
PutWriteFails(t) ==
  /\ InPut(t, "locked") \/ InPut(t, "writing")
  /\ UnlockAndReturn(t, Plain("failed"))
  /\ UNCHANGED <<disk, up, stats, info, counted>>

\* Rename fails: the .tmp file is removed, or stays if that fails too.
PutRenameFails(t) ==
  /\ InPut(t, "writing") /\ tmp[req[t].chunk] = Size[req[t].chunk]
  /\ tmp' = [tmp EXCEPT ![req[t].chunk] = NoFile] \/ UNCHANGED tmp
  /\ UnlockAndReturn(t, Plain("failed"))
  /\ UNCHANGED <<file, damaged, replaced, up, stats, info, counted>>
-------------------------------------------------------------------------------
(* DeleteChunk, after Lock. *)

InDelete(t, label) == pc[t] = label /\ req[t].op = "delete"

DeleteMissing(t) ==
  /\ InDelete(t, "locked") /\ file[req[t].chunk] = NoFile
  /\ UnlockAndReturn(t, Plain("missing"))
  /\ UNCHANGED <<disk, up, stats, info, counted>>

\* Mutation of DeleteRemove: the size is read after the file is removed.
DeleteRemoveThenStat(t) ==
  /\ InDelete(t, "locked") /\ file[req[t].chunk] # NoFile
  /\ file' = [file EXCEPT ![req[t].chunk] = NoFile]
  /\ info' = file'[req[t].chunk]
  /\ damaged' = damaged \ {req[t].chunk}
  /\ pc' = [pc EXCEPT ![t] = "counting"]
  /\ answer' = None
  /\ UNCHANGED <<tmp, replaced, up, stats, wlock, req, counted>>

DeleteRemove(t) ==
  /\ InDelete(t, "locked") /\ file[req[t].chunk] # NoFile
  /\ info' = file[req[t].chunk]
  /\ file' = [file EXCEPT ![req[t].chunk] = NoFile]
  /\ damaged' = damaged \ {req[t].chunk}
  /\ pc' = [pc EXCEPT ![t] = "counting"]
  /\ answer' = None
  /\ UNCHANGED <<tmp, replaced, up, stats, wlock, req, counted>>

\* Mutation of DeleteCount: the chunk's length is subtracted, not the file's.
DeleteCountLength(t) ==
  /\ InDelete(t, "counting")
  /\ stats' = [chunks |-> stats.chunks - 1, bytes |-> stats.bytes - Size[req[t].chunk]]
  /\ info' = 0
  /\ UnlockAndReturn(t, Plain("ok"))
  /\ UNCHANGED <<disk, up, counted>>

DeleteCount(t) ==
  /\ InDelete(t, "counting")
  /\ stats' = [chunks |-> stats.chunks - 1, bytes |-> stats.bytes - info]
  /\ info' = 0
  /\ UnlockAndReturn(t, Plain("ok"))
  /\ UNCHANGED <<disk, up, counted>>

\* os.Stat or os.Remove fails for another reason than absence.
DeleteFails(t) ==
  /\ InDelete(t, "locked")
  /\ UnlockAndReturn(t, Plain("failed"))
  /\ UNCHANGED <<disk, up, stats, info, counted>>
-------------------------------------------------------------------------------
(* GetChunk, HasChunk, GetStats and ListChunks, after RLock. *)

\* Mutation of ReadResult: GetChunk does not hash what it has read.
ReadResultUnverified(r) ==
  CASE r.op = "get"   -> IF file[r.chunk] = NoFile THEN Plain("missing") ELSE Plain("data")
    [] r.op = "has"   -> IF file[r.chunk] # NoFile THEN Plain("yes") ELSE Plain("no")
    [] r.op = "stats" -> [kind |-> "stats", count |-> stats.chunks]
    [] r.op = "list"  -> [kind |-> "list", seen |-> Stored]

ReadResult(r) ==
  CASE r.op = "get"   -> IF file[r.chunk] = NoFile THEN Plain("missing")
                         ELSE IF Intact(r.chunk) THEN Plain("data")
                         ELSE Plain("corrupt")
    [] r.op = "has"   -> IF file[r.chunk] # NoFile THEN Plain("yes") ELSE Plain("no")
    [] r.op = "stats" -> [kind |-> "stats", count |-> stats.chunks]
    [] r.op = "list"  -> [kind |-> "list", seen |-> Stored]

Read(t) ==
  /\ pc[t] = "reading"
  /\ RUnlockAndReturn(t, ReadResult(req[t]))
  /\ UNCHANGED <<disk, up, stats, wlock, info, counted>>

\* An I/O error; HasChunk reports it as absence, GetStats touches no file.
ReadFails(t) ==
  /\ pc[t] = "reading" /\ req[t].op # "stats"
  /\ RUnlockAndReturn(t, Plain(IF req[t].op = "has" THEN "no" ELSE "failed"))
  /\ UNCHANGED <<disk, up, stats, wlock, info, counted>>
-------------------------------------------------------------------------------
(* The end and the start of a process.  Its files survive, its memory does   *)
(* not; WriteFile does not sync, so a power loss may shorten files written.  *)

Die(lost) ==
  /\ up /\ up' = FALSE
  /\ damaged' = damaged \cup {c \in Chunks : lost[c] # file[c]}
  /\ file' = lost
  /\ stats' = Nothing /\ replaced' = Nothing
  /\ wlock' = None /\ info' = 0
  /\ pc'  = [t \in Threads |-> "idle"]
  /\ req' = [t \in Threads |-> None]
  /\ answer' = None
  /\ UNCHANGED <<tmp, counted>>

Crash == Die(file)

PowerLoss ==
  \E lost \in [Chunks -> {NoFile} \cup 0..Max({Size[c] : c \in Chunks})] :
    /\ \A c \in Chunks : \/ lost[c] = file[c]
                         \/ file[c] # NoFile /\ lost[c] \in 0..file[c]-1
    /\ lost # file
    /\ Die(lost)

\* Mutation of Open: the walk counts .tmp files too.
OpenCountingTmp ==
  /\ ~up /\ up' = TRUE
  /\ stats' = [chunks |-> Cardinality(Stored) + Cardinality({c \in Chunks : tmp[c] # NoFile}),
               bytes |-> Bytes]
  /\ counted' = TRUE
  /\ answer' = None
  /\ UNCHANGED <<disk, wlock, pc, req, info>>

\* NewChunkStore: updateStats walks the directory, .tmp files aside; when the
\* walk fails the error is logged and the counters stay at zero.
Open ==
  /\ ~up /\ up' = TRUE
  /\ \/ /\ stats' = [chunks |-> Cardinality(Stored), bytes |-> Bytes]
        /\ counted' = TRUE
     \/ /\ counted' = FALSE
        /\ UNCHANGED stats
  /\ answer' = None
  /\ UNCHANGED <<disk, wlock, pc, req, info>>
-------------------------------------------------------------------------------
Step(t) ==
  \/ Lock(t) \/ Drained(t) \/ RLock(t)
  \/ PutExists(t) \/ PutCreate(t) \/ PutWrite(t) \/ PutRename(t) \/ PutCount(t)
  \/ PutWriteFails(t) \/ PutRenameFails(t)
  \/ DeleteMissing(t) \/ DeleteRemove(t) \/ DeleteCount(t) \/ DeleteFails(t)
  \/ Read(t) \/ ReadFails(t)

Next ==
  \/ \E t \in Threads :
       \/ Step(t)
       \/ \E r \in Workload \ S!Malformed : Call(t, r)
       \/ \E r \in Workload \cap S!Malformed : Reject(t, r)
  \/ Crash \/ PowerLoss \/ Open

Spec == Init /\ [][Next]_vars

\* The Go scheduler runs every runnable goroutine, and sync.Mutex hands the
\* lock to a goroutine that has starved for a millisecond.
Fairness == \A t \in Threads : WF_vars(Step(t)) /\ SF_vars(Lock(t))
FairSpec == Spec /\ Fairness
-------------------------------------------------------------------------------
TypeOK ==
  /\ file \in [Chunks -> Nat \cup {NoFile}]
  /\ tmp  \in [Chunks -> Nat \cup {NoFile}]
  /\ up \in BOOLEAN
  /\ stats.chunks \in Int
  /\ wlock \in Threads \cup {None}
  /\ pc  \in [Threads -> Labels]
  /\ req \in [Threads -> S!Requests \cup {None}]
  /\ info \in Nat
  /\ damaged \subseteq Chunks
  /\ replaced \in [chunks : Nat, bytes : Nat]
  /\ counted \in BOOLEAN
  /\ answer \in [to : Threads, req : S!Requests \cup S!Malformed, says : S!Answers] \cup {None}

\* A goroutine inside a put or a delete is alone inside: no other writer and no
\* reader, although queued readers are let in all at once when a writer leaves
\* and a writer reserves the lock before the readers inside have left.
Exclusion ==
  \A t, u \in Threads : t # u /\ Inside(t) => ~Inside(u) /\ pc[u] # "reading"

\* Whenever no writer is between its disk operation and its counter update, the
\* counters GetStats returns are those of the files on the disk, through failed
\* writes and renames, deletes of shortened files, crashes and restarts.  They are too
\* high by one thing only: a file that a put has replaced because os.Stat failed on it
\* (store.go:65) is counted twice, with the bytes it had and with those it has.
Settled        == up /\ counted /\ \A t \in Threads : pc[t] # "counting"
CountAccounted == Settled => stats.chunks = Cardinality(Stored) + replaced.chunks
BytesAccounted == Settled => stats.bytes = Bytes + replaced.bytes

\* "Atomic move to final location" (store.go:82): neither a crash nor a failed
\* write ever leaves a part of a chunk under the chunk's name; only the loss of
\* unsynced bytes in a power failure does.
FinalIntact ==
  \A c \in Stored : c \notin damaged => Intact(c)

\* Each call returns (or its process dies): a writer is not starved by readers
\* that keep coming, nor a reader by writers.
CallsReturn ==
  \A t \in Threads : pc[t] # "idle" ~> pc[t] = "idle"

\* The steps on files and locks implement the abstract store: chunks come and go
\* only for a pending call, once, and every answer is true when it is given.
ImplementsContentStore == S!Spec

\* "PutChunk stores a chunk and returns its hash" (store.go:49): when a put has
\* returned a hash, the chunk can be read back.
PutStores ==
  answer # None /\ answer.req.op = "put" /\ answer.says.kind = "ok" =>
    Intact(answer.req.chunk)
===============================================================================
