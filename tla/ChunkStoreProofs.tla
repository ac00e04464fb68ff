-------------------------- MODULE ChunkStoreProofs --------------------------
(***************************************************************************)
(* Proofs about ChunkStore for any finite set of chunks, any chunk sizes   *)
(* and any number of goroutines.                                           *)
(***************************************************************************)
EXTENDS ChunkStore, SetSums

(* Facts about requests and answers. *)

LEMMA RequestFields ==
  ASSUME NEW r \in S!Requests
  PROVE  /\ r.op \in {"put", "get", "has", "delete", "stats", "list"}
         /\ r.op \in {"put", "get", "has", "delete"} => r.chunk \in Chunks
         /\ r # None
BY ConstantsAssumption DEF S!Requests, S!ChunkOps

LEMMA PlainIsAnswer ==
  ASSUME NEW k \in S!Kinds
  PROVE  Plain(k) \in S!Answers
BY DEF Plain, S!Answers

LEMMA StoredFinite ==
  /\ IsFiniteSet(Stored)
  /\ Cardinality(Stored) \in Nat
BY ConstantsAssumption, FS_Subset, FS_CardinalityType DEF Stored

LEMMA ReadResultIsAnswer ==
  ASSUME TypeOK, NEW r \in S!Requests
  PROVE  r.op \in {"get", "has", "stats", "list"} => ReadResult(r) \in S!Answers
<1>1. CASE r.op = "get"
  BY <1>1, PlainIsAnswer DEF ReadResult, S!Kinds
<1>2. CASE r.op = "has"
  BY <1>2, PlainIsAnswer DEF ReadResult, S!Kinds
<1>3. CASE r.op = "stats"
  BY <1>3 DEF ReadResult, S!Answers, TypeOK
<1>4. CASE r.op = "list"
  BY <1>4 DEF ReadResult, S!Answers, Stored
<1> QED BY <1>1, <1>2, <1>3, <1>4

(* Who may be where: the part of the invariant that says what the mutex does. *)

LockOK ==
  \A t \in Threads :
    /\ pc[t] # "idle" => up /\ req[t] # None
    /\ pc[t] \in {"drain", "locked", "writing", "counting"} => wlock = t /\ IsWrite(t)
    /\ pc[t] = "writing" => req[t].op = "put"
    /\ pc[t] = "reading" => ~IsWrite(t)
    /\ Inside(t) => \A u \in Threads : pc[u] # "reading"

TypeLock == TypeOK /\ LockOK

LEMMA UnlockTyped ==
  ASSUME TypeLock, NEW t \in Threads, req[t] # None, NEW a \in S!Answers,
         UnlockAndReturn(t, a)
  PROVE  /\ answer' \in [to : Threads, req : S!Requests \cup S!Malformed, says : S!Answers]
         /\ wlock' \in Threads \cup {None}
         /\ pc' \in [Threads -> Labels]
         /\ req' \in [Threads -> S!Requests \cup {None}]
BY DEF TypeLock, TypeOK, UnlockAndReturn, Labels

LEMMA RUnlockTyped ==
  ASSUME TypeLock, NEW t \in Threads, req[t] # None, NEW a \in S!Answers,
         RUnlockAndReturn(t, a)
  PROVE  /\ answer' \in [to : Threads, req : S!Requests \cup S!Malformed, says : S!Answers]
         /\ pc' \in [Threads -> Labels]
         /\ req' \in [Threads -> S!Requests \cup {None}]
BY DEF TypeLock, TypeOK, RUnlockAndReturn, Labels

LEMMA InitType == Init => TypeOK
BY ConstantsAssumption DEF Init, TypeOK, NoFile, Labels, Nothing

LEMMA TypeStep == TypeLock /\ [Next]_vars => TypeOK'
<1> SUFFICES ASSUME TypeLock, [Next]_vars PROVE TypeOK'
  OBVIOUS
<1> USE DEF TypeLock
<1>1. ASSUME NEW t \in Threads, Lock(t) \/ Drained(t) \/ RLock(t) PROVE TypeOK'
  BY <1>1 DEF TypeOK, Lock, Drained, RLock, disk, Labels
<1>2. ASSUME NEW t \in Threads, NEW r \in S!Requests, Call(t, r) PROVE TypeOK'
  BY <1>2 DEF TypeOK, Call, disk, Labels
<1>3. ASSUME NEW t \in Threads, NEW r \in S!Malformed, Reject(t, r) PROVE TypeOK'
  BY <1>3, PlainIsAnswer DEF TypeOK, Reject, disk, S!Kinds
<1>4. ASSUME NEW t \in Threads, InPut(t, "locked") \/ InPut(t, "writing") \/ InPut(t, "counting")
      PROVE  req[t] \in S!Requests /\ req[t].chunk \in Chunks
  BY <1>4, RequestFields DEF InPut, TypeOK, LockOK
<1>5. ASSUME NEW t \in Threads, InDelete(t, "locked") \/ InDelete(t, "counting")
      PROVE  req[t] \in S!Requests /\ req[t].chunk \in Chunks
  BY <1>5, RequestFields DEF InDelete, TypeOK, LockOK
<1>6. ASSUME NEW t \in Threads, PutExists(t) \/ PutWriteFails(t) PROVE TypeOK'
  <2>1. req[t] # None /\ \E a \in S!Answers : UnlockAndReturn(t, a)
    BY <1>4, <1>6, PlainIsAnswer, RequestFields DEF PutExists, PutWriteFails, S!Kinds
  <2> QED BY <1>6, <2>1, UnlockTyped DEF TypeOK, PutExists, PutWriteFails, disk
<1>7. ASSUME NEW t \in Threads, PutCreate(t) \/ PutWrite(t) PROVE TypeOK'
  BY <1>4, <1>7, ConstantsAssumption DEF TypeOK, PutCreate, PutWrite, NoFile, Labels
<1>20. ASSUME NEW t \in Threads, PutRename(t) PROVE TypeOK'
  <2>1. req[t].chunk \in Chunks /\ Size[req[t].chunk] \in Nat
    BY <1>4, <1>20, ConstantsAssumption DEF PutRename
  <2>2. replaced' \in [chunks : Nat, bytes : Nat]
    BY <1>20, <2>1 DEF TypeOK, PutRename, Renamed
  <2>3. file' \in [Chunks -> Nat \cup {NoFile}] /\ tmp' \in [Chunks -> Nat \cup {NoFile}]
    BY <1>20, <2>1 DEF TypeOK, PutRename, Renamed
  <2> QED BY <1>20, <2>2, <2>3 DEF TypeOK, PutRename, Renamed, Labels
<1>8. ASSUME NEW t \in Threads, PutCount(t) PROVE TypeOK'
  <2>1. req[t] # None /\ \E a \in S!Answers : UnlockAndReturn(t, a)
    BY <1>4, <1>8, PlainIsAnswer, RequestFields DEF PutCount, S!Kinds
  <2> QED BY <1>8, <2>1, UnlockTyped DEF TypeOK, PutCount, disk
<1>9. ASSUME NEW t \in Threads, PutRenameFails(t) PROVE TypeOK'
  <2>1. req[t] # None /\ \E a \in S!Answers : UnlockAndReturn(t, a)
    BY <1>4, <1>9, PlainIsAnswer, RequestFields DEF PutRenameFails, S!Kinds
  <2> QED BY <1>9, <2>1, UnlockTyped DEF TypeOK, PutRenameFails, NoFile
<1>10. ASSUME NEW t \in Threads, DeleteMissing(t) \/ DeleteFails(t) PROVE TypeOK'
  <2>1. req[t] # None /\ \E a \in S!Answers : UnlockAndReturn(t, a)
    BY <1>5, <1>10, PlainIsAnswer, RequestFields DEF DeleteMissing, DeleteFails, S!Kinds
  <2> QED BY <1>10, <2>1, UnlockTyped DEF TypeOK, DeleteMissing, DeleteFails, disk
<1>11. ASSUME NEW t \in Threads, DeleteRemove(t) PROVE TypeOK'
  BY <1>5, <1>11 DEF TypeOK, DeleteRemove, NoFile, Labels
<1>12. ASSUME NEW t \in Threads, DeleteCount(t) PROVE TypeOK'
  <2>1. req[t] # None /\ \E a \in S!Answers : UnlockAndReturn(t, a)
    BY <1>5, <1>12, PlainIsAnswer, RequestFields DEF DeleteCount, S!Kinds
  <2> QED BY <1>12, <2>1, UnlockTyped DEF TypeOK, DeleteCount, disk
<1>13. ASSUME NEW t \in Threads, Read(t) \/ ReadFails(t) PROVE TypeOK'
  <2>1. /\ req[t] \in S!Requests /\ req[t] # None
        /\ req[t].op \in {"get", "has", "stats", "list"}
    BY <1>13, RequestFields DEF Read, ReadFails, TypeOK, LockOK, IsWrite, WriteOps
  <2>2. \E a \in S!Answers : RUnlockAndReturn(t, a)
    BY <1>13, <2>1, PlainIsAnswer, ReadResultIsAnswer DEF Read, ReadFails, S!Kinds
  <2> QED BY <1>13, <2>1, <2>2, RUnlockTyped DEF TypeOK, Read, ReadFails, disk
<1>14. ASSUME NEW lost, Die(lost), lost \in [Chunks -> Nat \cup {NoFile}] PROVE TypeOK'
  <2>1. up' \in BOOLEAN /\ counted' \in BOOLEAN
    BY <1>14 DEF TypeOK, Die
  <2>2. /\ stats'.chunks \in Int /\ damaged' \subseteq Chunks
        /\ replaced' \in [chunks : Nat, bytes : Nat]
    BY <1>14 DEF TypeOK, Die, Nothing
  <2>3. /\ file' \in [Chunks -> Nat \cup {NoFile}] /\ tmp' \in [Chunks -> Nat \cup {NoFile}]
        /\ wlock' = None /\ info' = 0 /\ answer' = None
        /\ pc' \in [Threads -> Labels] /\ req' \in [Threads -> S!Requests \cup {None}]
    BY <1>14 DEF TypeOK, Die, Labels
  <2> QED BY <2>1, <2>2, <2>3 DEF TypeOK
<1>15. ASSUME Crash PROVE TypeOK'
  BY <1>14, <1>15 DEF Crash, TypeOK
<1>16. ASSUME PowerLoss PROVE TypeOK'
  <2> PICK lost \in [Chunks -> {NoFile} \cup 0..Max({Size[c] : c \in Chunks})] :
        /\ \A c \in Chunks : \/ lost[c] = file[c]
                             \/ file[c] # NoFile /\ lost[c] \in 0..file[c]-1
        /\ Die(lost)
    BY <1>16 DEF PowerLoss
  <2>1. \A c \in Chunks : lost[c] \in Nat \cup {NoFile}
    BY DEF TypeOK, NoFile
  <2>2. lost \in [Chunks -> Nat \cup {NoFile}]
    BY <2>1
  <2> QED BY <1>14, <2>2
<1>17. ASSUME Open PROVE TypeOK'
  <2>1. up' \in BOOLEAN /\ counted' \in BOOLEAN
    BY <1>17 DEF TypeOK, Open
  <2>2. stats'.chunks \in Int
    BY <1>17, StoredFinite DEF TypeOK, Open
  <2> QED BY <1>17, <2>1, <2>2 DEF TypeOK, Open, disk
<1>18. CASE UNCHANGED vars
  BY <1>18 DEF vars, TypeOK
<1>19. Workload \ S!Malformed \subseteq S!Requests
  BY ConstantsAssumption
<1> QED BY <1>1, <1>2, <1>3, <1>6, <1>7, <1>8, <1>9, <1>10, <1>11, <1>12, <1>13, <1>15,
           <1>16, <1>17, <1>18, <1>19, <1>20 DEF Next, Step

(* The mutex. *)

LEMMA LockStep == TypeLock /\ [Next]_vars => LockOK'
<1> SUFFICES ASSUME TypeLock, [Next]_vars PROVE LockOK'
  OBVIOUS
<1> USE DEF TypeLock
<1>1. ASSUME NEW t \in Threads, Lock(t) \/ Drained(t) \/ RLock(t) PROVE LockOK'
  BY <1>1, ConstantsAssumption
     DEF TypeOK, LockOK, Lock, Drained, RLock, IsWrite, Inside, Labels
<1>2. ASSUME NEW t \in Threads, NEW r \in S!Requests, Call(t, r) PROVE LockOK'
  BY <1>2, RequestFields DEF TypeOK, LockOK, Call, IsWrite, Inside, Labels
<1>3. ASSUME NEW t \in Threads, NEW r, Reject(t, r) PROVE LockOK'
  BY <1>3 DEF LockOK, Reject, IsWrite, Inside
<1>4. ASSUME NEW t \in Threads, Inside(t), NEW a, UnlockAndReturn(t, a), UNCHANGED up
      PROVE  LockOK'
  BY <1>4, ConstantsAssumption DEF TypeOK, LockOK, UnlockAndReturn, IsWrite, Inside, Labels
<1>5. ASSUME NEW t \in Threads, pc[t] = "reading", NEW a, RUnlockAndReturn(t, a),
             UNCHANGED <<up, wlock>>
      PROVE  LockOK'
  BY <1>5, ConstantsAssumption DEF TypeOK, LockOK, RUnlockAndReturn, IsWrite, Inside, Labels
<1>6. ASSUME NEW t \in Threads, NEW l \in {"writing", "counting"}, Inside(t),
             l = "writing" => req[t].op = "put",
             pc' = [pc EXCEPT ![t] = l], UNCHANGED <<up, wlock, req>>
      PROVE  LockOK'
  BY <1>6 DEF TypeOK, LockOK, IsWrite, Inside, Labels
<1>7. ASSUME NEW t \in Threads, PutExists(t) \/ PutCount(t) \/ PutWriteFails(t) \/ PutRenameFails(t)
      PROVE  LockOK'
  BY <1>4, <1>7 DEF PutExists, PutCount, PutWriteFails, PutRenameFails, InPut, Inside
<1>8. ASSUME NEW t \in Threads, DeleteMissing(t) \/ DeleteCount(t) \/ DeleteFails(t) PROVE LockOK'
  BY <1>4, <1>8 DEF DeleteMissing, DeleteCount, DeleteFails, InDelete, Inside
<1>9. ASSUME NEW t \in Threads, PutCreate(t) \/ PutRename(t) \/ DeleteRemove(t) PROVE LockOK'
  BY <1>6, <1>9 DEF PutCreate, PutRename, DeleteRemove, InPut, InDelete, Inside
<1>10. ASSUME NEW t \in Threads, PutWrite(t) PROVE LockOK'
  BY <1>10 DEF LockOK, PutWrite, IsWrite, Inside
<1>11. ASSUME NEW t \in Threads, Read(t) \/ ReadFails(t) PROVE LockOK'
  BY <1>5, <1>11 DEF Read, ReadFails
<1>12. ASSUME NEW lost, Die(lost) PROVE LockOK'
  BY <1>12 DEF LockOK, Die, Inside
<1>13. ASSUME Open PROVE LockOK'
  BY <1>13 DEF LockOK, Open, Inside, IsWrite
<1>14. CASE UNCHANGED vars
  BY <1>14 DEF vars, LockOK, Inside, IsWrite
<1>15. Workload \ S!Malformed \subseteq S!Requests
  BY ConstantsAssumption
<1> QED BY <1>1, <1>2, <1>3, <1>7, <1>8, <1>9, <1>10, <1>11, <1>12, <1>13, <1>14, <1>15
        DEF Next, Step, Crash, PowerLoss

LEMMA InitLock == Init => LockOK
BY DEF Init, LockOK, Inside

\* Every variable keeps its type, and each goroutine holds the lock where the
\* code of store.go says it does.
THEOREM TypeLockHolds == Spec => []TypeLock
<1>1. Init => TypeLock
  BY InitType, InitLock DEF TypeLock
<1>2. TypeLock /\ [Next]_vars => TypeLock'
  BY TypeStep, LockStep DEF TypeLock
<1> QED BY <1>1, <1>2, PTL DEF Spec

\* The type invariant of store.go's memory and disk.
THEOREM TypeCorrect == Spec => []TypeOK
<1>1. TypeLock => TypeOK
  BY DEF TypeLock
<1> QED BY <1>1, TypeLockHolds, PTL

\* sync.RWMutex as store.go uses it: a put or a delete on the disk excludes every
\* other put, delete and read, for any number of goroutines.
THEOREM MutualExclusion == Spec => []Exclusion
<1>1. TypeLock => Exclusion
  BY DEF TypeLock, LockOK, Exclusion, Inside
<1> QED BY <1>1, TypeLockHolds, PTL

(* The disk and the counter. *)

FilesOK ==
  /\ damaged \subseteq Stored
  /\ FinalIntact
  /\ \A c \in damaged : file[c] < Size[c]
  /\ \A t \in Threads :
       pc[t] = "counting" =>
         IF req[t].op = "put" THEN req[t].chunk \in Stored ELSE req[t].chunk \notin Stored

\* What the counter lacks while a writer is between its disk operation and its count.
CountOK ==
  up /\ counted =>
    /\ CountAccounted
    /\ \A t \in Threads : pc[t] = "counting" =>
         stats.chunks + (IF req[t].op = "put" THEN 1 ELSE -1)
           = Cardinality(Stored) + replaced.chunks

\* A process that has ended has replaced nothing since its start.
Down == ~up => replaced = Nothing

IInv == TypeLock /\ FilesOK /\ CountOK /\ Down

LEMMA WriterChunk ==
  ASSUME TypeLock, NEW t \in Threads, Inside(t)
  PROVE  /\ req[t] \in S!Requests /\ req[t].chunk \in Chunks
         /\ req[t].op \in WriteOps
         /\ \A u \in Threads \ {t} : ~Inside(u)
BY RequestFields DEF TypeLock, TypeOK, LockOK, Inside, IsWrite, WriteOps

\* What the rename does, whether the file was there or not.
LEMMA RenameEffect ==
  ASSUME TypeLock, NEW t \in Threads, PutRename(t)
  PROVE  /\ req[t].chunk \in Chunks /\ Size[req[t].chunk] \in Nat
         /\ req[t].op = "put" /\ pc[t] = "writing"
         /\ \A u \in Threads \ {t} : ~Inside(u)
         /\ file' = [file EXCEPT ![req[t].chunk] = Size[req[t].chunk]]
         /\ Stored' = Stored \cup {req[t].chunk}
         /\ damaged' = damaged \ {req[t].chunk}
         /\ req[t].chunk \notin Stored => replaced' = replaced
         /\ req[t].chunk \in Stored =>
              /\ replaced'.chunks = replaced.chunks + 1
              /\ replaced'.bytes = replaced.bytes + file[req[t].chunk]
         /\ UNCHANGED <<up, stats, counted, req>>
         /\ \A u \in Threads : pc'[u] \in {"writing", "counting"} <=> u = t
         /\ pc'[t] = "counting"
<1> DEFINE c == req[t].chunk
<1>1. /\ c \in Chunks /\ \A u \in Threads \ {t} : ~Inside(u)
      /\ req[t].op = "put" /\ pc[t] = "writing"
  BY WriterChunk DEF PutRename, InPut, Inside
<1>2. Size[c] \in Nat
  BY <1>1, ConstantsAssumption
<1>3. file' = [file EXCEPT ![c] = Size[c]] /\ damaged' = damaged \ {c}
  BY DEF PutRename, Renamed
<1>4. Stored' = Stored \cup {c}
  BY <1>1, <1>2, <1>3 DEF Stored, NoFile, TypeLock, TypeOK
<1>5. /\ c \notin Stored => replaced' = replaced
      /\ c \in Stored => /\ replaced'.chunks = replaced.chunks + 1
                         /\ replaced'.bytes = replaced.bytes + file[c]
  BY <1>1 DEF PutRename, Renamed, Stored
<1>6. /\ \A u \in Threads : pc'[u] \in {"writing", "counting"} <=> u = t
      /\ pc'[t] = "counting"
  BY <1>1 DEF PutRename, TypeLock, TypeOK, Inside
<1> QED BY <1>1, <1>2, <1>3, <1>4, <1>5, <1>6 DEF PutRename

\* The steps that touch neither a file nor a writer's place in its call.
LEMMA QuietStep ==
  ASSUME IInv, UNCHANGED <<file, damaged>>,
         \A t \in Threads : pc'[t] \in {"writing", "counting"} =>
           pc'[t] = pc[t] /\ req'[t] = req[t]
  PROVE  FilesOK'
BY DEF IInv, FilesOK, Stored, FinalIntact, Intact

LEMMA QuietCount ==
  ASSUME IInv, UNCHANGED <<file, replaced, up, counted, stats>>,
         \A t \in Threads : pc[t] = "counting" <=> pc'[t] = "counting",
         \A t \in Threads : pc[t] = "counting" => req'[t] = req[t]
  PROVE  CountOK'
BY DEF IInv, CountOK, CountAccounted, Settled, Stored

LEMMA FilesStep == IInv /\ [Next]_vars => FilesOK'
<1> SUFFICES ASSUME IInv, [Next]_vars PROVE FilesOK'
  OBVIOUS
<1> USE DEF IInv
<1>1. ASSUME NEW t \in Threads, Lock(t) \/ Drained(t) \/ RLock(t) PROVE FilesOK'
  BY <1>1, QuietStep DEF TypeLock, TypeOK, Lock, Drained, RLock, disk
<1>2. ASSUME NEW t \in Threads, NEW r, Call(t, r) PROVE FilesOK'
  BY <1>2, QuietStep DEF TypeLock, TypeOK, Call, disk
<1>3. ASSUME NEW t \in Threads, NEW r, Reject(t, r) PROVE FilesOK'
  BY <1>3, QuietStep DEF Reject, disk
<1>4. ASSUME NEW t \in Threads, NEW a, UnlockAndReturn(t, a) \/ RUnlockAndReturn(t, a),
             UNCHANGED <<file, damaged>>
      PROVE  FilesOK'
  BY <1>4, QuietStep DEF TypeLock, TypeOK, UnlockAndReturn, RUnlockAndReturn
<1>5. ASSUME NEW t \in Threads,
             PutExists(t) \/ PutCount(t) \/ PutWriteFails(t) \/ PutRenameFails(t)
      PROVE  FilesOK'
  BY <1>4, <1>5 DEF PutExists, PutCount, PutWriteFails, PutRenameFails, disk
<1>6. ASSUME NEW t \in Threads,
             DeleteMissing(t) \/ DeleteCount(t) \/ DeleteFails(t) \/ Read(t) \/ ReadFails(t)
      PROVE  FilesOK'
  BY <1>4, <1>6 DEF DeleteMissing, DeleteCount, DeleteFails, Read, ReadFails, disk
<1>7. ASSUME NEW t \in Threads, PutCreate(t) PROVE FilesOK'
  <2>1. \A u \in Threads \ {t} : ~Inside(u)
    BY <1>7, WriterChunk DEF PutCreate, InPut, Inside
  <2> QED BY <1>7, <2>1 DEF PutCreate, FilesOK, TypeLock, TypeOK, Inside, Stored, FinalIntact, Intact
<1>8. ASSUME NEW t \in Threads, PutWrite(t) PROVE FilesOK'
  BY <1>8, QuietStep DEF PutWrite
<1>9. ASSUME NEW t \in Threads, PutRename(t) PROVE FilesOK'
  <2> DEFINE c == req[t].chunk
  <2>1. /\ c \in Chunks /\ Size[c] \in Nat
        /\ file' = [file EXCEPT ![c] = Size[c]]
        /\ Stored' = Stored \cup {c} /\ damaged' = damaged \ {c}
    BY <1>9, RenameEffect
  <2>2. /\ damaged' \subseteq Stored' /\ FinalIntact'
        /\ \A d \in damaged' : file'[d] < Size[d]
    BY <2>1 DEF FilesOK, FinalIntact, Intact, TypeLock, TypeOK, Stored
  <2>3. \A u \in Threads : pc'[u] = "counting" => u = t
    BY <1>9, RenameEffect
  <2>4. req'[t].chunk \in Stored' /\ req'[t].op = "put"
    BY <1>9, <2>1, RenameEffect
  <2> QED BY <2>2, <2>3, <2>4 DEF FilesOK
<1>10. ASSUME NEW t \in Threads, DeleteRemove(t) PROVE FilesOK'
  <2> DEFINE c == req[t].chunk
  <2>1. /\ c \in Chunks /\ \A u \in Threads \ {t} : ~Inside(u)
        /\ req[t].op = "delete"
    BY <1>10, WriterChunk DEF DeleteRemove, InDelete, Inside
  <2>2. Stored' = Stored \ {c}
    BY <1>10, <2>1 DEF DeleteRemove, Stored, NoFile, TypeLock, TypeOK
  <2>3. /\ damaged' \subseteq Stored' /\ FinalIntact'
        /\ \A d \in damaged' : file'[d] < Size[d]
    BY <1>10, <2>1, <2>2 DEF DeleteRemove, FilesOK, FinalIntact, Intact, TypeLock, TypeOK, Stored
  <2>4. \A u \in Threads : pc'[u] \in {"writing", "counting"} => u = t /\ pc'[u] = "counting"
    BY <1>10, <2>1 DEF DeleteRemove, TypeLock, TypeOK, Inside
  <2> QED BY <1>10, <2>1, <2>2, <2>3, <2>4 DEF DeleteRemove, FilesOK
<1>11. ASSUME NEW lost, Die(lost),
              \A c \in Chunks : lost[c] = file[c] \/ (c \in Stored /\ lost[c] \in 0..file[c]-1)
       PROVE  FilesOK'
  <2>1. Stored' = Stored
    BY <1>11 DEF Die, Stored, NoFile, TypeLock, TypeOK
  <2>2. damaged' \subseteq Stored' /\ FinalIntact'
    BY <1>11, <2>1 DEF Die, FilesOK, FinalIntact, Intact, Stored
  <2>3. ASSUME NEW c \in damaged' PROVE file'[c] < Size[c]
    <3>1. CASE lost[c] = file[c]
      BY <1>11, <2>3, <3>1 DEF Die, FilesOK
    <3>2. CASE lost[c] # file[c]
      <4>1. c \in Stored /\ lost[c] \in 0..file[c]-1 /\ file'[c] = lost[c]
        BY <1>11, <2>3, <3>2 DEF Die, FilesOK, Stored
      <4>2. file[c] \in Nat /\ Size[c] \in Nat /\ file[c] <= Size[c]
        BY <4>1, ConstantsAssumption DEF FilesOK, FinalIntact, Intact, Stored, NoFile, TypeLock, TypeOK
      <4> QED BY <4>1, <4>2
    <3> QED BY <3>1, <3>2
  <2> QED BY <1>11, <2>1, <2>2, <2>3 DEF Die, FilesOK
<1>12. ASSUME PowerLoss PROVE FilesOK'
  BY <1>11, <1>12 DEF PowerLoss, Stored
<1>13. ASSUME Open PROVE FilesOK'
  BY <1>13, QuietStep DEF Open, disk
<1>14. CASE UNCHANGED vars
  BY <1>14, QuietStep DEF vars
<1> QED BY <1>1, <1>2, <1>3, <1>5, <1>6, <1>7, <1>8, <1>9, <1>10, <1>11, <1>12, <1>13, <1>14
        DEF Next, Step, Crash

LEMMA CountStep == IInv /\ [Next]_vars => CountOK'
<1> SUFFICES ASSUME IInv, [Next]_vars PROVE CountOK'
  OBVIOUS
<1> USE DEF IInv
<1>1. ASSUME NEW t \in Threads, Lock(t) \/ Drained(t) \/ RLock(t) PROVE CountOK'
  BY <1>1, QuietCount DEF TypeLock, TypeOK, Lock, Drained, RLock, disk
<1>2. ASSUME NEW t \in Threads, NEW r, Call(t, r) PROVE CountOK'
  BY <1>2, QuietCount DEF TypeLock, TypeOK, Call, disk
<1>3. ASSUME NEW t \in Threads, NEW r, Reject(t, r) PROVE CountOK'
  BY <1>3, QuietCount DEF Reject, disk
<1>4. ASSUME NEW t \in Threads, pc[t] # "counting",
             NEW a, UnlockAndReturn(t, a) \/ RUnlockAndReturn(t, a),
             UNCHANGED <<file, replaced, up, counted, stats>>
      PROVE  CountOK'
  BY <1>4, QuietCount DEF TypeLock, TypeOK, UnlockAndReturn, RUnlockAndReturn
<1>5. ASSUME NEW t \in Threads,
             PutExists(t) \/ PutWriteFails(t) \/ PutRenameFails(t)
      PROVE  CountOK'
  BY <1>4, <1>5 DEF PutExists, PutWriteFails, PutRenameFails, disk, InPut
<1>6. ASSUME NEW t \in Threads,
             DeleteMissing(t) \/ DeleteFails(t) \/ Read(t) \/ ReadFails(t)
      PROVE  CountOK'
  BY <1>4, <1>6 DEF DeleteMissing, DeleteFails, Read, ReadFails, disk, InDelete
<1>7. ASSUME NEW t \in Threads, PutCreate(t) \/ PutWrite(t) PROVE CountOK'
  BY <1>7, QuietCount DEF PutCreate, PutWrite, InPut, TypeLock, TypeOK
<1>8. ASSUME NEW t \in Threads, PutRename(t) PROVE CountOK'
  <2> DEFINE c == req[t].chunk
  <2>1. /\ c \in Chunks /\ Stored' = Stored \cup {c}
        /\ \A u \in Threads \ {t} : ~Inside(u)
        /\ req[t].op = "put" /\ pc[t] = "writing"
        /\ UNCHANGED <<up, stats, counted, req>>
        /\ \A u \in Threads : pc'[u] = "counting" <=> u = t
    BY <1>8, RenameEffect
  <2>2. replaced.chunks \in Nat /\ Cardinality(Stored) \in Nat
    BY StoredFinite DEF TypeLock, TypeOK
  <2>3. Cardinality(Stored') + replaced'.chunks = Cardinality(Stored) + replaced.chunks + 1
    <3>1. CASE c \notin Stored
      <4>1. Cardinality(Stored') = Cardinality(Stored) + 1
        BY <2>1, <3>1, StoredFinite, FS_AddElement
      <4> QED BY <1>8, <2>2, <3>1, <4>1, RenameEffect
    <3>2. CASE c \in Stored
      <4>1. Stored' = Stored
        BY <2>1, <3>2
      <4>2. replaced'.chunks = replaced.chunks + 1
        BY <1>8, <3>2, RenameEffect
      <4> QED BY <2>2, <4>1, <4>2
    <3> QED BY <3>1, <3>2
  <2>4. up /\ counted => stats.chunks = Cardinality(Stored) + replaced.chunks
    BY <2>1 DEF CountOK, CountAccounted, Settled, Inside
  <2> QED BY <2>1, <2>2, <2>3, <2>4 DEF CountOK, CountAccounted, Settled
<1>9. ASSUME NEW t \in Threads, DeleteRemove(t) PROVE CountOK'
  <2> DEFINE c == req[t].chunk
  <2>1. /\ c \in Stored /\ \A u \in Threads \ {t} : ~Inside(u)
        /\ req[t].op = "delete" /\ pc[t] = "locked"
    BY <1>9, WriterChunk DEF DeleteRemove, InDelete, Inside, Stored
  <2>2. Stored' = Stored \ {c}
    BY <1>9, <2>1 DEF DeleteRemove, Stored, NoFile, TypeLock, TypeOK
  <2>3. Cardinality(Stored') = Cardinality(Stored) - 1 /\ Cardinality(Stored) \in Nat
    BY <2>1, <2>2, StoredFinite, FS_RemoveElement
  <2>4. up /\ counted => stats.chunks = Cardinality(Stored) + replaced.chunks
    BY <2>1 DEF CountOK, CountAccounted, Settled, Inside
  <2>6. replaced' = replaced /\ replaced.chunks \in Nat
    BY <1>9 DEF DeleteRemove, TypeLock, TypeOK
  <2>5. \A u \in Threads : pc'[u] = "counting" <=> u = t
    BY <1>9, <2>1 DEF DeleteRemove, TypeLock, TypeOK, Inside
  <2> QED BY <1>9, <2>1, <2>3, <2>4, <2>5, <2>6 DEF DeleteRemove, CountOK, CountAccounted, Settled
<1>10. ASSUME NEW t \in Threads, PutCount(t) \/ DeleteCount(t) PROVE CountOK'
  <2>1. /\ pc[t] = "counting" /\ \A u \in Threads \ {t} : ~Inside(u)
        /\ PutCount(t) => req[t].op = "put"
        /\ DeleteCount(t) => req[t].op = "delete"
    BY <1>10, WriterChunk DEF PutCount, DeleteCount, InPut, InDelete, Inside
  <2>2. \A u \in Threads : pc'[u] # "counting"
    BY <1>10, <2>1 DEF PutCount, DeleteCount, UnlockAndReturn, TypeLock, TypeOK, Inside
  <2>3. up /\ counted => stats'.chunks = Cardinality(Stored) + replaced.chunks
    <3>1. CASE PutCount(t)
      BY <2>1, <3>1 DEF PutCount, CountOK
    <3>2. ASSUME DeleteCount(t), up, counted 
               PROVE stats'.chunks = Cardinality(Stored) + replaced.chunks
      <4>1. stats.chunks + (-1) = Cardinality(Stored) + replaced.chunks
        BY <2>1, <3>2 DEF CountOK
      <4>2. stats'.chunks = stats.chunks - 1 /\ stats.chunks \in Int
        BY <3>2 DEF DeleteCount, TypeLock, TypeOK
      <4>3. replaced.chunks \in Nat /\ Cardinality(Stored) \in Nat
        BY StoredFinite DEF TypeLock, TypeOK
      <4> QED BY <4>1, <4>2, <4>3
    <3> QED BY <1>10, <3>1, <3>2
  <2>4. Stored' = Stored /\ UNCHANGED <<replaced, up, counted>>
    BY <1>10 DEF PutCount, DeleteCount, Stored, disk
  <2> QED BY <2>2, <2>3, <2>4 DEF CountOK, CountAccounted, Settled
<1>11. ASSUME NEW lost, Die(lost) PROVE CountOK'
  BY <1>11 DEF Die, CountOK
<1>12. ASSUME Open PROVE CountOK'
  <2>1. counted' => stats'.chunks = Cardinality(Stored) + replaced.chunks
    BY <1>12, StoredFinite DEF Open, Down, Nothing
  <2>2. \A t \in Threads : pc'[t] # "counting"
    BY <1>12 DEF Open, TypeLock, LockOK
  <2>3. Stored' = Stored /\ replaced' = replaced
    BY <1>12 DEF Open, Stored, disk
  <2> QED BY <2>1, <2>2, <2>3 DEF CountOK, CountAccounted, Settled
<1>13. CASE UNCHANGED vars
  BY <1>13, QuietCount DEF vars
<1> QED BY <1>1, <1>2, <1>3, <1>5, <1>6, <1>7, <1>8, <1>9, <1>10, <1>11, <1>12, <1>13
        DEF Next, Step, Crash, PowerLoss

LEMMA DownStep == IInv /\ [Next]_vars => Down'
<1> SUFFICES ASSUME IInv, [Next]_vars PROVE Down'
  OBVIOUS
<1>1. ASSUME NEW t \in Threads, Step(t) PROVE up' = up /\ up
  <2>1. up
    BY <1>1 DEF Step, IInv, TypeLock, LockOK, Lock, Drained, RLock, Read, ReadFails, InPut, InDelete,
       PutExists, PutCreate, PutWrite, PutRename, PutCount, PutWriteFails, PutRenameFails,
       DeleteMissing, DeleteRemove, DeleteCount, DeleteFails
  <2> QED BY <1>1, <2>1 DEF Step, Lock, Drained, RLock, Read, ReadFails,
       PutExists, PutCreate, PutWrite, PutRename, PutCount, PutWriteFails, PutRenameFails,
       DeleteMissing, DeleteRemove, DeleteCount, DeleteFails
<1>2. ASSUME NEW t \in Threads, NEW r, Call(t, r) \/ Reject(t, r) PROVE up' = up /\ up
  BY <1>2 DEF Call, Reject
<1>3. ASSUME NEW lost, Die(lost) PROVE replaced' = Nothing
  BY <1>3 DEF Die
<1>4. ASSUME Open PROVE up'
  BY <1>4 DEF Open
<1>5. CASE UNCHANGED vars
  BY <1>5 DEF vars, IInv, Down
<1> QED BY <1>1, <1>2, <1>3, <1>4, <1>5 DEF Next, Crash, PowerLoss, Down

LEMMA InitData == Init => FilesOK /\ CountOK /\ Down
<1> SUFFICES ASSUME Init PROVE FilesOK /\ CountOK /\ Down
  OBVIOUS
<1>1. Stored = {}
  BY DEF Init, Stored
<1>2. CountOK
  BY <1>1, FS_EmptySet DEF Init, CountOK, CountAccounted, Settled, Nothing
<1> QED BY <1>1, <1>2 DEF Init, FilesOK, FinalIntact, Down

\* The inductive invariant: types, the mutex, the files and the counter.
THEOREM InvariantHolds == Spec => []IInv
<1>1. Init => IInv
  BY InitType, InitLock, InitData DEF IInv, TypeLock
<1>2. IInv /\ [Next]_vars => IInv'
  BY TypeStep, LockStep, FilesStep, CountStep, DownStep DEF IInv, TypeLock
<1> QED BY <1>1, <1>2, PTL DEF Spec

\* The rename in PutChunk is atomic: no crash and no error path leaves part of a
\* chunk under its name, whatever the sizes of the chunks.
THEOREM FinalFilesIntact == Spec => []FinalIntact
<1>1. IInv => FinalIntact
  BY DEF IInv, FilesOK
<1> QED BY <1>1, InvariantHolds, PTL

\* TotalChunks is the number of chunk files whenever no writer is mid-way, plus one for each
\* file that a put has replaced because os.Stat failed on it (store.go:65).
THEOREM ChunkCountAccounted == Spec => []CountAccounted
<1>1. IInv => CountAccounted
  BY DEF IInv, CountOK, CountAccounted, Settled
<1> QED BY <1>1, InvariantHolds, PTL

(* The sum of the files' lengths. *)

\* What the byte counter lacks while a writer is between its disk operation and its count.
BytesOK ==
  /\ stats.bytes \in Int
  /\ up /\ counted =>
       /\ BytesAccounted
       /\ \A t \in Threads : pc[t] = "counting" =>
            stats.bytes + (IF req[t].op = "put" THEN Size[req[t].chunk] ELSE -info)
              = Bytes + replaced.bytes

LEMMA BytesAre == Bytes = SumOver(file, Stored)
BY DEF Bytes, SumOver

LEMMA BytesAreNext == (Bytes = SumOver(file, Stored))'
BY BytesAre, PTL

LEMMA BytesSame ==
  ASSUME file' = file
  PROVE  Bytes' = Bytes
<1>1. Stored' = Stored
  BY DEF Stored
<1> QED BY <1>1, BytesAre, BytesAreNext

LEMMA BytesTyped ==
  ASSUME TypeOK
  PROVE  Bytes \in Int /\ \A c \in Stored : file[c] \in Int
<1>1. \A c \in Stored : file[c] \in Int
  BY DEF TypeOK, Stored, NoFile
<1> QED BY <1>1, BytesAre, StoredFinite, SumType

LEMMA QuietBytes ==
  ASSUME IInv, BytesOK, UNCHANGED <<file, replaced, up, counted, stats, info>>,
         \A t \in Threads : pc[t] = "counting" <=> pc'[t] = "counting",
         \A t \in Threads : pc[t] = "counting" => req'[t] = req[t]
  PROVE  BytesOK'
<1>1. Bytes' = Bytes
  BY BytesSame
<1> QED BY <1>1 DEF BytesOK, BytesAccounted, Settled

LEMMA BytesStep == IInv /\ BytesOK /\ [Next]_vars => BytesOK'
<1> SUFFICES ASSUME IInv, BytesOK, [Next]_vars PROVE BytesOK'
  OBVIOUS
<1>0. TypeLock /\ TypeOK
  BY DEF IInv, TypeLock
<1>1. ASSUME NEW t \in Threads, Lock(t) \/ Drained(t) \/ RLock(t) PROVE BytesOK'
  BY <1>0, <1>1, QuietBytes DEF TypeOK, Lock, Drained, RLock, disk
<1>2. ASSUME NEW t \in Threads, NEW r, Call(t, r) PROVE BytesOK'
  BY <1>0, <1>2, QuietBytes DEF TypeOK, Call, disk
<1>3. ASSUME NEW t \in Threads, NEW r, Reject(t, r) PROVE BytesOK'
  BY <1>3, QuietBytes DEF Reject, disk
<1>4. ASSUME NEW t \in Threads, pc[t] # "counting",
             NEW a, UnlockAndReturn(t, a) \/ RUnlockAndReturn(t, a),
             UNCHANGED <<file, replaced, up, counted, stats, info>>
      PROVE  BytesOK'
  BY <1>0, <1>4, QuietBytes DEF TypeOK, UnlockAndReturn, RUnlockAndReturn
<1>5. ASSUME NEW t \in Threads,
             PutExists(t) \/ PutWriteFails(t) \/ PutRenameFails(t)
      PROVE  BytesOK'
  BY <1>4, <1>5 DEF PutExists, PutWriteFails, PutRenameFails, disk, InPut
<1>6. ASSUME NEW t \in Threads,
             DeleteMissing(t) \/ DeleteFails(t) \/ Read(t) \/ ReadFails(t)
      PROVE  BytesOK'
  BY <1>4, <1>6 DEF DeleteMissing, DeleteFails, Read, ReadFails, disk, InDelete
<1>7. ASSUME NEW t \in Threads, PutCreate(t) \/ PutWrite(t) PROVE BytesOK'
  BY <1>0, <1>7, QuietBytes DEF PutCreate, PutWrite, InPut, TypeOK
<1>8. ASSUME NEW t \in Threads, PutRename(t) PROVE BytesOK'
  <2> DEFINE c == req[t].chunk
             rest == Stored \ {c}
  <2>1. /\ c \in Chunks /\ Size[c] \in Nat /\ Stored' = Stored \cup {c}
        /\ file' = [file EXCEPT ![c] = Size[c]]
        /\ \A u \in Threads \ {t} : ~Inside(u)
        /\ req[t].op = "put" /\ pc[t] = "writing"
        /\ UNCHANGED <<up, stats, counted, req>>
        /\ \A u \in Threads : pc'[u] = "counting" <=> u = t
    BY <1>0, <1>8, RenameEffect
  <2>2. /\ IsFiniteSet(rest) /\ c \notin rest
        /\ Stored' = rest \cup {c} /\ (c \in Stored => Stored = rest \cup {c})
        /\ c \notin Stored => Stored = rest
    BY <2>1, StoredFinite, FS_Subset
  <2>3. /\ \A d \in rest : file[d] = file'[d] /\ file[d] \in Int
        /\ file'[c] = Size[c] /\ file'[c] \in Int /\ (c \in Stored => file[c] \in Int)
    BY <1>0, <2>1, BytesTyped DEF TypeOK
  <2>4. SumOver(file, rest) \in Int
    BY <2>2, <2>3, SumType
  <2>5. Bytes' = SumOver(file, rest) + Size[c]
    <3>1. SumOver(file', rest \cup {c}) = SumOver(file, rest) + file'[c]
      <4>1. /\ IsFiniteSet(rest) /\ c \notin rest /\ file'[c] \in Int
            /\ \A d \in rest : file[d] = file'[d] /\ file[d] \in Int
        BY <2>2, <2>3
      <4> HIDE DEF c, rest
      <4> QED BY <4>1, SumWith
    <3> QED BY <2>2, <2>3, <3>1, BytesAreNext
  <2>6. c \in Stored => Bytes = SumOver(file, rest) + file[c]
    <3> SUFFICES ASSUME c \in Stored PROVE Bytes = SumOver(file, rest) + file[c]
      OBVIOUS
    <3>1. SumOver(file, rest \cup {c}) = SumOver(file, rest) + file[c]
      <4>1. /\ IsFiniteSet(rest) /\ c \notin rest /\ file[c] \in Int
            /\ \A d \in rest : file[d] = file[d] /\ file[d] \in Int
        BY <2>2, <2>3
      <4> HIDE DEF c, rest
      <4> QED BY <4>1, SumWith
    <3> QED BY <2>2, <3>1, BytesAre
  <2>7. c \notin Stored => Bytes = SumOver(file, rest)
    BY <2>2, BytesAre
  <2>8. Bytes' + replaced'.bytes = Bytes + replaced.bytes + Size[c]
    <3>1. replaced.bytes \in Nat
      BY <1>0 DEF TypeOK
    <3>2. CASE c \notin Stored
      BY <1>0, <1>8, <2>1, <2>4, <2>5, <2>7, <3>1, <3>2, RenameEffect
    <3>3. CASE c \in Stored
      <4>1. replaced'.bytes = replaced.bytes + file[c]
        BY <1>0, <1>8, <3>3, RenameEffect
      <4>2. Bytes = SumOver(file, rest) + file[c] /\ file[c] \in Int /\ Size[c] \in Nat
        BY <2>1, <2>3, <2>6, <3>3
      <4> HIDE DEF c, rest
      <4> QED BY <2>4, <2>5, <3>1, <4>1, <4>2
    <3> QED BY <3>2, <3>3
  <2>9. up /\ counted => stats.bytes = Bytes + replaced.bytes
    BY <2>1 DEF BytesOK, BytesAccounted, Settled, Inside
  <2> HIDE DEF rest
  <2> QED BY <2>1, <2>8, <2>9 DEF BytesOK, BytesAccounted, Settled
<1>9. ASSUME NEW t \in Threads, DeleteRemove(t) PROVE BytesOK'
  <2> DEFINE c == req[t].chunk
  <2>1. /\ c \in Stored /\ c \in Chunks /\ \A u \in Threads \ {t} : ~Inside(u)
        /\ req[t].op = "delete" /\ pc[t] = "locked"
    BY <1>0, <1>9, WriterChunk DEF DeleteRemove, InDelete, Inside, Stored
  <2>2. Stored' = Stored \ {c} /\ \A d \in Stored' : file'[d] = file[d]
    BY <1>0, <1>9, <2>1 DEF DeleteRemove, Stored, NoFile, TypeOK
  <2>3. IsFiniteSet(Stored') /\ c \notin Stored' /\ Stored = Stored' \cup {c}
    BY <2>1, <2>2, StoredFinite, FS_Subset
  <2>4. SumOver(file, Stored' \cup {c}) = SumOver(file', Stored') + file[c]
    <3>1. \A d \in Stored' : file'[d] = file[d] /\ file'[d] \in Int
      BY <1>0, <2>2, BytesTyped
    <3>2. file[c] \in Int /\ c \notin Stored' /\ IsFiniteSet(Stored')
      BY <1>0, <2>1, <2>3, BytesTyped
    <3> HIDE DEF c
    <3> QED BY <3>1, <3>2, SumWith
  <2>5. Bytes = Bytes' + file[c]
    BY <2>3, <2>4, BytesAre, BytesAreNext
  <2>6. Bytes' \in Int
    <3>1. \A d \in Stored' : file'[d] \in Int
      BY <1>0, <2>2, BytesTyped
    <3>2. SumOver(file', Stored') \in Int
      BY <2>3, <3>1, SumType
    <3> QED BY <3>2, BytesAreNext
  <2>7. up /\ counted => stats.bytes = Bytes + replaced.bytes
    BY <2>1 DEF BytesOK, BytesAccounted, Settled, Inside
  <2>8. \A u \in Threads : pc'[u] = "counting" <=> u = t
    BY <1>0, <1>9, <2>1 DEF DeleteRemove, TypeOK, Inside
  <2>9. /\ UNCHANGED <<stats, replaced, up, counted, req>>
        /\ info' = file[c] /\ file[c] \in Int /\ replaced.bytes \in Nat
    BY <1>0, <1>9, <2>1, BytesTyped DEF DeleteRemove, TypeOK
  <2> QED BY <2>1, <2>5, <2>6, <2>7, <2>8, <2>9 DEF BytesOK, BytesAccounted, Settled
<1>10. ASSUME NEW t \in Threads, PutCount(t) \/ DeleteCount(t) PROVE BytesOK'
  <2>1. /\ pc[t] = "counting" /\ \A u \in Threads \ {t} : ~Inside(u)
        /\ PutCount(t) => req[t].op = "put"
        /\ DeleteCount(t) => req[t].op = "delete"
    BY <1>0, <1>10, WriterChunk DEF PutCount, DeleteCount, InPut, InDelete, Inside
  <2>2. \A u \in Threads : pc'[u] # "counting"
    BY <1>0, <1>10, <2>1 DEF PutCount, DeleteCount, UnlockAndReturn, TypeOK, Inside
  <2>3. /\ PutCount(t) => stats'.bytes = stats.bytes + Size[req[t].chunk]
        /\ DeleteCount(t) => stats'.bytes = stats.bytes - info
    BY DEF PutCount, DeleteCount
  <2>4. Size[req[t].chunk] \in Int /\ info \in Int /\ stats.bytes \in Int
    BY <1>0, <2>1, WriterChunk, ConstantsAssumption DEF Inside, TypeOK, BytesOK
  <2>5. up /\ counted =>
          stats.bytes + (IF req[t].op = "put" THEN Size[req[t].chunk] ELSE -info)
            = Bytes + replaced.bytes
    BY <2>1 DEF BytesOK
  <2>6. stats'.bytes \in Int /\ (up /\ counted => stats'.bytes = Bytes + replaced.bytes)
    BY <1>10, <2>1, <2>3, <2>4, <2>5
  <2>7. Bytes' = Bytes /\ UNCHANGED <<replaced, up, counted>>
    BY <1>10, BytesSame DEF PutCount, DeleteCount, disk
  <2> QED BY <2>2, <2>6, <2>7 DEF BytesOK, BytesAccounted, Settled
<1>11. ASSUME NEW lost, Die(lost) PROVE BytesOK'
  BY <1>11 DEF Die, BytesOK, Nothing
<1>12. ASSUME Open PROVE BytesOK'
  <2>1. /\ stats'.bytes \in Int
        /\ counted' => stats'.bytes = Bytes + replaced.bytes
    BY <1>0, <1>12, BytesTyped DEF IInv, Open, BytesOK, Down, Nothing
  <2>2. \A t \in Threads : pc'[t] # "counting"
    BY <1>0, <1>12 DEF Open, TypeLock, LockOK
  <2>3. Bytes' = Bytes /\ replaced' = replaced
    BY <1>12, BytesSame DEF Open, disk
  <2> QED BY <2>1, <2>2, <2>3 DEF BytesOK, BytesAccounted, Settled
<1>13. CASE UNCHANGED vars
  BY <1>13, QuietBytes DEF vars
<1> QED BY <1>1, <1>2, <1>3, <1>5, <1>6, <1>7, <1>8, <1>9, <1>10, <1>11, <1>12, <1>13
        DEF Next, Step, Crash, PowerLoss

\* TotalBytes is the sum of the lengths of the chunk files whenever no writer is mid-way,
\* deletes of files that a power loss has cut short included, plus the bytes of the files
\* that puts have replaced because os.Stat failed on them (store.go:65).
THEOREM ByteCountAccounted == Spec => []BytesAccounted
<1>1. Init => BytesOK
  <2> SUFFICES ASSUME Init PROVE BytesOK
    OBVIOUS
  <2>1. Stored = {}
    BY DEF Init, Stored
  <2>2. Bytes = 0
    BY <2>1, BytesAre, SumEmpty
  <2> QED BY <2>2 DEF Init, BytesOK, BytesAccounted, Settled, Nothing
<1>2. BytesOK => BytesAccounted
  BY DEF BytesOK, BytesAccounted, Settled
<1> QED BY <1>1, <1>2, BytesStep, InvariantHolds, PTL DEF Spec

(* The refinement of ContentStore. *)

LEMMA PendingSame ==
  ASSUME TypeLock, req' = req,
         \A t \in Threads :
           (pc[t] = "idle" <=> pc'[t] = "idle") /\ (pc[t] = "counting" <=> pc'[t] = "counting")
  PROVE  UNCHANGED Pending
BY DEF Pending

LEMMA PendingReturn ==
  ASSUME TypeLock, NEW t \in Threads, pc[t] # "idle", NEW a,
         UnlockAndReturn(t, a) \/ RUnlockAndReturn(t, a)
  PROVE  /\ Pending' = [Pending EXCEPT ![t] = None]
         /\ answer' = [to |-> t, req |-> req[t], says |-> a]
         /\ Pending[t].req = req[t]
         /\ Pending[t].stage = IF pc[t] = "counting" THEN "done" ELSE "asked"
         /\ Pending[t] # None
<1> DEFINE stage == IF pc[t] = "counting" THEN "done" ELSE "asked"
<1>1. Pending[t] = [req |-> req[t], stage |-> stage]
  BY DEF Pending
<1>2. /\ req' = [req EXCEPT ![t] = None] /\ pc'[t] = "idle"
      /\ \A u \in Threads \ {t} : /\ pc[u] = "idle" <=> pc'[u] = "idle"
                                  /\ pc[u] = "counting" <=> pc'[u] = "counting"
  BY DEF UnlockAndReturn, RUnlockAndReturn, TypeLock, TypeOK
<1>3. Pending' = [Pending EXCEPT ![t] = None]
  BY <1>2 DEF Pending, TypeLock, TypeOK
<1>4. Pending[t] # None
  <2>1. Pending[t] \in [req : S!Requests, stage : S!Stages]
    BY <1>1 DEF TypeLock, TypeOK, LockOK, S!Stages
  <2> QED BY <2>1, ConstantsAssumption
<1> QED BY <1>1, <1>3, <1>4 DEF UnlockAndReturn, RUnlockAndReturn

LEMMA PendingDone ==
  ASSUME TypeLock, NEW t \in Threads, Inside(t), pc[t] # "counting",
         pc' = [pc EXCEPT ![t] = "counting"], UNCHANGED req
  PROVE  /\ Pending' = [Pending EXCEPT ![t].stage = "done"]
         /\ Pending[t].req = req[t]
         /\ Pending[t].stage = "asked"
         /\ Pending[t] # None
<1>1. Pending[t] = [req |-> req[t], stage |-> "asked"]
  BY DEF Pending, Inside
<1>2. Pending'[t] = [req |-> req[t], stage |-> "done"]
  BY DEF Pending, TypeLock, TypeOK
<1>3. \A u \in Threads \ {t} : Pending'[u] = Pending[u]
  BY DEF Pending, TypeLock, TypeOK
<1>4. Pending' = [Pending EXCEPT ![t].stage = "done"]
  <2> DEFINE record == [req |-> req[t], stage |-> "asked"]
  <2>1. [record EXCEPT !.stage = "done"] = [req |-> req[t], stage |-> "done"]
    OBVIOUS
  <2>3. [Pending EXCEPT ![t].stage = "done"] = [Pending EXCEPT ![t] = Pending'[t]]
    BY <1>1, <1>2, <2>1, Zenon
  <2>2. Pending \in [Threads -> {Pending[u] : u \in Threads}] /\ Pending' = [u \in Threads |-> Pending'[u]]
    BY DEF Pending
  <2> QED BY <1>3, <2>2, <2>3
<1>5. Pending[t] # None
  <2>1. Pending[t] \in [req : S!Requests, stage : S!Stages]
    BY <1>1 DEF TypeLock, TypeOK, LockOK, S!Stages, Inside
  <2> QED BY <2>1, ConstantsAssumption
<1> QED BY <1>1, <1>4, <1>5

\* A step that returns answer a and changes neither the files nor counted.
LEMMA AnswerStep ==
  ASSUME TypeLock, NEW t \in Threads, pc[t] # "idle", NEW a \in S!Answers,
         UnlockAndReturn(t, a) \/ RUnlockAndReturn(t, a),
         S!Truthful(req[t], IF pc[t] = "counting" THEN "done" ELSE "asked", a),
         UNCHANGED <<file, damaged, replaced, counted>>
  PROVE  S!Answer(t)
<1>1. UNCHANGED Stored
  BY DEF Stored
<1> QED BY <1>1, PendingReturn DEF S!Answer

LEMMA InitRefines == Init => S!Init
<1> SUFFICES ASSUME Init PROVE S!Init
  OBVIOUS
<1>1. Stored = {} /\ Pending = [t \in Threads |-> None]
  BY DEF Init, Stored, Pending
<1> QED BY <1>1 DEF Init, S!Init, Nothing

LEMMA StepRefines == IInv /\ [Next]_vars => [S!Next]_(S!vars)
<1> SUFFICES ASSUME IInv, [Next]_vars PROVE [S!Next]_(S!vars)
  OBVIOUS
<1> USE DEF IInv
<1>1. ASSUME NEW t \in Threads, Lock(t) \/ Drained(t) \/ RLock(t) PROVE S!Work
  <2>1. UNCHANGED Pending
    BY <1>1, PendingSame DEF Lock, Drained, RLock, TypeLock, TypeOK
  <2> QED BY <1>1, <2>1 DEF Lock, Drained, RLock, S!Work, Stored, disk
<1>2. ASSUME NEW t \in Threads, NEW r \in S!Requests, Call(t, r) PROVE S!Ask(t, r)
  <2>1. Pending[t] = None /\ Pending' = [Pending EXCEPT ![t] = [req |-> r, stage |-> "asked"]]
    BY <1>2 DEF Call, Pending, TypeLock, TypeOK
  <2> QED BY <1>2, <2>1 DEF Call, S!Ask, Stored, disk
<1>3. ASSUME NEW t \in Threads, NEW r \in S!Malformed, Reject(t, r) PROVE S!Refuse(t, r)
  <2>1. UNCHANGED Pending /\ Pending[t] = None
    BY <1>3 DEF Reject, Pending
  <2> QED BY <1>3, <2>1 DEF Reject, S!Refuse, Stored, disk, Plain
<1>4. ASSUME NEW t \in Threads, PutExists(t) PROVE S!Answer(t)
  <2>1. /\ pc[t] = "locked" /\ req[t].op = "put" /\ req[t].chunk \in Stored
        /\ Plain("ok") \in S!Answers
    BY <1>4, WriterChunk, PlainIsAnswer DEF PutExists, InPut, Inside, Stored, S!Kinds
  <2> QED BY <1>4, <2>1, AnswerStep DEF PutExists, disk, S!Truthful, Plain
<1>5. ASSUME NEW t \in Threads, PutCreate(t) \/ PutWrite(t) PROVE S!Work
  <2>1. UNCHANGED Pending
    BY <1>5, PendingSame DEF PutCreate, PutWrite, InPut, TypeLock, TypeOK
  <2> QED BY <1>5, <2>1 DEF PutCreate, PutWrite, S!Work, Stored
<1>6. ASSUME NEW t \in Threads, PutRename(t) PROVE S!Add(t)
  <2>1. /\ req[t].op = "put" /\ pc[t] = "writing"
        /\ Stored' = Stored \cup {req[t].chunk} /\ damaged' = damaged \ {req[t].chunk}
        /\ replaced'.chunks = IF req[t].chunk \in Stored THEN replaced.chunks + 1
                              ELSE replaced.chunks
    BY <1>6, RenameEffect
  <2> QED BY <1>6, <2>1, PendingDone DEF PutRename, Inside, S!Add
<1>7. ASSUME NEW t \in Threads, PutCount(t) PROVE S!Answer(t)
  <2>1. /\ pc[t] = "counting" /\ req[t].op = "put" /\ req[t].chunk \in Stored
        /\ Plain("ok") \in S!Answers
    BY <1>7, PlainIsAnswer DEF PutCount, InPut, FilesOK, S!Kinds
  <2> QED BY <1>7, <2>1, AnswerStep DEF PutCount, disk, S!Truthful, Plain
<1>8. ASSUME NEW t \in Threads, PutWriteFails(t) \/ PutRenameFails(t) \/ DeleteFails(t)
      PROVE  S!Answer(t)
  <2>1. pc[t] \in {"locked", "writing"} /\ Plain("failed") \in S!Answers
    BY <1>8, PlainIsAnswer DEF PutWriteFails, PutRenameFails, DeleteFails, InPut, InDelete, S!Kinds
  <2> QED BY <1>8, <2>1, AnswerStep
          DEF PutWriteFails, PutRenameFails, DeleteFails, disk, S!Truthful, Plain
<1>9. ASSUME NEW t \in Threads, DeleteMissing(t) PROVE S!Answer(t)
  <2>1. /\ pc[t] = "locked" /\ req[t].op = "delete" /\ req[t].chunk \notin Stored
        /\ Plain("missing") \in S!Answers
    BY <1>9, PlainIsAnswer DEF DeleteMissing, InDelete, Stored, S!Kinds
  <2> QED BY <1>9, <2>1, AnswerStep DEF DeleteMissing, disk, S!Truthful, Plain
<1>10. ASSUME NEW t \in Threads, DeleteRemove(t) PROVE S!Remove(t)
  <2> DEFINE c == req[t].chunk
  <2>1. c \in Stored /\ req[t].op = "delete" /\ pc[t] = "locked"
    BY <1>10, WriterChunk DEF DeleteRemove, InDelete, Inside, Stored
  <2>2. Stored' = Stored \ {c}
    BY <1>10, <2>1 DEF DeleteRemove, Stored, NoFile, TypeLock, TypeOK
  <2> QED BY <1>10, <2>1, <2>2, PendingDone DEF DeleteRemove, Inside, S!Remove
<1>11. ASSUME NEW t \in Threads, DeleteCount(t) PROVE S!Answer(t)
  <2>1. /\ pc[t] = "counting" /\ req[t].op = "delete" /\ req[t].chunk \notin Stored
        /\ Plain("ok") \in S!Answers
    BY <1>11, PlainIsAnswer DEF DeleteCount, InDelete, FilesOK, S!Kinds
  <2> QED BY <1>11, <2>1, AnswerStep DEF DeleteCount, disk, S!Truthful, Plain
<1>12. ASSUME NEW t \in Threads, Read(t) \/ ReadFails(t)
       PROVE  /\ pc[t] = "reading" /\ req[t] \in S!Requests
              /\ req[t].op \in {"get", "has", "stats", "list"}
              /\ counted => stats.chunks = Cardinality(Stored) + replaced.chunks
  <2>1. pc[t] = "reading" /\ req[t] \in S!Requests /\ ~IsWrite(t) /\ up
    BY <1>12 DEF Read, ReadFails, TypeLock, TypeOK, LockOK
  <2>2. req[t].op \in {"get", "has", "stats", "list"}
    BY <2>1, RequestFields DEF IsWrite, WriteOps
  <2>3. \A u \in Threads : pc[u] # "counting"
    BY <2>1 DEF TypeLock, LockOK, Inside
  <2> QED BY <2>1, <2>2, <2>3 DEF CountOK, CountAccounted, Settled
<1>13. ASSUME NEW t \in Threads, Read(t) PROVE S!Answer(t)
  <2> DEFINE a == ReadResult(req[t])
  <2>1. pc[t] = "reading" /\ a \in S!Answers
    BY <1>12, <1>13, ReadResultIsAnswer DEF TypeLock
  <2>2. S!Truthful(req[t], "asked", a)
    <3>1. CASE req[t].op = "get"
      <4>1. req[t].chunk \in Chunks
        BY <1>12, <1>13, <3>1, RequestFields
      <4>2. CASE req[t].chunk \notin Stored
        BY <3>1, <4>1, <4>2 DEF ReadResult, S!Truthful, Plain, Stored
      <4>3. CASE req[t].chunk \in Stored /\ Intact(req[t].chunk)
        <5>1. req[t].chunk \notin damaged
          BY <4>1, <4>3, ConstantsAssumption DEF FilesOK, Intact
        <5> QED BY <3>1, <4>1, <4>3, <5>1 DEF ReadResult, S!Truthful, Plain, Stored
      <4>4. CASE req[t].chunk \in Stored /\ ~Intact(req[t].chunk)
        <5>1. req[t].chunk \in damaged
          BY <4>1, <4>4 DEF FilesOK, FinalIntact
        <5> QED BY <3>1, <4>1, <4>4, <5>1 DEF ReadResult, S!Truthful, Plain, Stored
      <4> QED BY <4>2, <4>3, <4>4
    <3>2. CASE req[t].op = "has"
      <4>1. req[t].chunk \in Chunks
        BY <1>12, <1>13, <3>2, RequestFields
      <4> QED BY <3>2, <4>1 DEF ReadResult, S!Truthful, Plain, Stored
    <3>3. CASE req[t].op = "stats"
      <4>1. a.kind = "stats" /\ a.count = stats.chunks
        BY <3>3 DEF ReadResult
      <4>2. S!Cardinality(Stored) = Cardinality(Stored)
        BY DEF S!Cardinality, Cardinality
      <4>3. counted => a.count = S!Cardinality(Stored) + replaced.chunks
        BY <1>12, <1>13, <4>1, <4>2
      <4> HIDE DEF a
      <4> QED BY <3>3, <4>1, <4>3 DEF S!Truthful
    <3>4. CASE req[t].op = "list"
      BY <3>4 DEF ReadResult, S!Truthful
    <3> QED BY <1>12, <1>13, <3>1, <3>2, <3>3, <3>4
  <2> QED BY <1>13, <2>1, <2>2, AnswerStep DEF Read, disk
<1>14. ASSUME NEW t \in Threads, ReadFails(t) PROVE S!Answer(t)
  <2>1. CASE req[t].op = "has"
    <3>1. Plain("no") \in S!Answers
      BY PlainIsAnswer DEF S!Kinds
    <3> QED BY <1>12, <1>14, <2>1, <3>1, AnswerStep DEF ReadFails, disk, S!Truthful, Plain
  <2>2. CASE req[t].op # "has"
    <3>1. Plain("failed") \in S!Answers
      BY PlainIsAnswer DEF S!Kinds
    <3> QED BY <1>12, <1>14, <2>2, <3>1, AnswerStep DEF ReadFails, disk, S!Truthful, Plain
  <2> QED BY <2>1, <2>2
<1>15. ASSUME NEW lost, Die(lost),
              \A c \in Chunks : lost[c] = file[c] \/ (c \in Stored /\ lost[c] \in 0..file[c]-1)
       PROVE  S!Stop
  <2>1. Stored' = Stored
    BY <1>15 DEF Die, Stored, NoFile, TypeLock, TypeOK
  <2>2. Pending' = [t \in Threads |-> None]
    BY <1>15 DEF Die, Pending
  <2>3. \E cut \in SUBSET Stored : damaged' = damaged \cup cut
    <3>1. {c \in Chunks : lost[c] # file[c]} \in SUBSET Stored
      BY <1>15
    <3> QED BY <1>15, <3>1 DEF Die
  <2> QED BY <1>15, <2>1, <2>2, <2>3 DEF Die, S!Stop, Nothing
<1>16. ASSUME Crash \/ PowerLoss PROVE S!Stop
  BY <1>15, <1>16 DEF Crash, PowerLoss, Stored
<1>17. ASSUME Open PROVE S!Open
  <2>1. UNCHANGED Stored /\ UNCHANGED Pending /\ counted' \in BOOLEAN
    BY <1>17 DEF Open, Stored, Pending, disk
  <2> QED BY <1>17, <2>1 DEF Open, S!Open, disk
<1>18. CASE UNCHANGED vars
  BY <1>18 DEF vars, S!vars, Stored, Pending
<1>19. Workload \ S!Malformed \subseteq S!Requests
  BY ConstantsAssumption
<1> QED BY <1>1, <1>2, <1>3, <1>4, <1>5, <1>6, <1>7, <1>8, <1>9, <1>10, <1>11, <1>13, <1>14,
           <1>16, <1>17, <1>18, <1>19 DEF Next, Step, S!Next

\* store.go keeps the promise of ContentStore: every history of its disk and lock
\* steps is a history of a set of chunks that changes only for a pending call.
THEOREM Implementation == Spec => ImplementsContentStore
<1>1. Init => S!Init
  BY InitRefines
<1>2. IInv /\ [Next]_vars => [S!Next]_(S!vars)
  BY StepRefines
<1> QED BY <1>1, <1>2, InvariantHolds, PTL DEF Spec, S!Spec, ImplementsContentStore
=============================================================================
