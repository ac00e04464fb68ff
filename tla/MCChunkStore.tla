---- MODULE MCChunkStore ----
(* ChunkStore for TLC: a chunk is one unit long, so that a write can stop    *)
(* before it and a power loss can take it.                                   *)
EXTENDS ChunkStore

CONSTANTS
  c1, c2,
  MaxReplaced   \* bound: the files that puts replace after one start of the process

MCSize == [c \in Chunks |-> 1]

\* The reads of c1 take the same steps as those of c2, and a malformed get or delete is
\* turned away as a malformed put is.
Calls == (S!Requests \ [op : {"get", "has"}, chunk : {c1}]) \cup [op : {"put", "has"}, chunk : {None}]

\* Puts replace so many files only, and none after a count that has failed.
Replacing(t) ==
  pc[t] = "locked" /\ pc'[t] = "writing" /\ file[req[t].chunk] # NoFile

BoundedSpec ==
  /\ Init
  /\ [][Next /\ \A t \in Threads : Replacing(t) => counted /\ replaced.chunks < MaxReplaced]_vars
  /\ Fairness
====
