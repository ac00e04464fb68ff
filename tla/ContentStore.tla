----------------------------- MODULE ContentStore -----------------------------
(***************************************************************************)
(* What internal/storage/store.go promises its callers, with no files, no  *)
(* locks and no steps: a set of chunks named by their hash.                *)
(*                                                                         *)
(*   - a chunk appears only for a pending put of it and disappears only    *)
(*     for a pending delete of it, once per successful delete;             *)
(*   - every answer is true at the moment it is given, but for the count:  *)
(*     it includes the chunks that were stored again while they were held; *)
(*   - a restart forgets the requests in progress and nothing else.        *)
(*                                                                         *)
(* A chunk stands for its own SHA-256 hash: two different chunks never     *)
(* share one.  ChunkStore.tla is shown to implement this module.           *)
(***************************************************************************)
EXTENDS Integers, FiniteSets

CONSTANTS
  Chunks,     \* the non-empty byte strings clients store
  Threads,    \* request goroutines of one process
  None        \* no request, no answer, no lock holder

ChunkOps == {"put", "get", "has", "delete"}
Requests == [op : ChunkOps, chunk : Chunks] \cup [op : {"stats", "list"}]

\* Whether a put or a delete has taken effect yet.
Stages == {"asked", "done"}

\* An empty body to put, or a hash that is not 32 bytes long.
Malformed == [op : ChunkOps, chunk : {None}]

Kinds   == {"ok", "data", "yes", "no", "missing", "corrupt", "failed"}
Answers == [kind : Kinds] \cup [kind : {"stats"}, count : Int]
             \cup [kind : {"list"}, seen : SUBSET Chunks]

VARIABLES
  held,       \* the chunks the store has
  damaged,    \* those of them whose bytes a power loss cut short
  counted,    \* FALSE when the count taken as the store opened failed
  extra,      \* the puts since the start that stored a chunk held already
  pending,    \* per thread: its request, and whether it has taken effect
  answer      \* the answer given by the last step, or None

vars == <<held, damaged, counted, extra, pending, answer>>

TypeOK ==
  /\ held \subseteq Chunks
  /\ damaged \subseteq held
  /\ counted \in BOOLEAN
  /\ extra \in Nat
  /\ pending \in [Threads -> [req : Requests, stage : Stages] \cup {None}]
  /\ answer \in [to : Threads, req : Requests \cup Malformed, says : Answers] \cup {None}

Init ==
  /\ held = {} /\ damaged = {}
  /\ counted = TRUE /\ extra = 0
  /\ pending = [t \in Threads |-> None]
  /\ answer = None

Ask(t, r) ==
  /\ pending[t] = None
  /\ pending' = [pending EXCEPT ![t] = [req |-> r, stage |-> "asked"]]
  /\ answer' = None
  /\ UNCHANGED <<held, damaged, counted, extra>>

\* A malformed call is turned away at once.
Refuse(t, r) ==
  /\ pending[t] = None
  /\ answer' = [to |-> t, req |-> r,
                says |-> [kind |-> IF r.op = "has" THEN "no" ELSE "failed"]]
  /\ UNCHANGED <<held, damaged, counted, extra, pending>>

\* The moment a put takes effect: the chunk is whole, and counted once more.
Add(t) ==
  /\ pending[t] # None /\ pending[t].req.op = "put" /\ pending[t].stage = "asked"
  /\ held' = held \cup {pending[t].req.chunk}
  /\ damaged' = damaged \ {pending[t].req.chunk}
  /\ extra' = IF pending[t].req.chunk \in held THEN extra + 1 ELSE extra
  /\ pending' = [pending EXCEPT ![t].stage = "done"]
  /\ answer' = None
  /\ UNCHANGED counted

\* The moment a delete takes effect.
Remove(t) ==
  /\ pending[t] # None /\ pending[t].req.op = "delete" /\ pending[t].stage = "asked"
  /\ pending[t].req.chunk \in held
  /\ held' = held \ {pending[t].req.chunk}
  /\ damaged' = damaged \ {pending[t].req.chunk}
  /\ pending' = [pending EXCEPT ![t].stage = "done"]
  /\ answer' = None
  /\ UNCHANGED <<counted, extra>>

\* What an answer says of the store at the moment it is given.
Truthful(r, stage, a) ==
  CASE a.kind = "ok"      -> \/ r.op = "put" /\ r.chunk \in held
                             \/ r.op = "delete" /\ stage = "done" /\ r.chunk \notin held
    [] a.kind = "missing" -> r.op \in {"get", "delete"} /\ stage = "asked" /\ r.chunk \notin held
    [] a.kind = "data"    -> r.op = "get" /\ r.chunk \in held \ damaged
    [] a.kind = "corrupt" -> r.op = "get" /\ r.chunk \in damaged
    [] a.kind = "yes"     -> r.op = "has" /\ r.chunk \in held
    [] a.kind = "no"      -> r.op = "has"
    [] a.kind = "stats"   -> r.op = "stats" /\ (counted => a.count = Cardinality(held) + extra)
    [] a.kind = "list"    -> r.op = "list" /\ a.seen = held
    [] a.kind = "failed"  -> stage = "asked"

Answer(t) ==
  /\ pending[t] # None
  /\ answer' \in [to : {t}, req : {pending[t].req}, says : Answers]
  /\ Truthful(pending[t].req, pending[t].stage, answer'.says)
  /\ pending' = [pending EXCEPT ![t] = None]
  /\ UNCHANGED <<held, damaged, counted, extra>>

\* Work inside the store that its callers do not see; the answer gets older.
Work ==
  /\ answer' = None
  /\ UNCHANGED <<held, damaged, counted, extra, pending>>

\* The process dies; a power loss may also cut chunks short.
Stop ==
  /\ pending' = [t \in Threads |-> None]
  /\ answer' = None
  /\ \E lost \in SUBSET held : damaged' = damaged \cup lost
  /\ extra' = 0
  /\ UNCHANGED <<held, counted>>

Open ==
  /\ counted' \in BOOLEAN
  /\ answer' = None
  /\ UNCHANGED <<held, damaged, extra, pending>>

Next ==
  \/ \E t \in Threads :
       \/ \E r \in Requests : Ask(t, r)
       \/ \E r \in Malformed : Refuse(t, r)
       \/ Add(t) \/ Remove(t) \/ Answer(t)
  \/ Work
  \/ Stop
  \/ Open

Spec == Init /\ [][Next]_vars
===============================================================================
