---------------------------- MODULE ContentNetwork ----------------------------
(***************************************************************************)
(* Chunks over a cluster: the HTTP handlers of internal/api/server.go, the *)
(* provider records of internal/dht/node.go and the RPCs between nodes     *)
(* (internal/dht/rpc.go).  Each node runs any number of tasks at a time: a  *)
(* handler, and the goroutine that announces the chunk once the handler    *)
(* has answered.  A task makes its calls one after another.                *)
(*                                                                         *)
(* A call of the chunk store is one step, as ChunkStore.tla implements     *)
(* ContentStore.tla.  The cluster is not larger than dht.k, so that no     *)
(* bucket refuses a node and ClosestK returns every contact.  Providers    *)
(* and peers are asked in any order; the code has the order of a list.     *)
(***************************************************************************)
EXTENDS Integers, Sequences, FiniteSets, Functions

CONSTANTS
  Nodes,
  Hashes,        \* the chunks, one hash each
  Tasks,         \* bound: the tasks that run at the same time
  Ops,           \* the requests clients make: some of "POST", "GET", "DELETE"
  Bootstraps,    \* Bootstraps[n]: dht.bootstrap_nodes of n
  Advertising,   \* the nodes with node.advertise_host set
  Faults,        \* what may fail: some of "call", "late", "disk", "crash"
  MaxLate,       \* bound: the calls that are late at the same time
  None

ASSUME ConstantsAssumption ==
  /\ Bootstraps \in [Nodes -> Seq(Nodes)]
  /\ Advertising \subseteq Nodes
  /\ MaxLate \in Nat
  /\ None \notin Nodes \cup Hashes

VARIABLES
  up,        \* the nodes that run
  held,      \* held[n]: the chunks in n's store; they survive a crash
  joining,   \* joining[n]: the bootstrap nodes that n has yet to try
  contacts,  \* contacts[n]: the nodes in n's routing table
  records,   \* records[n][h]: the providers of h that n knows
  task,
  late       \* calls given up by their caller, which the callee may still serve

vars == <<up, held, joining, contacts, records, task, late>>

Idle == [at |-> "idle", op |-> None, node |-> None, hash |-> None,
         ask |-> {}, found |-> {}, stored |-> FALSE]

Phases == {"announcing", "replicating", "fallback", "finding", "fetching", "caching", "spreading"}

Messages == [type : {"ping", "store", "find", "delete"},
             from : Nodes, to : Nodes, hash : Hashes \cup {None}]

Init ==
  /\ up = Nodes
  /\ held = [n \in Nodes |-> {}]
  /\ joining = Bootstraps
  /\ contacts = [n \in Nodes |-> {}]
  /\ records = [n \in Nodes |-> [h \in Hashes |-> {}]]
  /\ task = [t \in Tasks |-> Idle]
  /\ late = {}
-------------------------------------------------------------------------------
(* A call from one node to another. *)

Message(type, t, p) ==
  [type |-> type, from |-> task[t].node, to |-> p, hash |-> task[t].hash]

\* handleConnection: the sender of an RPC enters the routing table.
Meet(m) == contacts' = [contacts EXCEPT ![m.to] = @ \cup {m.from}]

\* storeProviderLocal: one record for each provider.
Record(n, h, p) == records' = [records EXCEPT ![n][h] = @ \cup {p}]

Put(n, h) == held' = [held EXCEPT ![n] = @ \cup {h}]

\* A failed DeleteChunk goes unnoticed by both handlers.
Remove(n, h) ==
  \/ held' = [held EXCEPT ![n] = @ \ {h}]
  \/ "disk" \in Faults /\ UNCHANGED held

Serve(m) ==
  \/ m.type \in {"ping", "find"} /\ Meet(m) /\ UNCHANGED <<records, held>>
  \/ m.type = "store" /\ Meet(m) /\ Record(m.to, m.hash, m.from) /\ UNCHANGED held
  \/ m.type = "delete" /\ Remove(m.to, m.hash) /\ UNCHANGED <<contacts, records>>

\* Mutation of Unanswered: a call to a node that is down waits for it to come back.
UnansweredWaits(m) ==
  /\ UNCHANGED <<contacts, records, held>>
  /\ \/ (m.to \notin up \/ "call" \in Faults) /\ UNCHANGED late
     \/ "late" \in Faults /\ m \notin late /\ Cardinality(late) < MaxLate
        /\ late' = late \cup {m}

\* SendMessage and client.Do without an answer within their timeouts: the callee is
\* down, the call was lost, or it is served after its caller has gone on.
Unanswered(m) ==
  /\ UNCHANGED <<contacts, records, held>>
  /\ \/ (m.to \notin up \/ "call" \in Faults) /\ UNCHANGED late
     \/ "late" \in Faults /\ m.to \in up /\ m \notin late /\ Cardinality(late) < MaxLate
        /\ late' = late \cup {m}

Answered(m) == m.to \in up /\ Serve(m) /\ UNCHANGED late

Arrive(m) ==
  /\ m.to \in up
  /\ Serve(m)
  /\ late' = late \ {m}
  /\ UNCHANGED <<up, joining, task>>

Goto(t, next) == task' = [task EXCEPT ![t] = next]
-------------------------------------------------------------------------------
(* bootstrap: one node after another until one answers a ping.  The self-lookup *)
(* that follows asks nobody (RoutingTable.tla, SelfLookupFindsPeers).           *)
Bootstrap(n) ==
  LET b == Head(joining[n])
      m == [type |-> "ping", from |-> n, to |-> b, hash |-> None]
      Rest(s) == joining' = [joining EXCEPT ![n] = s]
  IN
  /\ n \in up
  /\ joining[n] # <<>>
  /\ UNCHANGED <<up, held, records, task>>
  /\ \/ b = n /\ Rest(Tail(joining[n])) /\ UNCHANGED <<contacts, late>>
     \/ b # n /\ Unanswered(m) /\ Rest(Tail(joining[n]))
     \/ /\ b # n /\ b \in up
        /\ contacts' = [contacts EXCEPT ![n] = @ \cup {b}, ![b] = @ \cup {n}]
        /\ Rest(<<>>)
        /\ UNCHANGED late
-------------------------------------------------------------------------------
(* StoreProvider: the announcement, in the background. *)

Announce(t) ==
  LET k == task[t] IN
  /\ k.at = "announcing"
  /\ Record(k.node, k.hash, k.node)
  /\ Goto(t, [k EXCEPT !.at = "replicating", !.ask = contacts[k.node] \ {k.node}])
  /\ UNCHANGED <<up, held, joining, contacts, late>>

\* Mutation of Replicate: a call without an answer is tried again.
ReplicateAgain(t, p) ==
  LET k == task[t]
      m == Message("store", t, p)
  IN
  /\ k.at \in {"replicating", "fallback"} /\ p \in k.ask
  /\ \/ Answered(m) /\ Goto(t, [k EXCEPT !.ask = @ \ {p}, !.stored = TRUE])
     \/ Unanswered(m) /\ UNCHANGED task
  /\ UNCHANGED <<up, joining>>

Replicate(t, p) ==
  LET k == task[t]
      m == Message("store", t, p)
  IN
  /\ k.at \in {"replicating", "fallback"} /\ p \in k.ask
  /\ \/ Answered(m) /\ Goto(t, [k EXCEPT !.ask = @ \ {p}, !.stored = TRUE])
     \/ Unanswered(m) /\ Goto(t, [k EXCEPT !.ask = @ \ {p}])
  /\ UNCHANGED <<up, joining>>

\* Mutation of Replicated: no fallback.
ReplicatedEnds(t) ==
  /\ task[t].at \in {"replicating", "fallback"} /\ task[t].ask = {}
  /\ Goto(t, Idle)
  /\ UNCHANGED <<up, held, joining, contacts, records, late>>

\* When no peer has answered, every bootstrap node is tried.
Replicated(t) ==
  LET k == task[t] IN
  /\ k.at \in {"replicating", "fallback"} /\ k.ask = {}
  /\ \/ /\ k.at = "replicating" /\ ~k.stored
        /\ Goto(t, [k EXCEPT !.at = "fallback", !.ask = Range(Bootstraps[k.node]) \ {k.node}])
     \/ (k.at = "fallback" \/ k.stored) /\ Goto(t, Idle)
  /\ UNCHANGED <<up, held, joining, contacts, records, late>>
-------------------------------------------------------------------------------
(* FindProviders, for a GET or a DELETE: the own records, then each contact's. *)

Finding(op, n, h) ==
  [Idle EXCEPT !.at = "finding", !.op = op, !.node = n, !.hash = h,
               !.ask = contacts[n] \ {n}, !.found = records[n][h]]

\* Mutation of AskProviders: the providers named are asked too, also those asked before.
AskProvidersOnward(t, p) ==
  LET k == task[t]
      m == Message("find", t, p)
  IN
  /\ k.at = "finding" /\ p \in k.ask
  /\ \/ /\ Answered(m)
        /\ Goto(t, [k EXCEPT !.ask = (@ \ {p}) \cup (records[p][k.hash] \ {k.node}),
                             !.found = @ \cup records[p][k.hash]])
     \/ Unanswered(m) /\ Goto(t, [k EXCEPT !.ask = @ \ {p}])
  /\ UNCHANGED <<up, joining>>

AskProviders(t, p) ==
  LET k == task[t]
      m == Message("find", t, p)
  IN
  /\ k.at = "finding" /\ p \in k.ask
  /\ \/ /\ Answered(m)
        /\ Goto(t, [k EXCEPT !.ask = @ \ {p}, !.found = @ \cup records[p][k.hash]])
     \/ Unanswered(m) /\ Goto(t, [k EXCEPT !.ask = @ \ {p}])
  /\ UNCHANGED <<up, joining>>

\* A GET tries the node itself too, if it is on record; a DELETE does not.
Found(t) ==
  LET k == task[t] IN
  /\ k.at = "finding" /\ k.ask = {}
  /\ \/ k.op = "GET"    /\ Goto(t, [k EXCEPT !.at = "fetching", !.ask = k.found, !.found = {}])
     \/ k.op = "DELETE" /\ Goto(t, [k EXCEPT !.at = "spreading", !.ask = k.found \ {k.node},
                                             !.found = {}])
  /\ UNCHANGED <<up, held, joining, contacts, records, late>>
-------------------------------------------------------------------------------
(* handlePostChunk: PutChunk, the answer, and an announcement in the background. *)

\* Mutation of Post: announced although PutChunk failed.
PostUnchecked(t, n, h) ==
  /\ "POST" \in Ops /\ n \in up /\ task[t] = Idle
  /\ Put(n, h) \/ ("disk" \in Faults /\ UNCHANGED held)
  /\ Goto(t, [Idle EXCEPT !.at = "announcing", !.op = "POST", !.node = n, !.hash = h])
  /\ UNCHANGED <<up, joining, contacts, records, late>>

\* One whose PutChunk fails changes nothing.
Post(t, n, h) ==
  /\ "POST" \in Ops /\ n \in up /\ task[t] = Idle
  /\ Put(n, h)
  /\ Goto(t, [Idle EXCEPT !.at = "announcing", !.op = "POST", !.node = n, !.hash = h])
  /\ UNCHANGED <<up, joining, contacts, records, late>>
-------------------------------------------------------------------------------
(* handleGetChunk with remote=1; one read from the own store changes nothing. *)

Get(t, n, h) ==
  /\ "GET" \in Ops /\ n \in up /\ task[t] = Idle
  /\ h \notin held[n] \/ "disk" \in Faults
  /\ Goto(t, Finding("GET", n, h))
  /\ UNCHANGED <<up, held, joining, contacts, records, late>>

\* fetchChunkFromHTTP: GET of the chunk from p's own store.
Fetch(t, p) ==
  LET k == task[t]
      Has == p \in up /\ k.hash \in held[p]
  IN
  /\ k.at = "fetching" /\ p \in k.ask
  /\ \/ Has /\ Goto(t, [k EXCEPT !.at = "caching", !.ask = {}])
     \/ (~Has \/ Faults \cap {"call", "late", "disk"} # {}) /\ Goto(t, [k EXCEPT !.ask = @ \ {p}])
  /\ UNCHANGED <<up, held, joining, contacts, records, late>>

\* No provider had it: 404.
NotFound(t) ==
  /\ task[t].at = "fetching" /\ task[t].ask = {}
  /\ Goto(t, Idle)
  /\ UNCHANGED <<up, held, joining, contacts, records, late>>

\* Mutation of Cache: cached without an announcement.
CacheSilently(t) ==
  /\ task[t].at = "caching"
  /\ Put(task[t].node, task[t].hash)
  /\ Goto(t, Idle)
  /\ UNCHANGED <<up, joining, contacts, records, late>>

\* Cached, the chunk is announced if peers can be told an HTTP address.
Cache(t) ==
  LET k == task[t] IN
  /\ k.at = "caching"
  /\ \/ k.node \in Advertising /\ Put(k.node, k.hash) /\ Goto(t, [k EXCEPT !.at = "announcing"])
     \/ k.node \notin Advertising /\ Put(k.node, k.hash) /\ Goto(t, Idle)
     \/ "disk" \in Faults /\ UNCHANGED held /\ Goto(t, Idle)
  /\ UNCHANGED <<up, joining, contacts, records, late>>
-------------------------------------------------------------------------------
(* handleDeleteChunk.  No provider record is ever removed. *)

Delete(t, n, h) ==
  /\ "DELETE" \in Ops /\ n \in up /\ task[t] = Idle
  /\ Remove(n, h)
  /\ task' = task \/ Goto(t, Finding("DELETE", n, h))   \* with and without global=1
  /\ UNCHANGED <<up, joining, contacts, records, late>>

\* DELETE with propagate=0 at a provider.
Spread(t, p) ==
  LET k == task[t]
      m == Message("delete", t, p)
  IN
  /\ k.at = "spreading" /\ p \in k.ask
  /\ Answered(m) \/ Unanswered(m)
  /\ Goto(t, [k EXCEPT !.ask = @ \ {p}])
  /\ UNCHANGED <<up, joining>>

Deleted(t) ==
  /\ task[t].at = "spreading" /\ task[t].ask = {}
  /\ Goto(t, Idle)
  /\ UNCHANGED <<up, held, joining, contacts, records, late>>
-------------------------------------------------------------------------------
\* A node stops: its contacts, its records, its handlers and goroutines are gone.
Crash(n) ==
  /\ "crash" \in Faults /\ n \in up
  /\ up' = up \ {n}
  /\ contacts' = [contacts EXCEPT ![n] = {}]
  /\ records' = [records EXCEPT ![n] = [h \in Hashes |-> {}]]
  /\ task' = [t \in Tasks |-> IF task[t].node = n THEN Idle ELSE task[t]]
  /\ late' = {m \in late : m.to # n}
  /\ UNCHANGED <<held, joining>>

\* main: NewChunkStore finds the old chunks and counts them; nothing announces them.
Restart(n) ==
  /\ n \notin up
  /\ up' = up \cup {n}
  /\ joining' = [joining EXCEPT ![n] = Bootstraps[n]]
  /\ UNCHANGED <<held, contacts, records, task, late>>

Request(t) == \E n \in Nodes, h \in Hashes : Post(t, n, h) \/ Get(t, n, h) \/ Delete(t, n, h)

Step(t) ==
  \/ Announce(t) \/ Replicated(t) \/ Found(t) \/ NotFound(t) \/ Cache(t) \/ Deleted(t)
  \/ \E p \in Nodes : Replicate(t, p) \/ AskProviders(t, p) \/ Fetch(t, p) \/ Spread(t, p)

Next ==
  \/ \E t \in Tasks : Request(t) \/ Step(t)
  \/ \E n \in Nodes : Bootstrap(n) \/ Crash(n) \/ Restart(n)
  \/ \E m \in late : Arrive(m)

Spec == Init /\ [][Next]_vars

\* Careful clients and operators: a request for a chunk begins when every node runs and
\* is past its bootstrap and no other request for that chunk is under way; a node is
\* stopped when all is quiet.
AtRest == late = {} /\ \A t \in Tasks : task[t] = Idle
Joined == \A n \in up : joining[n] = <<>>
OneAtATime ==
  /\ \A t \in Tasks : task[t] = Idle /\ task'[t] # Idle =>
       up = Nodes /\ Joined /\ \A u \in Tasks : task[u].hash # task'[t].hash
  /\ ~(up \subseteq up') => AtRest /\ Joined

SequentialSpec == Init /\ [][Next /\ OneAtATime]_vars

\* A running goroutine goes on: each of its calls ends by its own timeout.
FairSpec == Spec /\ \A t \in Tasks : WF_vars(Step(t))
-------------------------------------------------------------------------------
TypeOK ==
  /\ up \subseteq Nodes
  /\ held \in [Nodes -> SUBSET Hashes]
  /\ joining \in [Nodes -> Seq(Nodes)]
  /\ contacts \in [Nodes -> SUBSET Nodes]
  /\ records \in [Nodes -> [Hashes -> SUBSET Nodes]]
  /\ task \in [Tasks -> {Idle} \cup
       [at : Phases, op : {"POST", "GET", "DELETE"}, node : up, hash : Hashes,
        ask : SUBSET Nodes, found : SUBSET Nodes, stored : BOOLEAN]]
  /\ late \subseteq Messages
  /\ \A m \in late : m.to \in up

\* Where no chunk is deleted, a provider record is true wherever it is kept: the
\* provider stored the chunk before it told anyone, and a late call or a restart of
\* either side does not change that.
RecordsHonest ==
  \A n \in Nodes, h \in Hashes : \A p \in records[n][h] : h \in held[p]

\* Without faults, and whatever requests have run at the same time: once all is
\* quiet, each node past its bootstrap finds each holder of a chunk by asking its
\* contacts, so that a fetch finds a source and a global delete each copy.
HoldersFindable ==
  AtRest =>
    \A n, m \in Nodes : \A h \in held[n] :
      joining[m] = <<>> => \E q \in {m} \cup contacts[m] : n \in records[q][h]

\* No handler and no announcement waits forever, whichever calls go unanswered.
TasksEnd == \A t \in Tasks : task[t] # Idle ~> task[t] = Idle

\* How far a task has to go: each step takes it to a phase nearer to the end, or leaves
\* it one node less to ask, whether or not that node answered; nothing but the crash of
\* its node changes it otherwise, and that ends it.
Ahead == [idle |-> 0, fallback |-> 1, spreading |-> 1, replicating |-> 2, announcing |-> 3,
          caching |-> 4, fetching |-> 5, finding |-> 6]
Nearer(new, old) ==
  \/ Ahead[new.at] < Ahead[old.at]
  \/ new.at = old.at /\ new.ask \subseteq old.ask /\ new.ask # old.ask
TasksAdvance ==
  [][\A t \in Tasks : task[t] # Idle /\ (Step(t) \/ task'[t] # task[t]) =>
       Nearer(task'[t], task[t])]_vars

\* "Delete a single chunk everywhere" (README.md:96): when a global delete is about to
\* answer, no running node has the chunk.
DeletesEverywhere ==
  \A t \in Tasks : task[t].at = "spreading" /\ task[t].ask = {} =>
    \A n \in up : task[t].hash \notin held[n]
===============================================================================
