------------------------- MODULE ContentNetworkProofs -------------------------
(***************************************************************************)
(* Proofs about ContentNetwork for every cluster, set of chunks, number of *)
(* tasks and choice of faults: its type invariant, that each step of a     *)
(* task brings it nearer to its end, and that where nothing is deleted     *)
(* every provider record is true; and, for every cluster that joins at one *)
(* node and has no faults, that every holder can be found and that a       *)
(* global delete reaches every copy.                                       *)
(***************************************************************************)
EXTENDS ContentNetwork, SequenceTheorems, TLAPS

Running ==
  [at : Phases, op : {"POST", "GET", "DELETE"}, node : up, hash : Hashes,
   ask : SUBSET Nodes, found : SUBSET Nodes, stored : BOOLEAN]

\* The parts of TypeOK that a call may change.
StoresOK ==
  /\ held \in [Nodes -> SUBSET Hashes]
  /\ contacts \in [Nodes -> SUBSET Nodes]
  /\ records \in [Nodes -> [Hashes -> SUBSET Nodes]]

LateOK == late \subseteq Messages /\ \A m \in late : m.to \in up

LEMMA RunningTask ==
  ASSUME TypeOK, NEW t \in Tasks, task[t].at # "idle"
  PROVE  task[t] \in Running
BY DEF TypeOK, Running, Idle

LEMMA RecordType ==
  ASSUME StoresOK, NEW n \in Nodes, NEW h, NEW p \in Nodes, Record(n, h, p)
  PROVE  records' \in [Nodes -> [Hashes -> SUBSET Nodes]]
<1>1. records[n] \in [Hashes -> SUBSET Nodes]
  BY DEF StoresOK
<1>2. [records[n] EXCEPT ![h] = @ \cup {p}] \in [Hashes -> SUBSET Nodes]
  BY <1>1
<1>3. records' = [records EXCEPT ![n] = [records[n] EXCEPT ![h] = @ \cup {p}]]
  BY DEF Record
<1> QED BY <1>2, <1>3 DEF StoresOK

LEMMA PutType ==
  ASSUME StoresOK, NEW n \in Nodes, NEW h \in Hashes, Put(n, h)
  PROVE  held' \in [Nodes -> SUBSET Hashes]
BY DEF Put, StoresOK

LEMMA ServeType ==
  ASSUME TypeOK, NEW m \in Messages, Serve(m)
  PROVE  StoresOK'
<1>1. m.to \in Nodes /\ m.from \in Nodes
  BY DEF Messages
<1>2. StoresOK
  BY DEF TypeOK, StoresOK
<1>3. ASSUME Meet(m) PROVE contacts' \in [Nodes -> SUBSET Nodes]
  BY <1>1, <1>2, <1>3 DEF Meet, StoresOK
<1>4. ASSUME Record(m.to, m.hash, m.from) PROVE records' \in [Nodes -> [Hashes -> SUBSET Nodes]]
  BY <1>1, <1>2, <1>4, RecordType
<1>5. ASSUME Remove(m.to, m.hash) PROVE held' \in [Nodes -> SUBSET Hashes]
  BY <1>1, <1>2, <1>5 DEF Remove, StoresOK
<1> QED BY <1>2, <1>3, <1>4, <1>5 DEF Serve, StoresOK

LEMMA AnsweredType ==
  ASSUME TypeOK, NEW m \in Messages, Answered(m), UNCHANGED up
  PROVE  StoresOK' /\ LateOK'
BY ServeType DEF TypeOK, LateOK, Answered

LEMMA UnansweredType ==
  ASSUME TypeOK, NEW m \in Messages, Unanswered(m), UNCHANGED up
  PROVE  StoresOK' /\ LateOK'
BY DEF TypeOK, StoresOK, LateOK, Unanswered

LEMMA MessageType ==
  ASSUME TypeOK, NEW t \in Tasks, task[t].at # "idle", NEW p \in Nodes,
         NEW type \in {"ping", "store", "find", "delete"}
  PROVE  Message(type, t, p) \in Messages
<1>1. task[t].node \in Nodes /\ task[t].hash \in Hashes
  BY RunningTask DEF Running, TypeOK
<1> QED BY <1>1 DEF Message, Messages

\* A task that goes on or ends keeps the tasks well-typed.
LEMMA GotoType ==
  ASSUME TypeOK, UNCHANGED up, NEW t \in Tasks, NEW next \in Running \cup {Idle}, Goto(t, next)
  PROVE  task' \in [Tasks -> {Idle} \cup Running']
BY DEF TypeOK, Goto, Running

LEMMA StepType ==
  ASSUME TypeOK, NEW t \in Tasks, Step(t)
  PROVE  TypeOK'
<1> DEFINE k == task[t]
<1>1. CASE Announce(t)
  <2>1. k \in Running
    BY <1>1, RunningTask DEF Announce
  <2>2. [k EXCEPT !.at = "replicating", !.ask = contacts[k.node] \ {k.node}] \in Running
    BY <2>1 DEF Running, TypeOK, Phases
  <2>3. task' \in [Tasks -> {Idle} \cup Running']
    BY <1>1, <2>2, GotoType DEF Announce
  <2>4. records' \in [Nodes -> [Hashes -> SUBSET Nodes]]
    BY <1>1, <2>1 DEF Announce, Record, TypeOK, Running
  <2> QED BY <1>1, <2>3, <2>4 DEF Announce, TypeOK, Running
<1>2. CASE Replicated(t)
  <2>1. k \in Running
    BY <1>2, RunningTask DEF Replicated
  <2>2. Range(Bootstraps[k.node]) \subseteq Nodes
    BY <2>1, ConstantsAssumption DEF Running, TypeOK, Range
  <2>3. [k EXCEPT !.at = "fallback", !.ask = Range(Bootstraps[k.node]) \ {k.node}] \in Running
    BY <2>1, <2>2 DEF Running, Phases
  <2>4. task' \in [Tasks -> {Idle} \cup Running']
    BY <1>2, <2>3, GotoType DEF Replicated
  <2> QED BY <1>2, <2>4 DEF Replicated, TypeOK, Running
<1>3. CASE Found(t)
  <2>1. k \in Running
    BY <1>3, RunningTask DEF Found
  <2>2. [k EXCEPT !.at = "fetching", !.ask = k.found, !.found = {}] \in Running
    BY <2>1 DEF Running, Phases
  <2>3. [k EXCEPT !.at = "spreading", !.ask = k.found \ {k.node}, !.found = {}] \in Running
    BY <2>1 DEF Running, Phases
  <2>4. task' \in [Tasks -> {Idle} \cup Running']
    BY <1>3, <2>2, <2>3, GotoType DEF Found
  <2> QED BY <1>3, <2>4 DEF Found, TypeOK, Running
<1>4. CASE NotFound(t) \/ Deleted(t)
  <2>1. task' \in [Tasks -> {Idle} \cup Running']
    BY <1>4, GotoType DEF NotFound, Deleted
  <2> QED BY <1>4, <2>1 DEF NotFound, Deleted, TypeOK, Running
<1>5. CASE Cache(t)
  <2>1. k \in Running
    BY <1>5, RunningTask DEF Cache
  <2>2. [k EXCEPT !.at = "announcing"] \in Running
    BY <2>1 DEF Running, Phases
  <2>3. task' \in [Tasks -> {Idle} \cup Running']
    BY <1>5, <2>2, GotoType DEF Cache
  <2>4. held' \in [Nodes -> SUBSET Hashes]
    <3>1. k.node \in Nodes /\ k.hash \in Hashes
      BY <2>1 DEF Running, TypeOK
    <3>2. Put(k.node, k.hash) \/ UNCHANGED held
      BY <1>5 DEF Cache
    <3>3. StoresOK
      BY DEF TypeOK, StoresOK
    <3> QED BY <3>1, <3>2, <3>3, PutType DEF StoresOK
  <2> QED BY <1>5, <2>3, <2>4 DEF Cache, TypeOK, Running
<1>6. ASSUME NEW p \in Nodes, Replicate(t, p) PROVE TypeOK'
  <2>1. k \in Running /\ Message("store", t, p) \in Messages
    BY <1>6, RunningTask, MessageType DEF Replicate
  <2>2. /\ [k EXCEPT !.ask = @ \ {p}, !.stored = TRUE] \in Running
        /\ [k EXCEPT !.ask = @ \ {p}] \in Running
    BY <2>1 DEF Running
  <2>3. task' \in [Tasks -> {Idle} \cup Running']
    BY <1>6, <2>2, GotoType DEF Replicate
  <2>4. StoresOK' /\ LateOK'
    BY <1>6, <2>1, AnsweredType, UnansweredType DEF Replicate
  <2> QED BY <1>6, <2>3, <2>4 DEF Replicate, StoresOK, LateOK, TypeOK, Running
<1>7. ASSUME NEW p \in Nodes, AskProviders(t, p) PROVE TypeOK'
  <2>1. k \in Running /\ Message("find", t, p) \in Messages
    BY <1>7, RunningTask, MessageType DEF AskProviders
  <2>2. /\ [k EXCEPT !.ask = @ \ {p}, !.found = @ \cup records[p][k.hash]] \in Running
        /\ [k EXCEPT !.ask = @ \ {p}] \in Running
    <3>1. records[p][k.hash] \in SUBSET Nodes
      BY <2>1 DEF Running, TypeOK
    <3> QED BY <2>1, <3>1 DEF Running
  <2>3. task' \in [Tasks -> {Idle} \cup Running']
    BY <1>7, <2>2, GotoType DEF AskProviders
  <2>4. StoresOK' /\ LateOK'
    BY <1>7, <2>1, AnsweredType, UnansweredType DEF AskProviders
  <2> QED BY <1>7, <2>3, <2>4 DEF AskProviders, StoresOK, LateOK, TypeOK, Running
<1>8. ASSUME NEW p \in Nodes, Fetch(t, p) PROVE TypeOK'
  <2>1. k \in Running
    BY <1>8, RunningTask DEF Fetch
  <2>2. /\ [k EXCEPT !.at = "caching", !.ask = {}] \in Running
        /\ [k EXCEPT !.ask = @ \ {p}] \in Running
    BY <2>1 DEF Running, Phases
  <2>3. task' \in [Tasks -> {Idle} \cup Running']
    BY <1>8, <2>2, GotoType DEF Fetch
  <2> QED BY <1>8, <2>3 DEF Fetch, TypeOK, Running
<1>9. ASSUME NEW p \in Nodes, Spread(t, p) PROVE TypeOK'
  <2>1. k \in Running /\ Message("delete", t, p) \in Messages
    BY <1>9, RunningTask, MessageType DEF Spread
  <2>2. [k EXCEPT !.ask = @ \ {p}] \in Running
    BY <2>1 DEF Running
  <2>3. task' \in [Tasks -> {Idle} \cup Running']
    BY <1>9, <2>2, GotoType DEF Spread
  <2>4. StoresOK' /\ LateOK'
    BY <1>9, <2>1, AnsweredType, UnansweredType DEF Spread
  <2> QED BY <1>9, <2>3, <2>4 DEF Spread, StoresOK, LateOK, TypeOK, Running
<1> QED BY <1>1, <1>2, <1>3, <1>4, <1>5, <1>6, <1>7, <1>8, <1>9 DEF Step

LEMMA RequestType ==
  ASSUME TypeOK, NEW t \in Tasks, Request(t)
  PROVE  TypeOK'
<1> SUFFICES ASSUME NEW n \in Nodes, NEW h \in Hashes, Post(t, n, h) \/ Get(t, n, h) \/ Delete(t, n, h)
             PROVE  TypeOK'
  BY DEF Request
<1>1. StoresOK /\ UNCHANGED up
  BY DEF TypeOK, StoresOK, Post, Get, Delete
<1>2. n \in up
  BY DEF Post, Get, Delete
<1>3. contacts[n] \subseteq Nodes /\ records[n][h] \subseteq Nodes
  BY DEF TypeOK
<1>4. CASE Post(t, n, h)
  <2>1. [Idle EXCEPT !.at = "announcing", !.op = "POST", !.node = n, !.hash = h] \in Running
    BY <1>2 DEF Running, Idle, Phases
  <2>2. task' \in [Tasks -> {Idle} \cup Running']
    BY <1>1, <1>4, <2>1, GotoType DEF Post
  <2>3. held' \in [Nodes -> SUBSET Hashes]
    BY <1>1, <1>4, PutType DEF Post
  <2> QED BY <1>4, <2>2, <2>3 DEF Post, TypeOK, Running
<1>5. CASE Get(t, n, h)
  <2>1. Finding("GET", n, h) \in Running
    BY <1>2, <1>3 DEF Finding, Running, Idle, Phases
  <2>2. task' \in [Tasks -> {Idle} \cup Running']
    BY <1>1, <1>5, <2>1, GotoType DEF Get
  <2> QED BY <1>5, <2>2 DEF Get, TypeOK, Running
<1>6. CASE Delete(t, n, h)
  <2>1. Finding("DELETE", n, h) \in Running
    BY <1>2, <1>3 DEF Finding, Running, Idle, Phases
  <2>2. task' \in [Tasks -> {Idle} \cup Running']
    <3>1. CASE task' = task
      BY <1>1, <3>1 DEF TypeOK, Running
    <3>2. CASE Goto(t, Finding("DELETE", n, h))
      BY <1>1, <2>1, <3>2, GotoType
    <3> QED BY <1>6, <3>1, <3>2 DEF Delete
  <2>3. held' \in [Nodes -> SUBSET Hashes]
    BY <1>1, <1>6 DEF Delete, Remove, StoresOK
  <2> QED BY <1>6, <2>2, <2>3 DEF Delete, TypeOK, Running
<1> QED BY <1>4, <1>5, <1>6

LEMMA BootstrapType ==
  ASSUME TypeOK, NEW n \in Nodes, Bootstrap(n)
  PROVE  TypeOK'
<1> DEFINE b == Head(joining[n])
           m == [type |-> "ping", from |-> n, to |-> b, hash |-> None]
<1>1. joining[n] \in Seq(Nodes) /\ joining[n] # <<>>
  BY DEF Bootstrap, TypeOK
<1>2. b \in Nodes /\ Tail(joining[n]) \in Seq(Nodes) /\ <<>> \in Seq(Nodes)
  BY <1>1
<1>3. m \in Messages
  BY <1>2 DEF Messages
<1>4. joining' \in [Nodes -> Seq(Nodes)]
  BY <1>2 DEF Bootstrap, TypeOK
<1>5. StoresOK' /\ LateOK'
  <2>1. StoresOK /\ LateOK /\ UNCHANGED <<up, held, records>>
    BY DEF TypeOK, StoresOK, LateOK, Bootstrap
  <2>2. CASE UNCHANGED <<contacts, late>>
    BY <2>1, <2>2 DEF StoresOK, LateOK
  <2>3. CASE Unanswered(m)
    BY <1>3, <2>1, <2>3, UnansweredType
  <2>4. CASE contacts' = [contacts EXCEPT ![n] = @ \cup {b}, ![b] = @ \cup {n}] /\ UNCHANGED late
    BY <1>2, <2>1, <2>4 DEF StoresOK, LateOK
  <2> QED BY <2>2, <2>3, <2>4 DEF Bootstrap
<1> QED BY <1>4, <1>5 DEF Bootstrap, StoresOK, LateOK, TypeOK

LEMMA ArriveType ==
  ASSUME TypeOK, NEW m \in late, Arrive(m)
  PROVE  TypeOK'
<1>1. m \in Messages
  BY DEF TypeOK
<1>2. StoresOK'
  BY <1>1, ServeType DEF Arrive
<1> QED BY <1>2 DEF Arrive, StoresOK, TypeOK

LEMMA CrashType ==
  ASSUME TypeOK, NEW n \in Nodes, Crash(n)
  PROVE  TypeOK'
<1>1. task' \in [Tasks -> {Idle} \cup Running']
  <2>1. ASSUME NEW t \in Tasks, task[t].node # n PROVE task[t] \in {Idle} \cup Running'
    BY <2>1 DEF TypeOK, Crash, Running
  <2> QED BY <2>1 DEF Crash
<1>2. records' \in [Nodes -> [Hashes -> SUBSET Nodes]]
  BY DEF Crash, TypeOK
<1> QED BY <1>1, <1>2 DEF Crash, TypeOK, Running

LEMMA RestartType ==
  ASSUME TypeOK, NEW n \in Nodes, Restart(n)
  PROVE  TypeOK'
<1>1. task' \in [Tasks -> {Idle} \cup Running']
  BY DEF Restart, TypeOK, Running
<1> QED BY <1>1, ConstantsAssumption DEF Restart, TypeOK, Running

LEMMA InitType == Init => TypeOK
BY ConstantsAssumption DEF Init, TypeOK

LEMMA NextType == TypeOK /\ [Next]_vars => TypeOK'
<1> SUFFICES ASSUME TypeOK, [Next]_vars PROVE TypeOK'
  OBVIOUS
<1>1. ASSUME NEW t \in Tasks, Request(t) \/ Step(t) PROVE TypeOK'
  BY <1>1, RequestType, StepType
<1>2. ASSUME NEW n \in Nodes, Bootstrap(n) \/ Crash(n) \/ Restart(n) PROVE TypeOK'
  BY <1>2, BootstrapType, CrashType, RestartType
<1>3. ASSUME NEW m \in late, Arrive(m) PROVE TypeOK'
  BY <1>3, ArriveType
<1>4. CASE UNCHANGED vars
  BY <1>4 DEF TypeOK, vars
<1> QED BY <1>1, <1>2, <1>3, <1>4 DEF Next

\* The type invariant of the cluster; in particular no handler, announcement or late
\* call outlives the node that it runs on or goes to.
THEOREM TypeCorrect == Spec => []TypeOK
BY InitType, NextType, PTL DEF Spec

(* Progress of the tasks. *)

LEMMA OneLessToAsk ==
  ASSUME NEW k \in Running, NEW p \in k.ask,
         NEW next \in {[k EXCEPT !.ask = @ \ {p}],
                      [k EXCEPT !.ask = @ \ {p}, !.stored = TRUE]}
                     \cup {[k EXCEPT !.ask = @ \ {p}, !.found = S] : S \in SUBSET Nodes}
  PROVE  Nearer(next, k)
<1>1. next.at = k.at /\ next.ask = k.ask \ {p}
  BY DEF Running
<1> QED BY <1>1 DEF Nearer

LEMMA EndsNearer ==
  ASSUME NEW k \in Running
  PROVE  Nearer(Idle, k)
BY DEF Nearer, Ahead, Idle, Running, Phases

LEMMA StepNearer ==
  ASSUME TypeOK, NEW t \in Tasks, Step(t)
  PROVE  Nearer(task'[t], task[t]) /\ \A u \in Tasks \ {t} : task'[u] = task[u]
<1> DEFINE k == task[t]
<1>1. k \in Running
  <2>1. k.at # "idle"
    BY DEF Step, Announce, Replicated, Found, NotFound, Cache, Deleted, Replicate, AskProviders,
       Fetch, Spread
  <2> QED BY <2>1, RunningTask
<1>2. ASSUME NEW next, Goto(t, next), Nearer(next, k)
      PROVE  Nearer(task'[t], k) /\ \A u \in Tasks \ {t} : task'[u] = task[u]
  BY <1>2 DEF Goto, TypeOK
<1>3. ASSUME Goto(t, Idle)
      PROVE  Nearer(task'[t], k) /\ \A u \in Tasks \ {t} : task'[u] = task[u]
  BY <1>1, <1>2, <1>3, EndsNearer
<1>4. ASSUME NEW next, Goto(t, next), Ahead[next.at] < Ahead[k.at]
      PROVE  Nearer(task'[t], k) /\ \A u \in Tasks \ {t} : task'[u] = task[u]
  BY <1>2, <1>4 DEF Nearer
<1>5. CASE Announce(t)
  <2> DEFINE next == [k EXCEPT !.at = "replicating", !.ask = contacts[k.node] \ {k.node}]
  <2>1. next.at = "replicating"
    BY <1>1 DEF Running
  <2>2. k.at = "announcing" /\ Goto(t, next)
    BY <1>5 DEF Announce
  <2> HIDE DEF next
  <2> QED BY <1>4, <2>1, <2>2 DEF Ahead
<1>6. CASE Replicated(t)
  <2> DEFINE next == [k EXCEPT !.at = "fallback", !.ask = Range(Bootstraps[k.node]) \ {k.node}]
  <2>1. next.at = "fallback"
    BY <1>1 DEF Running
  <2>2. Goto(t, Idle) \/ (k.at = "replicating" /\ Goto(t, next))
    BY <1>6 DEF Replicated
  <2> HIDE DEF next
  <2> QED BY <1>3, <1>4, <2>1, <2>2 DEF Ahead
<1>7. CASE Found(t)
  <2> DEFINE fetch == [k EXCEPT !.at = "fetching", !.ask = k.found, !.found = {}]
             spread == [k EXCEPT !.at = "spreading", !.ask = k.found \ {k.node}, !.found = {}]
  <2>1. fetch.at = "fetching" /\ spread.at = "spreading"
    BY <1>1 DEF Running
  <2>2. k.at = "finding" /\ (Goto(t, fetch) \/ Goto(t, spread))
    BY <1>7 DEF Found
  <2> HIDE DEF fetch, spread
  <2> QED BY <1>4, <2>1, <2>2 DEF Ahead
<1>8. CASE NotFound(t) \/ Deleted(t)
  BY <1>3, <1>8 DEF NotFound, Deleted
<1>9. CASE Cache(t)
  <2> DEFINE next == [k EXCEPT !.at = "announcing"]
  <2>1. next.at = "announcing"
    BY <1>1 DEF Running
  <2>2. k.at = "caching" /\ (Goto(t, Idle) \/ Goto(t, next))
    BY <1>9 DEF Cache
  <2> HIDE DEF next
  <2> QED BY <1>3, <1>4, <2>1, <2>2 DEF Ahead
<1>10. ASSUME NEW p \in Nodes, Replicate(t, p) \/ Spread(t, p)
       PROVE  Nearer(task'[t], k) /\ \A u \in Tasks \ {t} : task'[u] = task[u]
  <2>1. p \in k.ask
    BY <1>10 DEF Replicate, Spread
  <2>2. PICK next \in {[k EXCEPT !.ask = @ \ {p}],
                      [k EXCEPT !.ask = @ \ {p}, !.stored = TRUE]} : Goto(t, next)
    BY <1>10 DEF Replicate, Spread
  <2>3. Nearer(next, k)
    BY <1>1, <2>1, OneLessToAsk
  <2> QED BY <1>2, <2>2, <2>3
<1>11. ASSUME NEW p \in Nodes, AskProviders(t, p)
       PROVE  Nearer(task'[t], k) /\ \A u \in Tasks \ {t} : task'[u] = task[u]
  <2>1. p \in k.ask
    BY <1>11 DEF AskProviders
  <2>2. k.found \cup records[p][k.hash] \in SUBSET Nodes
    BY <1>1, <1>11 DEF Running, TypeOK
  <2>3. \/ Goto(t, [k EXCEPT !.ask = @ \ {p}])
        \/ Goto(t, [k EXCEPT !.ask = @ \ {p}, !.found = k.found \cup records[p][k.hash]])
    BY <1>11 DEF AskProviders
  <2>4. PICK next \in {[k EXCEPT !.ask = @ \ {p}]}
                     \cup {[k EXCEPT !.ask = @ \ {p}, !.found = S] : S \in SUBSET Nodes} :
          Goto(t, next)
    BY <2>2, <2>3
  <2>5. Nearer(next, k)
    BY <1>1, <2>1, OneLessToAsk
  <2> QED BY <1>2, <2>4, <2>5
<1>12. ASSUME NEW p \in Nodes, Fetch(t, p)
       PROVE  Nearer(task'[t], k) /\ \A u \in Tasks \ {t} : task'[u] = task[u]
  <2>1. p \in k.ask /\ k.at = "fetching"
    BY <1>12 DEF Fetch
  <2>2. CASE Goto(t, [k EXCEPT !.at = "caching", !.ask = {}])
    <3> DEFINE next == [k EXCEPT !.at = "caching", !.ask = {}]
    <3>1. next.at = "caching" /\ Goto(t, next)
      BY <1>1, <2>2 DEF Running
    <3> HIDE DEF next
    <3> QED BY <1>4, <2>1, <3>1 DEF Ahead
  <2>3. CASE Goto(t, [k EXCEPT !.ask = @ \ {p}])
    <3>1. Nearer([k EXCEPT !.ask = @ \ {p}], k)
      BY <1>1, <2>1, OneLessToAsk
    <3> QED BY <1>2, <2>3, <3>1
  <2> QED BY <1>12, <2>2, <2>3 DEF Fetch
<1> QED BY <1>5, <1>6, <1>7, <1>8, <1>9, <1>10, <1>11, <1>12 DEF Step

\* The half of TasksEnd that is about steps, for any cluster and under every fault: a task
\* never goes back and never asks a node twice in a phase, so that it can make only as
\* many steps as there are phases and nodes to ask.
THEOREM EachStepAdvances == Spec => TasksAdvance
<1> DEFINE Goes(t) == task[t] # Idle /\ (Step(t) \/ task'[t] # task[t]) =>
                        Nearer(task'[t], task[t])
<1>1. TypeOK /\ [Next]_vars => [\A t \in Tasks : Goes(t)]_vars
  <2> SUFFICES ASSUME TypeOK, Next, NEW t \in Tasks, task[t] # Idle, task'[t] # task[t]
               PROVE  Nearer(task'[t], task[t])
    BY StepNearer
  <2>1. task[t] \in Running
    BY DEF TypeOK, Running
  <2>2. ASSUME NEW u \in Tasks, Request(u) PROVE FALSE
    <3>1. task[u] = Idle /\ t # u
      BY <2>2 DEF Request, Post, Get, Delete
    <3> QED BY <2>2, <3>1 DEF Request, Post, Get, Delete, Goto, TypeOK
  <2>3. ASSUME NEW u \in Tasks, Step(u) PROVE Nearer(task'[t], task[t])
    BY <2>3, StepNearer
  <2>4. ASSUME NEW n \in Nodes, Bootstrap(n) \/ Restart(n) PROVE FALSE
    BY <2>4 DEF Bootstrap, Restart
  <2>5. ASSUME NEW n \in Nodes, Crash(n) PROVE task'[t] = Idle
    BY <2>5 DEF Crash
  <2>6. ASSUME NEW m \in late, Arrive(m) PROVE FALSE
    BY <2>6 DEF Arrive
  <2> QED BY <2>1, <2>2, <2>3, <2>4, <2>5, <2>6, EndsNearer DEF Next
<1> QED BY <1>1, TypeCorrect, PTL DEF Spec, TasksAdvance

(* Provider records where no chunk is deleted. *)

Stored == {"announcing", "replicating", "fallback"}

Backed ==
  /\ RecordsHonest
  /\ \A t \in Tasks :
       /\ task[t].at \in Stored => task[t].hash \in held[task[t].node]
       /\ task[t].at = "finding" => task[t].op = "GET"
       /\ task[t].at # "spreading"
  /\ \A m \in late : m.type # "delete" /\ (m.type = "store" => m.hash \in held[m.from])

\* A call that may be made: not a deletion, and announcing only what its sender holds.
Permitted(m) == m.type # "delete" /\ (m.type = "store" => m.hash \in held[m.from])

LEMMA RecordHonest ==
  ASSUME TypeOK, RecordsHonest, UNCHANGED held,
         NEW n \in Nodes, NEW p \in Nodes, NEW h \in Hashes, h \in held[p], Record(n, h, p)
  PROVE  RecordsHonest'
<1>1. \A q \in Nodes, g \in Hashes : records'[q][g] \subseteq records[q][g] \cup IF q = n /\ g = h THEN {p} ELSE {}
  BY DEF Record, TypeOK
<1> QED BY <1>1 DEF RecordsHonest

LEMMA ServeHonest ==
  ASSUME TypeOK, RecordsHonest, NEW m \in Messages, Permitted(m), Serve(m)
  PROVE  RecordsHonest' /\ UNCHANGED held
<1>1. CASE m.type = "store"
  <2>1. Record(m.to, m.hash, m.from) /\ UNCHANGED held /\ m.hash \in held[m.from]
    BY <1>1 DEF Serve, Permitted
  <2>2. m.from \in Nodes /\ m.to \in Nodes /\ m.hash \in Hashes
    BY <2>1 DEF Messages, TypeOK
  <2> QED BY <2>1, <2>2, RecordHonest
<1>2. CASE m.type # "store"
  BY <1>2 DEF Serve, Permitted, RecordsHonest
<1> QED BY <1>1, <1>2

LEMMA CallHonest ==
  ASSUME TypeOK, Backed, NEW m \in Messages, Permitted(m), Answered(m) \/ Unanswered(m)
  PROVE  RecordsHonest' /\ UNCHANGED held /\ \A l \in late' : Permitted(l)
<1>1. CASE Answered(m)
  BY <1>1, ServeHonest DEF Answered, Backed, Permitted
<1>2. CASE Unanswered(m)
  BY <1>2 DEF Unanswered, Backed, Permitted, RecordsHonest
<1> QED BY <1>1, <1>2

\* What is left to show of a step that ends with the task t at next.
LEMMA GotoBacked ==
  ASSUME TypeOK, TypeOK', Backed, NEW t \in Tasks, NEW next, Goto(t, next),
         \A n \in Nodes : held[n] \subseteq held'[n],
         RecordsHonest', \A l \in late' : Permitted(l),
         next.at \in Stored => next.node \in Nodes /\ next.hash \in held'[next.node],
         next.at = "finding" => next.op = "GET",
         next.at # "spreading"
  PROVE  Backed'
<1>1. \A l \in late' : l.type # "delete" /\ (l.type = "store" => l.hash \in held'[l.from])
  <2> SUFFICES ASSUME NEW l \in late', l.type = "store" PROVE l.hash \in held'[l.from]
    BY DEF Permitted
  <2>1. l.hash \in held[l.from]
    BY DEF Permitted
  <2>2. l.from \in Nodes
    BY DEF TypeOK, Messages
  <2> QED BY <2>1, <2>2
<1>2. ASSUME NEW u \in Tasks
      PROVE  /\ task'[u].at \in Stored => task'[u].hash \in held'[task'[u].node]
             /\ task'[u].at = "finding" => task'[u].op = "GET"
             /\ task'[u].at # "spreading"
  <2>1. task'[u] = IF u = t THEN next ELSE task[u]
    BY DEF Goto, TypeOK
  <2>2. ASSUME task[u].at \in Stored PROVE task[u].node \in Nodes
    <3>1. task[u].at # "idle"
      BY <2>2 DEF Stored
    <3>2. task[u].node \in up
      BY <3>1, RunningTask DEF Running
    <3> QED BY <3>2 DEF TypeOK
  <2> QED BY <2>1, <2>2 DEF Backed
<1> QED BY <1>1, <1>2 DEF Backed

LEMMA PutHonest ==
  ASSUME TypeOK, RecordsHonest, NEW n \in Nodes, NEW h \in Hashes, UNCHANGED records,
         Put(n, h)
  PROVE  RecordsHonest' /\ (\A q \in Nodes : held[q] \subseteq held'[q]) /\ h \in held'[n]
<1>1. \A q \in Nodes : held'[q] = held[q] \cup IF q = n THEN {h} ELSE {}
  BY DEF Put, TypeOK
<1>2. \A q \in Nodes, g \in Hashes : records[q][g] \subseteq Nodes
  BY DEF TypeOK
<1> QED BY <1>1, <1>2 DEF RecordsHonest

LEMMA StepBacked ==
  ASSUME TypeOK, TypeOK', Backed, NEW t \in Tasks, Step(t)
  PROVE  Backed'
<1> DEFINE k == task[t]
<1>1. /\ \A l \in late : Permitted(l)
      /\ RecordsHonest
      /\ k.at \in Stored => k.hash \in held[k.node]
      /\ k.at = "finding" => k.op = "GET"
      /\ k.at # "spreading"
  BY DEF Backed, Permitted
<1>2. k.at # "idle" => k.node \in Nodes /\ k.hash \in Hashes
  BY RunningTask DEF Running, TypeOK
<1>3. CASE Announce(t)
  <2>1. k.node \in Nodes /\ k.hash \in Hashes /\ k.hash \in held[k.node]
    BY <1>1, <1>2, <1>3 DEF Announce, Stored
  <2>2. RecordsHonest'
    BY <1>1, <1>3, <2>1, RecordHonest DEF Announce
  <2>3. k \in Running
    BY <1>3, RunningTask DEF Announce
  <2> DEFINE next == [k EXCEPT !.at = "replicating", !.ask = contacts[k.node] \ {k.node}]
  <2>4. next.at = "replicating" /\ next.node = k.node /\ next.hash = k.hash
    BY <2>3 DEF Running
  <2>5. Goto(t, next) /\ UNCHANGED <<held, late>>
    BY <1>3 DEF Announce
  <2> HIDE DEF next
  <2> QED BY <1>1, <2>1, <2>2, <2>4, <2>5, GotoBacked DEF Stored
<1>4. CASE Replicated(t)
  <2>1. /\ k \in Running /\ k.at \in Stored /\ k.node \in Nodes
        /\ UNCHANGED <<held, records, late>>
    BY <1>2, <1>4, RunningTask DEF Replicated, Stored
  <2>2. PICK next \in {Idle, [k EXCEPT !.at = "fallback",
                                      !.ask = Range(Bootstraps[k.node]) \ {k.node}]} : Goto(t, next)
    BY <1>4 DEF Replicated
  <2>3. next.at = "idle" \/ (next.at = "fallback" /\ next.node = k.node /\ next.hash = k.hash)
    <3>1. CASE next = Idle
      BY <3>1 DEF Idle
    <3>2. CASE next = [k EXCEPT !.at = "fallback", !.ask = Range(Bootstraps[k.node]) \ {k.node}]
      BY <2>1, <3>2 DEF Running
    <3> QED BY <2>2, <3>1, <3>2
  <2>4. RecordsHonest'
    BY <1>1, <2>1 DEF RecordsHonest
  <2> QED BY <1>1, <2>1, <2>2, <2>3, <2>4, GotoBacked DEF Stored
<1>11. CASE Found(t) \/ NotFound(t)
  <2>1. k \in Running /\ UNCHANGED <<held, records, late>>
    BY <1>11, RunningTask DEF Found, NotFound
  <2>2. Found(t) => k.op # "DELETE"
    BY <1>1 DEF Found
  <2>3. PICK next \in {Idle, [k EXCEPT !.at = "fetching", !.ask = k.found, !.found = {}]} :
          Goto(t, next)
    BY <1>11, <2>2 DEF Found, NotFound
  <2>4. next.at \in {"idle", "fetching"}
    <3>1. CASE next = Idle
      BY <3>1 DEF Idle
    <3>2. CASE next = [k EXCEPT !.at = "fetching", !.ask = k.found, !.found = {}]
      BY <2>1, <3>2 DEF Running
    <3> QED BY <2>3, <3>1, <3>2
  <2>5. RecordsHonest'
    BY <1>1, <2>1 DEF RecordsHonest
  <2> QED BY <1>1, <2>1, <2>3, <2>4, <2>5, GotoBacked DEF Stored
<1>5. CASE Cache(t)
  <2>1. k \in Running /\ UNCHANGED <<records, late>> /\ k.node \in Nodes /\ k.hash \in Hashes
    BY <1>2, <1>5, RunningTask DEF Cache
  <2>2. CASE Put(k.node, k.hash)
    <3>1. RecordsHonest' /\ (\A q \in Nodes : held[q] \subseteq held'[q]) /\ k.hash \in held'[k.node]
      BY <1>1, <2>1, <2>2, PutHonest
    <3>2. PICK next : /\ Goto(t, next)
                      /\ next.at \in Stored => next.node = k.node /\ next.hash = k.hash
                      /\ next.at \notin {"finding", "spreading"}
      BY <1>5, <2>1 DEF Cache, Running, Stored, Idle
    <3> QED BY <1>1, <2>1, <3>1, <3>2, GotoBacked
  <2>3. CASE UNCHANGED held /\ Goto(t, Idle)
    <3>1. RecordsHonest'
      BY <1>1, <2>1, <2>3 DEF RecordsHonest
    <3>2. Idle.at \notin Stored /\ Idle.at # "finding" /\ Idle.at # "spreading"
      BY DEF Idle, Stored
    <3> QED BY <1>1, <2>1, <2>3, <3>1, <3>2, GotoBacked
  <2> QED BY <1>5, <2>2, <2>3 DEF Cache
<1>6. ASSUME NEW p \in Nodes, Replicate(t, p) PROVE Backed'
  <2> DEFINE m == Message("store", t, p)
  <2>1. k \in Running /\ k.at \in Stored /\ m \in Messages /\ k.node \in Nodes
    BY <1>2, <1>6, RunningTask, MessageType DEF Replicate, Stored
  <2>2. Permitted(m)
    BY <1>1, <2>1 DEF Permitted, Message
  <2>3. RecordsHonest' /\ UNCHANGED held /\ \A l \in late' : Permitted(l)
    BY <1>6, <2>1, <2>2, CallHonest DEF Replicate
  <2>4. PICK next \in {[k EXCEPT !.ask = @ \ {p}, !.stored = TRUE], [k EXCEPT !.ask = @ \ {p}]} :
          Goto(t, next)
    BY <1>6 DEF Replicate
  <2>5. next.at = k.at /\ next.node = k.node /\ next.hash = k.hash
    BY <2>1, <2>4 DEF Running
  <2> QED BY <1>1, <2>1, <2>3, <2>4, <2>5, GotoBacked DEF Stored
<1>7. ASSUME NEW p \in Nodes, AskProviders(t, p) PROVE Backed'
  <2> DEFINE m == Message("find", t, p)
  <2>1. k \in Running /\ k.at = "finding" /\ m \in Messages
    BY <1>7, RunningTask, MessageType DEF AskProviders
  <2>2. Permitted(m)
    BY DEF Permitted, Message
  <2>3. RecordsHonest' /\ UNCHANGED held /\ \A l \in late' : Permitted(l)
    BY <1>7, <2>1, <2>2, CallHonest DEF AskProviders
  <2>4. PICK next \in {[k EXCEPT !.ask = @ \ {p}, !.found = @ \cup records[p][k.hash]],
                       [k EXCEPT !.ask = @ \ {p}]} : Goto(t, next)
    BY <1>7 DEF AskProviders
  <2>5. next.at = "finding" /\ next.op = k.op
    BY <2>1, <2>4 DEF Running
  <2> QED BY <1>1, <2>1, <2>3, <2>4, <2>5, GotoBacked DEF Stored
<1>8. ASSUME NEW p \in Nodes, Fetch(t, p) PROVE Backed'
  <2>1. k \in Running /\ UNCHANGED <<held, records, late>>
    BY <1>8, RunningTask DEF Fetch
  <2>2. PICK next \in {[k EXCEPT !.at = "caching", !.ask = {}], [k EXCEPT !.ask = @ \ {p}]} :
          Goto(t, next)
    BY <1>8 DEF Fetch
  <2>3. next.at \in {"fetching", "caching"}
    BY <1>8, <2>1, <2>2 DEF Fetch, Running
  <2>4. RecordsHonest'
    BY <1>1, <2>1 DEF RecordsHonest
  <2> QED BY <1>1, <2>1, <2>2, <2>3, <2>4, GotoBacked DEF Stored
<1>9. ASSUME NEW p \in Nodes PROVE ~Spread(t, p)
  BY <1>1 DEF Spread
<1>10. ~Deleted(t)
  BY <1>1 DEF Deleted
<1> QED BY <1>3, <1>4, <1>5, <1>6, <1>7, <1>8, <1>9, <1>10, <1>11 DEF Step

LEMMA RequestBacked ==
  ASSUME TypeOK, TypeOK', Backed, "DELETE" \notin Ops, NEW t \in Tasks, Request(t)
  PROVE  Backed'
<1> SUFFICES ASSUME NEW n \in Nodes, NEW h \in Hashes, Post(t, n, h) \/ Get(t, n, h) \/ Delete(t, n, h)
             PROVE  Backed'
  BY DEF Request
<1>1. RecordsHonest /\ \A l \in late : Permitted(l)
  BY DEF Backed, Permitted
<1>2. CASE Post(t, n, h)
  <2> DEFINE next == [Idle EXCEPT !.at = "announcing", !.op = "POST", !.node = n, !.hash = h]
  <2>1. next.at = "announcing" /\ next.node = n /\ next.hash = h
    BY DEF Idle
  <2>2. Goto(t, next) /\ UNCHANGED <<records, late>>
    BY <1>2 DEF Post
  <2>3. RecordsHonest' /\ (\A q \in Nodes : held[q] \subseteq held'[q]) /\ h \in held'[n]
    BY <1>1, <1>2, PutHonest DEF Post
  <2> HIDE DEF next
  <2> QED BY <1>1, <2>1, <2>2, <2>3, GotoBacked
<1>3. CASE Get(t, n, h)
  <2> DEFINE next == Finding("GET", n, h)
  <2>1. next.at = "finding" /\ next.op = "GET"
    BY DEF Finding, Idle
  <2>2. Goto(t, next) /\ UNCHANGED <<held, records, late>>
    BY <1>3 DEF Get
  <2>3. RecordsHonest'
    BY <1>1, <2>2 DEF RecordsHonest
  <2> HIDE DEF next
  <2> QED BY <1>1, <2>1, <2>2, <2>3, GotoBacked DEF Stored
<1>4. ~Delete(t, n, h)
  BY DEF Delete
<1> QED BY <1>2, <1>3, <1>4

LEMMA NodeBacked ==
  ASSUME TypeOK, Backed, NEW n \in Nodes, Bootstrap(n) \/ Crash(n) \/ Restart(n)
  PROVE  Backed'
<1>1. UNCHANGED held
  BY DEF Bootstrap, Crash, Restart
<1>2. RecordsHonest'
  <2> SUFFICES ASSUME NEW q \in Nodes, NEW h \in Hashes
               PROVE  records'[q][h] \subseteq records[q][h]
    BY <1>1 DEF RecordsHonest, Backed
  <2>1. CASE Bootstrap(n) \/ Restart(n)
    BY <2>1 DEF Bootstrap, Restart
  <2>2. CASE Crash(n)
    <3>1. records' = [records EXCEPT ![n] = [x \in Hashes |-> {}]]
      BY <2>2 DEF Crash
    <3>2. records \in [Nodes -> [Hashes -> SUBSET Nodes]]
      BY DEF TypeOK
    <3>3. q = n => records'[q] = [x \in Hashes |-> {}]
      BY <3>1, <3>2
    <3>4. q # n => records'[q] = records[q]
      BY <3>1, <3>2
    <3> QED BY <3>3, <3>4
  <2> QED BY <2>1, <2>2
<1>3. \A t \in Tasks : task'[t] \in {task[t], Idle}
  BY DEF Bootstrap, Crash, Restart, TypeOK
<1>4. \A l \in late' : l \in late \/ l.type = "ping"
  BY DEF Bootstrap, Crash, Restart, Unanswered
<1>5. Idle.at = "idle"
  BY DEF Idle
<1> QED BY <1>1, <1>2, <1>3, <1>4, <1>5 DEF Backed, Stored

LEMMA ArriveBacked ==
  ASSUME TypeOK, Backed, NEW m \in late, Arrive(m)
  PROVE  Backed'
<1>1. m \in Messages /\ Permitted(m) /\ RecordsHonest
  BY DEF TypeOK, Backed, Permitted
<1>2. RecordsHonest' /\ UNCHANGED <<held, task>> /\ late' \subseteq late
  BY <1>1, ServeHonest DEF Arrive
<1> QED BY <1>2 DEF Backed

\* As long as nothing is deleted, every provider record anywhere names a node that has
\* the chunk: PutChunk comes before StoreProvider in each handler, and neither a late
\* STORE_PROVIDER nor a restart makes a record untrue.
THEOREM RecordsStayHonest ==
  ASSUME "DELETE" \notin Ops
  PROVE  Spec => []RecordsHonest
<1>1. Init => Backed
  BY DEF Init, Backed, RecordsHonest, Idle, Stored
<1>2. TypeOK /\ TypeOK' /\ Backed /\ [Next]_vars => Backed'
  <2> SUFFICES ASSUME TypeOK, TypeOK', Backed, [Next]_vars PROVE Backed'
    OBVIOUS
  <2>1. ASSUME NEW t \in Tasks, Request(t) \/ Step(t) PROVE Backed'
    BY <2>1, RequestBacked, StepBacked
  <2>2. ASSUME NEW n \in Nodes, Bootstrap(n) \/ Crash(n) \/ Restart(n) PROVE Backed'
    BY <2>2, NodeBacked
  <2>3. ASSUME NEW m \in late, Arrive(m) PROVE Backed'
    BY <2>3, ArriveBacked
  <2>4. CASE UNCHANGED vars
    BY <2>4 DEF Backed, RecordsHonest, vars
  <2> QED BY <2>1, <2>2, <2>3, <2>4 DEF Next
<1>3. Backed => RecordsHonest
  BY DEF Backed
<1> QED BY <1>1, <1>2, <1>3, TypeCorrect, PTL DEF Spec
-------------------------------------------------------------------------------
(* Finding the holders of a chunk: a cluster without faults whose nodes all join at *)
(* one seed.                                                                        *)

Star(s) ==
  /\ s \in Nodes
  /\ \A n \in Nodes : Range(Bootstraps[n]) \subseteq {s, n} /\ (n # s => s \in Range(Bootstraps[n]))

Faultless == Faults = {} /\ Advertising = Nodes

\* A node other than the seed has contacts only if it has met the seed, and only such.
ContactsVia(s) ==
  \A f \in Nodes \ {s} : \A p \in contacts[f] : s \in contacts[f] /\ (p # s => s \in contacts[p])

JoiningVia(s) ==
  \A n \in Nodes : /\ Range(joining[n]) \subseteq {s, n}
                   /\ n # s => s \in Range(joining[n]) \/ s \in contacts[n]

\* RPCs go to contacts, or to the seed; stored says that one has stored the record.
TasksVia(s) ==
  \A t \in Tasks :
    /\ task[t].at \notin {"replicating", "fallback"} => ~task[t].stored
    /\ task[t].at \in {"replicating", "finding"} => task[t].ask \subseteq contacts[task[t].node]
    /\ task[t].at = "fallback" => task[t].ask \subseteq {s}

\* On record where every node asks: at the node itself and at the seed.
OnRecord(n, h, s, recs) == n \in recs[n][h] /\ (n # s => n \in recs[s][h])

\* The task k has yet to see to that: it asks the seed, or it asks nobody and falls back.
Announcing(k, n, h, s, recs) ==
  /\ k.node = n /\ k.hash = h
  /\ \/ k.at = "announcing"
     \/ /\ k.at \in {"replicating", "fallback"} /\ n \in recs[n][h]
        /\ \/ n = s \/ n \in recs[s][h] \/ s \in k.ask
           \/ k.at = "replicating" /\ k.ask = {} /\ ~k.stored

\* The invariant: each chunk in a store is on record, or a task sees to it.
FoundInv(s) ==
  /\ up = Nodes /\ late = {}
  /\ ContactsVia(s) /\ JoiningVia(s) /\ TasksVia(s)
  /\ \A n \in Nodes : \A h \in held[n] :
       OnRecord(n, h, s, records) \/ \E t \in Tasks : Announcing(task[t], n, h, s, records)

Growing ==
  /\ \A n \in Nodes : contacts[n] \subseteq contacts'[n]
  /\ \A n \in Nodes, h \in Hashes : records[n][h] \subseteq records'[n][h]

LEMMA TailRange ==
  ASSUME NEW S, NEW seq \in Seq(S), seq # <<>>
  PROVE  /\ Head(seq) \in Range(seq) /\ Range(Tail(seq)) \subseteq Range(seq)
         /\ Range(seq) \subseteq {Head(seq)} \cup Range(Tail(seq))
<1>1. Tail(seq) \in Seq(S) /\ Len(Tail(seq)) = Len(seq) - 1
  BY HeadTailProperties
<1>2. \A i \in 1 .. Len(Tail(seq)) : Tail(seq)[i] = seq[i+1]
  BY HeadTailProperties
<1>3. Len(seq) \in Nat \ {0} /\ Head(seq) = seq[1]
  BY EmptySeq
<1>4. /\ Range(seq) = {seq[i] : i \in 1 .. Len(seq)}
      /\ Range(Tail(seq)) = {Tail(seq)[i] : i \in 1 .. Len(Tail(seq))}
  BY <1>1, RangeEquality
<1>5. Head(seq) \in Range(seq)
  BY <1>3, <1>4
<1>6. ASSUME NEW i \in 1 .. Len(Tail(seq)) PROVE Tail(seq)[i] \in Range(seq)
  <2>1. i + 1 \in 1 .. Len(seq)
    BY <1>1, <1>3
  <2> QED BY <2>1, <1>2, <1>4
<1>7. ASSUME NEW i \in 1 .. Len(seq) PROVE seq[i] \in {Head(seq)} \cup Range(Tail(seq))
  <2>1. CASE i = 1
    BY <2>1, <1>3
  <2>2. CASE i # 1
    <3>1. i - 1 \in 1 .. Len(Tail(seq)) /\ (i - 1) + 1 = i
      BY <2>2, <1>1, <1>3
    <3>2. Tail(seq)[i-1] = seq[i]
      BY <3>1, <1>2
    <3> QED BY <3>1, <3>2, <1>4
  <2> QED BY <2>1, <2>2
<1> QED BY <1>4, <1>5, <1>6, <1>7

\* Every call is answered.
LEMMA AllAnswered ==
  ASSUME Faultless, up = Nodes, NEW m \in Messages
  PROVE  ~Unanswered(m)
BY DEF Faultless, Unanswered, Messages

\* The callee of an RPC to a contact, or to the seed, has met the seed.
LEMMA MeetVia ==
  ASSUME TypeOK, NEW s \in Nodes, ContactsVia(s), NEW m \in Messages, Meet(m),
         m.to \in contacts[m.from] \/ m.to = s
  PROVE  ContactsVia(s)' /\ \A n \in Nodes : contacts[n] \subseteq contacts'[n]
<1>1. m.to \in Nodes /\ m.from \in Nodes
  BY DEF Messages
<1>2. \A q \in Nodes : contacts'[q] = contacts[q] \cup IF q = m.to THEN {m.from} ELSE {}
  BY DEF Meet, TypeOK
<1>3. \A q \in Nodes : contacts[q] \subseteq contacts'[q] /\ contacts[q] \subseteq Nodes
  BY <1>2 DEF TypeOK
<1>4. ASSUME NEW f \in Nodes \ {s}, NEW p \in contacts'[f]
      PROVE  s \in contacts'[f] /\ (p # s => s \in contacts'[p])
  <2>1. CASE p \in contacts[f]
    BY <2>1, <1>3 DEF ContactsVia
  <2>2. CASE f = m.to /\ p = m.from
    <3>1. CASE p = s
      BY <2>2, <3>1
    <3>2. CASE p # s
      <4>1. s \in contacts[p] /\ s \in contacts[f]
        BY <1>1, <2>2, <3>2 DEF ContactsVia
      <4> QED BY <4>1, <1>1, <1>3, <2>2
    <3> QED BY <3>1, <3>2
  <2> QED BY <1>2, <2>1, <2>2
<1> QED BY <1>3, <1>4 DEF ContactsVia

LEMMA RecordGrows ==
  ASSUME TypeOK, NEW n \in Nodes, NEW h \in Hashes, NEW p \in Nodes, Record(n, h, p)
  PROVE  /\ \A q \in Nodes, g \in Hashes : records[q][g] \subseteq records'[q][g]
         /\ p \in records'[n][h]
<1>1. records \in [Nodes -> [Hashes -> SUBSET Nodes]]
  BY DEF TypeOK
<1>2. records' = [records EXCEPT ![n] = [records[n] EXCEPT ![h] = @ \cup {p}]]
  BY DEF Record
<1>3. records'[n] = [records[n] EXCEPT ![h] = @ \cup {p}] /\ \A q \in Nodes \ {n} : records'[q] = records[q]
  BY <1>1, <1>2
<1> QED BY <1>1, <1>3

\* What an RPC of a task leaves behind.
LEMMA ServedVia ==
  ASSUME TypeOK, NEW s \in Nodes, ContactsVia(s), NEW m \in Messages, Serve(m),
         m.type \in {"store", "find"}, m.hash \in Hashes, m.to \in contacts[m.from] \/ m.to = s
  PROVE  /\ ContactsVia(s)' /\ Growing /\ UNCHANGED held
         /\ m.type = "store" => m.from \in records'[m.to][m.hash]
<1>1. m.to \in Nodes /\ m.from \in Nodes /\ Meet(m)
  BY DEF Messages, Serve
<1>2. ContactsVia(s)' /\ \A n \in Nodes : contacts[n] \subseteq contacts'[n]
  BY <1>1, MeetVia
<1>3. CASE m.type = "store"
  <2>1. Record(m.to, m.hash, m.from) /\ UNCHANGED held
    BY <1>3 DEF Serve
  <2>2. /\ \A q \in Nodes, g \in Hashes : records[q][g] \subseteq records'[q][g]
        /\ m.from \in records'[m.to][m.hash]
    BY <1>1, <2>1, RecordGrows
  <2> QED BY <1>2, <2>1, <2>2 DEF Growing
<1>4. CASE m.type = "find"
  BY <1>2, <1>4 DEF Serve, Growing
<1> QED BY <1>3, <1>4

\* What is left to show of a step that ends with the task t at next.
LEMMA GotoFound ==
  ASSUME TypeOK, TypeOK', NEW s \in Nodes, FoundInv(s), UNCHANGED <<up, late, joining>>,
         Growing, ContactsVia(s)', NEW t \in Tasks, NEW next, Goto(t, next),
         next.at \in {"replicating", "finding"} =>
           next.node \in Nodes /\ next.ask \subseteq contacts[next.node],
         next.at = "fallback" => next.ask \subseteq {s},
         next.at \notin {"replicating", "fallback"} => ~next.stored,
         \A n \in Nodes, h \in Hashes : Announcing(task[t], n, h, s, records) =>
           Announcing(next, n, h, s, records') \/ OnRecord(n, h, s, records'),
         \A n \in Nodes : \A h \in held'[n] : h \in held[n] \/ Announcing(next, n, h, s, records')
  PROVE  FoundInv(s)'
<1>1. \A u \in Tasks : task'[u] = IF u = t THEN next ELSE task[u]
  BY DEF Goto, TypeOK
<1>2. JoiningVia(s)'
  BY DEF FoundInv, JoiningVia, Growing
<1>3. TasksVia(s)'
  <2> SUFFICES ASSUME NEW u \in Tasks
               PROVE  /\ task'[u].at \notin {"replicating", "fallback"} => ~task'[u].stored
                      /\ task'[u].at \in {"replicating", "finding"} =>
                           task'[u].ask \subseteq contacts'[task'[u].node]
                      /\ task'[u].at = "fallback" => task'[u].ask \subseteq {s}
    BY DEF TasksVia
  <2>1. CASE u = t
    BY <1>1, <2>1 DEF Growing
  <2>2. CASE u # t
    <3>1. task[u].at # "idle" => task[u].node \in Nodes
      BY RunningTask DEF Running, TypeOK
    <3> QED BY <1>1, <2>2, <3>1 DEF Growing, FoundInv, TasksVia
  <2> QED BY <2>1, <2>2
<1>4. ASSUME NEW n \in Nodes, NEW h \in held'[n]
      PROVE  OnRecord(n, h, s, records') \/ \E u \in Tasks : Announcing(task'[u], n, h, s, records')
  <2>1. h \in Hashes
    BY DEF TypeOK
  <2>2. /\ OnRecord(n, h, s, records) => OnRecord(n, h, s, records')
        /\ \A k : Announcing(k, n, h, s, records) => Announcing(k, n, h, s, records')
    BY <2>1 DEF Growing, OnRecord, Announcing
  <2>3. CASE Announcing(next, n, h, s, records')
    BY <1>1, <2>3
  <2>4. CASE h \in held[n]
    <3>1. CASE OnRecord(n, h, s, records)
      BY <2>2, <3>1
    <3>2. ASSUME NEW u \in Tasks, Announcing(task[u], n, h, s, records)
          PROVE  OnRecord(n, h, s, records') \/ \E w \in Tasks : Announcing(task'[w], n, h, s, records')
      <4>1. CASE u = t
        BY <1>1, <2>1, <3>2, <4>1
      <4>2. CASE u # t
        <5>1. task'[u] = task[u]
          BY <1>1, <4>2
        <5> QED BY <5>1, <2>2, <3>2
      <4> QED BY <4>1, <4>2
    <3> QED BY <2>4, <3>1, <3>2 DEF FoundInv
  <2> QED BY <2>3, <2>4
<1> QED BY <1>2, <1>3, <1>4 DEF FoundInv

\* A task that has announced nothing yet, or has done with it.
LEMMA NotAnnouncing ==
  ASSUME NEW k, k.at \notin {"announcing", "replicating", "fallback"}, NEW s
  PROVE  \A n, h, recs : ~Announcing(k, n, h, s, recs)
BY DEF Announcing

LEMMA AnnounceFound ==
  ASSUME TypeOK, TypeOK', Faultless, NEW s \in Nodes, Star(s), FoundInv(s), NEW t \in Tasks,
         Announce(t)
  PROVE  FoundInv(s)'
<1> DEFINE k == task[t]
<1>a. k \in Running /\ k.node \in Nodes /\ k.hash \in Hashes /\ k.ask \subseteq Nodes
  <2>1. k.at # "idle"
    BY DEF Announce
  <2> QED BY <2>1, RunningTask DEF Running, TypeOK
<1>b. ContactsVia(s) /\ TasksVia(s) /\ up = Nodes
  BY DEF FoundInv
<1> DEFINE next == [k EXCEPT !.at = "replicating", !.ask = contacts[k.node] \ {k.node}]
<1>1. /\ next.at = "replicating" /\ next.node = k.node /\ next.hash = k.hash
      /\ next.ask = contacts[k.node] \ {k.node} /\ next.stored = k.stored
  BY <1>a DEF Running
<1>2. Goto(t, next) /\ UNCHANGED <<up, held, joining, contacts, late>> /\ k.at = "announcing"
  BY DEF Announce
<1>3. Growing /\ ContactsVia(s)' /\ k.node \in records'[k.node][k.hash]
  BY <1>a, <1>b, <1>2, RecordGrows DEF Announce, Growing, ContactsVia
<1>4. ~k.stored
  BY <1>b, <1>2 DEF TasksVia
<1>5. k.node = s \/ s \in next.ask \/ next.ask = {}
  BY <1>a, <1>b, <1>1 DEF ContactsVia
<1>6. \A n \in Nodes, h \in Hashes :
        Announcing(k, n, h, s, records) => Announcing(next, n, h, s, records')
  BY <1>1, <1>3, <1>4, <1>5 DEF Announcing
<1> HIDE DEF next
<1> QED BY <1>a, <1>1, <1>2, <1>3, <1>6, GotoFound

LEMMA ReplicatedFound ==
  ASSUME TypeOK, TypeOK', Faultless, NEW s \in Nodes, Star(s), FoundInv(s), NEW t \in Tasks,
         Replicated(t)
  PROVE  FoundInv(s)'
<1> DEFINE k == task[t]
<1>a. k \in Running /\ k.node \in Nodes /\ k.hash \in Hashes /\ k.ask \subseteq Nodes
  <2>1. k.at # "idle"
    BY DEF Replicated
  <2> QED BY <2>1, RunningTask DEF Running, TypeOK
<1>b. ContactsVia(s) /\ TasksVia(s) /\ up = Nodes
  BY DEF FoundInv
<1>1. k.at \in {"replicating", "fallback"} /\ k.ask = {} /\ UNCHANGED <<up, held, joining, contacts, records, late>>
  BY DEF Replicated
<1>2. Growing /\ ContactsVia(s)'
  BY <1>b, <1>1 DEF Growing, ContactsVia
<1>3. CASE k.at = "replicating" /\ ~k.stored
  <2> DEFINE next == [k EXCEPT !.at = "fallback", !.ask = Range(Bootstraps[k.node]) \ {k.node}]
  <2>1. /\ next.at = "fallback" /\ next.node = k.node /\ next.hash = k.hash
        /\ next.ask = Range(Bootstraps[k.node]) \ {k.node}
    BY <1>a DEF Running
  <2>2. Goto(t, next)
    BY <1>3 DEF Replicated
  <2>3. next.ask \subseteq {s} /\ (k.node = s \/ s \in next.ask)
    BY <1>a, <2>1 DEF Star
  <2>4. \A n \in Nodes, h \in Hashes :
          Announcing(k, n, h, s, records) => Announcing(next, n, h, s, records')
    BY <1>1, <1>3, <2>1, <2>3 DEF Announcing
  <2> HIDE DEF next
  <2> QED BY <1>1, <1>2, <2>1, <2>2, <2>3, <2>4, GotoFound
<1>4. CASE k.at = "fallback" \/ k.stored
  <2>1. Goto(t, Idle) /\ Idle.at = "idle" /\ ~Idle.stored
    BY <1>1, <1>4 DEF Replicated, Idle
  <2>2. \A n \in Nodes, h \in Hashes :
          Announcing(k, n, h, s, records) => OnRecord(n, h, s, records')
    BY <1>1, <1>4 DEF Announcing, OnRecord
  <2> QED BY <1>1, <1>2, <2>1, <2>2, GotoFound
<1> QED BY <1>1, <1>3, <1>4

LEMMA ReplicateFound ==
  ASSUME TypeOK, TypeOK', Faultless, NEW s \in Nodes, Star(s), FoundInv(s), NEW t \in Tasks,
         NEW p \in Nodes, Replicate(t, p)
  PROVE  FoundInv(s)'
<1> DEFINE k == task[t]
<1>a. k \in Running /\ k.node \in Nodes /\ k.hash \in Hashes /\ k.ask \subseteq Nodes
  <2>1. k.at # "idle"
    BY DEF Replicate
  <2> QED BY <2>1, RunningTask DEF Running, TypeOK
<1>b. ContactsVia(s) /\ TasksVia(s) /\ up = Nodes
  BY DEF FoundInv
<1> DEFINE m == Message("store", t, p)
           next == [k EXCEPT !.ask = @ \ {p}, !.stored = TRUE]
<1>1. /\ k.at \in {"replicating", "fallback"} /\ p \in k.ask /\ UNCHANGED <<up, joining>>
      /\ m \in Messages
  BY MessageType DEF Replicate
<1>2. m.type = "store" /\ m.from = k.node /\ m.to = p /\ m.hash = k.hash
  BY DEF Message
<1>3. Answered(m) /\ Goto(t, next)
  BY <1>b, <1>1, AllAnswered DEF Replicate
<1>4. p \in contacts[k.node] \/ p = s
  BY <1>b, <1>1 DEF TasksVia
<1>5. /\ ContactsVia(s)' /\ Growing /\ UNCHANGED <<held, late>>
      /\ k.node \in records'[p][k.hash]
  <2>1. Serve(m) /\ UNCHANGED late
    BY <1>3 DEF Answered
  <2> QED BY <1>a, <1>b, <1>1, <1>2, <1>4, <2>1, ServedVia
<1>6. /\ next.at = k.at /\ next.node = k.node /\ next.hash = k.hash
      /\ next.ask = k.ask \ {p} /\ next.stored = TRUE
  BY <1>a DEF Running
<1>7. \A n \in Nodes, h \in Hashes :
        Announcing(k, n, h, s, records) => Announcing(next, n, h, s, records')
  <2> SUFFICES ASSUME NEW n \in Nodes, NEW h \in Hashes, Announcing(k, n, h, s, records)
               PROVE  Announcing(next, n, h, s, records')
    OBVIOUS
  <2>1. k.node = n /\ k.hash = h /\ n \in records[n][h] /\ (n = s \/ n \in records[s][h] \/ s \in k.ask)
    BY <1>1 DEF Announcing
  <2>2. n \in records'[n][h] /\ (n \in records[s][h] => n \in records'[s][h])
    BY <1>5, <2>1 DEF Growing
  <2>3. n = s \/ n \in records'[s][h] \/ s \in next.ask
    BY <1>5, <1>6, <2>1, <2>2
  <2> QED BY <1>1, <1>6, <2>1, <2>2, <2>3 DEF Announcing
<1>8. /\ next.at = "replicating" => next.ask \subseteq contacts[next.node]
      /\ next.at = "fallback" => next.ask \subseteq {s}
  BY <1>b, <1>6 DEF TasksVia
<1>9. next.at # "finding"
  BY <1>1, <1>6
<1> HIDE DEF next
<1> QED BY <1>a, <1>1, <1>3, <1>5, <1>6, <1>7, <1>8, <1>9, GotoFound

\* The steps of a task that announces nothing.
LEMMA AskProvidersFound ==
  ASSUME TypeOK, TypeOK', Faultless, NEW s \in Nodes, FoundInv(s), NEW t \in Tasks,
         NEW p \in Nodes, AskProviders(t, p)
  PROVE  FoundInv(s)'
<1> DEFINE k == task[t]
           m == Message("find", t, p)
           next == [k EXCEPT !.ask = @ \ {p}, !.found = @ \cup records[p][k.hash]]
<1>1. /\ k.at = "finding" /\ p \in k.ask /\ UNCHANGED <<up, joining>>
      /\ m \in Messages
  BY MessageType DEF AskProviders
<1>2. k \in Running /\ k.node \in Nodes /\ k.hash \in Hashes
  BY <1>1, RunningTask DEF Running, TypeOK
<1>3. ContactsVia(s) /\ TasksVia(s) /\ up = Nodes
  BY DEF FoundInv
<1>4. m.type = "find" /\ m.from = k.node /\ m.to = p /\ m.hash = k.hash
  BY DEF Message
<1>5. Answered(m) /\ Goto(t, next)
  BY <1>1, <1>3, AllAnswered DEF AskProviders
<1>6. p \in contacts[k.node]
  BY <1>1, <1>3 DEF TasksVia
<1>7. ContactsVia(s)' /\ Growing /\ UNCHANGED <<held, late>>
  <2>1. Serve(m) /\ UNCHANGED late
    BY <1>5 DEF Answered
  <2> QED BY <1>1, <1>2, <1>3, <1>4, <1>6, <2>1, ServedVia
<1>8. /\ next.at = "finding" /\ next.node = k.node /\ next.ask = k.ask \ {p}
      /\ next.stored = k.stored
  BY <1>1, <1>2 DEF Running
<1>9. next.ask \subseteq contacts[next.node] /\ ~next.stored
  BY <1>1, <1>3, <1>8 DEF TasksVia
<1>10. \A n, h : ~Announcing(k, n, h, s, records)
  BY <1>1, NotAnnouncing
<1> HIDE DEF next
<1> QED BY <1>1, <1>2, <1>5, <1>7, <1>8, <1>9, <1>10, GotoFound

\* One that only changes the task, and perhaps takes chunks out of stores.
LEMMA QuietFound ==
  ASSUME TypeOK, TypeOK', NEW s \in Nodes, FoundInv(s),
         UNCHANGED <<up, late, joining, contacts, records>>,
         \A n \in Nodes : held'[n] \subseteq held[n],
         NEW t \in Tasks, NEW next, Goto(t, next),
         \A n \in Nodes, h \in Hashes : ~Announcing(task[t], n, h, s, records),
         next.at = "finding" => next.node \in Nodes /\ next.ask \subseteq contacts[next.node],
         next.at \notin {"replicating", "fallback"}, ~next.stored
  PROVE  FoundInv(s)'
<1>1. Growing /\ ContactsVia(s)'
  BY DEF FoundInv, Growing, ContactsVia
<1> QED BY <1>1, GotoFound

LEMMA RemoveShrinks ==
  ASSUME TypeOK, NEW n \in Nodes, NEW h, Remove(n, h)
  PROVE  \A q \in Nodes : held'[q] \subseteq held[q]
BY DEF Remove, TypeOK

LEMMA LookupFound ==
  ASSUME TypeOK, TypeOK', Faultless, NEW s \in Nodes, FoundInv(s), NEW t \in Tasks,
         Found(t) \/ NotFound(t) \/ Deleted(t)
  PROVE  FoundInv(s)'
<1> DEFINE k == task[t]
<1>1. k.at \in {"finding", "fetching", "spreading"} /\ UNCHANGED <<up, held, joining, contacts, records, late>>
  BY DEF Found, NotFound, Deleted
<1>2. k \in Running /\ ~k.stored
  BY <1>1, RunningTask DEF FoundInv, TasksVia
<1>3. PICK next \in {Idle, [k EXCEPT !.at = "fetching", !.ask = k.found, !.found = {}],
                     [k EXCEPT !.at = "spreading", !.ask = k.found \ {k.node}, !.found = {}]} :
        Goto(t, next)
  BY DEF Found, NotFound, Deleted
<1>4. next.at \in {"idle", "fetching", "spreading"} /\ ~next.stored
  <2>1. CASE next = Idle
    BY <2>1 DEF Idle
  <2>2. CASE next = [k EXCEPT !.at = "fetching", !.ask = k.found, !.found = {}]
    BY <1>2, <2>2 DEF Running
  <2>3. CASE next = [k EXCEPT !.at = "spreading", !.ask = k.found \ {k.node}, !.found = {}]
    BY <1>2, <2>3 DEF Running
  <2> QED BY <1>3, <2>1, <2>2, <2>3
<1>5. \A n, h : ~Announcing(k, n, h, s, records)
  BY <1>1, NotAnnouncing
<1> QED BY <1>1, <1>3, <1>4, <1>5, QuietFound

LEMMA FetchFound ==
  ASSUME TypeOK, TypeOK', Faultless, NEW s \in Nodes, FoundInv(s), NEW t \in Tasks,
         NEW p \in Nodes, Fetch(t, p)
  PROVE  FoundInv(s)'
<1> DEFINE k == task[t]
<1>1. k.at = "fetching" /\ UNCHANGED <<up, held, joining, contacts, records, late>>
  BY DEF Fetch
<1>2. k \in Running /\ ~k.stored
  BY <1>1, RunningTask DEF FoundInv, TasksVia
<1>3. PICK next \in {[k EXCEPT !.at = "caching", !.ask = {}], [k EXCEPT !.ask = @ \ {p}]} :
        Goto(t, next)
  BY DEF Fetch
<1>4. next.at \in {"caching", "fetching"} /\ ~next.stored
  BY <1>1, <1>2, <1>3 DEF Running
<1>5. \A n, h : ~Announcing(k, n, h, s, records)
  BY <1>1, NotAnnouncing
<1> QED BY <1>1, <1>3, <1>4, <1>5, QuietFound

LEMMA SpreadFound ==
  ASSUME TypeOK, TypeOK', Faultless, NEW s \in Nodes, FoundInv(s), NEW t \in Tasks,
         NEW p \in Nodes, Spread(t, p)
  PROVE  FoundInv(s)'
<1> DEFINE k == task[t]
           m == Message("delete", t, p)
           next == [k EXCEPT !.ask = @ \ {p}]
<1>1. k.at = "spreading" /\ UNCHANGED <<up, joining>> /\ m \in Messages /\ Goto(t, next)
  BY MessageType DEF Spread
<1>2. k \in Running /\ ~k.stored /\ up = Nodes
  BY <1>1, RunningTask DEF FoundInv, TasksVia
<1>3. Answered(m) /\ m.type = "delete" /\ m.to = p
  BY <1>1, <1>2, AllAnswered DEF Spread, Message
<1>4. Remove(p, m.hash) /\ UNCHANGED <<contacts, records, late>>
  BY <1>3 DEF Answered, Serve
<1>5. \A n \in Nodes : held'[n] \subseteq held[n]
  BY <1>4, RemoveShrinks
<1>6. next.at = "spreading" /\ ~next.stored
  BY <1>1, <1>2 DEF Running
<1>7. \A n, h : ~Announcing(k, n, h, s, records)
  BY <1>1, NotAnnouncing
<1> HIDE DEF next
<1> QED BY <1>1, <1>4, <1>5, <1>6, <1>7, QuietFound

\* A chunk that enters a store does so with a task that announces it.
LEMMA PutFound ==
  ASSUME TypeOK, TypeOK', NEW s \in Nodes, FoundInv(s),
         UNCHANGED <<up, late, joining, contacts, records>>,
         NEW n \in Nodes, NEW h \in Hashes, Put(n, h), NEW t \in Tasks, NEW next, Goto(t, next),
         \A q \in Nodes, g \in Hashes : ~Announcing(task[t], q, g, s, records),
         next.at = "announcing", next.node = n, next.hash = h, ~next.stored
  PROVE  FoundInv(s)'
<1>1. Growing /\ ContactsVia(s)'
  BY DEF FoundInv, Growing, ContactsVia
<1>2. \A q \in Nodes : \A g \in held'[q] : g \in held[q] \/ (q = n /\ g = h)
  BY DEF Put, TypeOK
<1>3. Announcing(next, n, h, s, records')
  BY DEF Announcing
<1> QED BY <1>1, <1>2, <1>3, GotoFound

LEMMA CacheFound ==
  ASSUME TypeOK, TypeOK', Faultless, NEW s \in Nodes, FoundInv(s), NEW t \in Tasks, Cache(t)
  PROVE  FoundInv(s)'
<1> DEFINE k == task[t]
           next == [k EXCEPT !.at = "announcing"]
<1>1. k.at = "caching" /\ UNCHANGED <<up, joining, contacts, records, late>>
  BY DEF Cache
<1>2. k \in Running /\ ~k.stored /\ k.node \in Nodes /\ k.hash \in Hashes
  BY <1>1, RunningTask DEF FoundInv, TasksVia, Running, TypeOK
<1>3. Put(k.node, k.hash) /\ Goto(t, next)
  BY <1>2 DEF Cache, Faultless
<1>4. next.at = "announcing" /\ next.node = k.node /\ next.hash = k.hash /\ ~next.stored
  BY <1>2 DEF Running
<1>5. \A n, h : ~Announcing(k, n, h, s, records)
  BY <1>1, NotAnnouncing
<1> HIDE DEF next
<1> QED BY <1>1, <1>2, <1>3, <1>4, <1>5, PutFound

LEMMA RequestFound ==
  ASSUME TypeOK, TypeOK', Faultless, NEW s \in Nodes, FoundInv(s), NEW t \in Tasks, Request(t)
  PROVE  FoundInv(s)'
<1> SUFFICES ASSUME NEW n \in Nodes, NEW h \in Hashes, Post(t, n, h) \/ Get(t, n, h) \/ Delete(t, n, h)
             PROVE  FoundInv(s)'
  BY DEF Request
<1>1. task[t] = Idle /\ UNCHANGED <<up, joining, contacts, records, late>>
  BY DEF Post, Get, Delete
<1>2. \A q, g : ~Announcing(task[t], q, g, s, records)
  BY <1>1, NotAnnouncing DEF Idle
<1>3. ASSUME NEW op PROVE LET next == Finding(op, n, h) IN
        next.at = "finding" /\ next.node = n /\ next.ask \subseteq contacts[n] /\ ~next.stored
  BY DEF Finding, Idle
<1>4. CASE Post(t, n, h)
  <2> DEFINE next == [Idle EXCEPT !.at = "announcing", !.op = "POST", !.node = n, !.hash = h]
  <2>1. next.at = "announcing" /\ next.node = n /\ next.hash = h /\ ~next.stored
    BY DEF Idle
  <2>2. Goto(t, next) /\ Put(n, h)
    BY <1>4 DEF Post
  <2> HIDE DEF next
  <2> QED BY <1>1, <1>2, <2>1, <2>2, PutFound
<1>5. CASE Get(t, n, h)
  <2> DEFINE next == Finding("GET", n, h)
  <2>1. next.at = "finding" /\ next.node = n /\ next.ask \subseteq contacts[n] /\ ~next.stored
    BY <1>3
  <2>2. Goto(t, next) /\ UNCHANGED held
    BY <1>5 DEF Get
  <2> HIDE DEF next
  <2> QED BY <1>1, <1>2, <2>1, <2>2, QuietFound
<1>6. CASE Delete(t, n, h)
  <2>1. \A q \in Nodes : held'[q] \subseteq held[q]
    BY <1>6, RemoveShrinks DEF Delete
  <2>2. CASE task' = task
    <3>1. Idle.at = "idle" /\ ~Idle.stored /\ Goto(t, Idle)
      BY <1>1, <2>2 DEF Idle, Goto, TypeOK
    <3> QED BY <1>1, <1>2, <2>1, <3>1, QuietFound
  <2>3. CASE Goto(t, Finding("DELETE", n, h))
    <3> DEFINE next == Finding("DELETE", n, h)
    <3>1. next.at = "finding" /\ next.node = n /\ next.ask \subseteq contacts[n] /\ ~next.stored
      BY <1>3
    <3>2. Goto(t, next)
      BY <2>3
    <3> HIDE DEF next
    <3> QED BY <1>1, <1>2, <2>1, <3>1, <3>2, QuietFound
  <2> QED BY <1>6, <2>2, <2>3 DEF Delete
<1> QED BY <1>4, <1>5, <1>6

LEMMA BootstrapFound ==
  ASSUME TypeOK, Faultless, NEW s \in Nodes, FoundInv(s), NEW n \in Nodes, Bootstrap(n)
  PROVE  FoundInv(s)'
<1> DEFINE b == Head(joining[n])
           m == [type |-> "ping", from |-> n, to |-> b, hash |-> None]
<1>1. /\ joining[n] \in Seq(Nodes) /\ joining[n] # <<>> /\ UNCHANGED <<up, held, records, task>>
      /\ up = Nodes /\ late = {} /\ ContactsVia(s) /\ JoiningVia(s) /\ TasksVia(s)
  BY DEF Bootstrap, TypeOK, FoundInv
<1>2. /\ b \in Range(joining[n]) /\ Range(Tail(joining[n])) \subseteq Range(joining[n])
      /\ Range(joining[n]) \subseteq {b} \cup Range(Tail(joining[n]))
  BY <1>1, TailRange
<1>3. b \in Nodes /\ b \in {s, n} /\ m \in Messages
  <2>1. b \in {s, n}
    BY <1>1, <1>2 DEF JoiningVia
  <2> QED BY <2>1 DEF Messages
<1>4. ~Unanswered(m)
  BY <1>1, <1>3, AllAnswered
<1>5. /\ late' = {} /\ ContactsVia(s)' /\ JoiningVia(s)'
      /\ \A q \in Nodes : contacts[q] \subseteq contacts'[q]
  <2>1. CASE b = n /\ joining' = [joining EXCEPT ![n] = Tail(joining[n])] /\ UNCHANGED <<contacts, late>>
    <3>1. ContactsVia(s)' /\ late' = {}
      BY <1>1, <2>1 DEF ContactsVia
    <3>2. \A q \in Nodes : joining'[q] = IF q = n THEN Tail(joining[n]) ELSE joining[q]
      BY <2>1 DEF TypeOK
    <3>3. JoiningVia(s)'
      <4> SUFFICES ASSUME NEW q \in Nodes
                   PROVE  /\ Range(joining'[q]) \subseteq {s, q}
                          /\ q # s => s \in Range(joining'[q]) \/ s \in contacts'[q]
        BY DEF JoiningVia
      <4>1. CASE q = n
        BY <1>1, <1>2, <2>1, <3>2, <4>1 DEF JoiningVia
      <4>2. CASE q # n
        BY <1>1, <2>1, <3>2, <4>2 DEF JoiningVia
      <4> QED BY <4>1, <4>2
    <3> QED BY <2>1, <3>1, <3>3
  <2>2. CASE /\ b # n /\ joining' = [joining EXCEPT ![n] = <<>>] /\ UNCHANGED late
             /\ contacts' = [contacts EXCEPT ![n] = @ \cup {b}, ![b] = @ \cup {n}]
    <3>1. b = s /\ n # s
      BY <1>3, <2>2
    <3>2. \A q \in Nodes : contacts'[q] = contacts[q] \cup (IF q = n THEN {s} ELSE IF q = s THEN {n} ELSE {})
      BY <2>2, <3>1 DEF TypeOK
    <3>3. \A q \in Nodes : contacts[q] \subseteq contacts'[q] /\ contacts[q] \subseteq Nodes
      BY <3>2 DEF TypeOK
    <3>4. ContactsVia(s)'
      <4> SUFFICES ASSUME NEW f \in Nodes \ {s}, NEW p \in contacts'[f]
                   PROVE  s \in contacts'[f] /\ (p # s => s \in contacts'[p])
        BY DEF ContactsVia
      <4>1. p \in contacts[f] \/ (p = s /\ f = n)
        BY <3>2
      <4>2. CASE p \in contacts[f]
        BY <1>1, <3>3, <4>2 DEF ContactsVia
      <4>3. CASE p = s /\ f = n
        BY <4>3
      <4> QED BY <4>1, <4>2, <4>3
    <3>5. /\ \A q \in Nodes \ {n} : joining'[q] = joining[q]
          /\ joining'[n] = <<>> /\ Range(joining'[n]) = {}
      BY <2>2 DEF TypeOK, Range
    <3>6. JoiningVia(s)'
      <4> SUFFICES ASSUME NEW q \in Nodes
                   PROVE  /\ Range(joining'[q]) \subseteq {s, q}
                          /\ q # s => s \in Range(joining'[q]) \/ s \in contacts'[q]
        BY DEF JoiningVia
      <4>1. CASE q = n
        BY <3>2, <3>5, <4>1
      <4>2. CASE q # n
        BY <1>1, <3>3, <3>5, <4>2 DEF JoiningVia
      <4> QED BY <4>1, <4>2
    <3> QED BY <1>1, <2>2, <3>3, <3>4, <3>6
  <2> QED BY <1>4, <2>1, <2>2 DEF Bootstrap
<1>6. TasksVia(s)'
  <2> SUFFICES ASSUME NEW u \in Tasks, task[u].at \in {"replicating", "finding"}
               PROVE  task[u].ask \subseteq contacts'[task[u].node]
    BY <1>1 DEF TasksVia
  <2>1. task[u].node \in Nodes
    BY RunningTask DEF Running, TypeOK
  <2> QED BY <1>1, <1>5, <2>1 DEF TasksVia
<1> QED BY <1>1, <1>5, <1>6 DEF FoundInv

LEMMA InitFound ==
  ASSUME NEW s, Star(s), Init
  PROVE  FoundInv(s)
BY ConstantsAssumption DEF Init, FoundInv, ContactsVia, JoiningVia, TasksVia, Star, Idle

LEMMA FoundStep ==
  ASSUME NEW s, Star(s), Faultless, TypeOK, TypeOK', FoundInv(s), [Next]_vars
  PROVE  FoundInv(s)'
<1>1. s \in Nodes /\ up = Nodes /\ late = {}
  BY DEF Star, FoundInv
<1>2. ASSUME NEW t \in Tasks, Request(t) PROVE FoundInv(s)'
  BY <1>1, <1>2, RequestFound
<1>3. ASSUME NEW t \in Tasks, Step(t) PROVE FoundInv(s)'
  BY <1>1, <1>3, AnnounceFound, ReplicatedFound, ReplicateFound, AskProvidersFound, LookupFound,
     FetchFound, SpreadFound, CacheFound DEF Step
<1>4. ASSUME NEW n \in Nodes, Bootstrap(n) PROVE FoundInv(s)'
  BY <1>1, <1>4, BootstrapFound
<1>5. ASSUME NEW n \in Nodes PROVE ~Crash(n) /\ ~Restart(n)
  BY <1>1 DEF Crash, Restart, Faultless
<1>6. CASE UNCHANGED vars
  BY <1>6 DEF FoundInv, ContactsVia, JoiningVia, TasksVia, vars
<1> QED BY <1>1, <1>2, <1>3, <1>4, <1>5, <1>6 DEF Next

\* A chunk that no task is about is on record where every node past its bootstrap asks.
LEMMA FoundBy ==
  ASSUME NEW s, FoundInv(s), NEW n \in Nodes, NEW m \in Nodes, NEW h \in held[n],
         joining[m] = <<>>, \A t \in Tasks : task[t].at = "idle" \/ task[t].hash # h
  PROVE  \E q \in {m} \cup contacts[m] : n \in records[q][h]
<1>1. \A t \in Tasks : ~Announcing(task[t], n, h, s, records)
  BY DEF Announcing
<1>2. n \in records[n][h] /\ (n # s => n \in records[s][h])
  BY <1>1 DEF FoundInv, OnRecord
<1>3. m # s => s \in contacts[m]
  BY DEF FoundInv, JoiningVia, Range
<1> QED BY <1>2, <1>3

\* In a cluster without faults whose nodes all join at one seed, of whatever size, and
\* whatever is requested at the same time: once all is quiet, each node past its
\* bootstrap finds every holder of a chunk by asking its contacts.
THEOREM HoldersAreFindable ==
  ASSUME NEW s, Star(s), Faultless
  PROVE  Spec => []HoldersFindable
<1>1. Init => FoundInv(s)
  BY InitFound
<1>2. TypeOK /\ TypeOK' /\ FoundInv(s) /\ [Next]_vars => FoundInv(s)'
  BY FoundStep
<1>3. FoundInv(s) => HoldersFindable
  BY FoundBy DEF HoldersFindable, AtRest, Idle
<1> QED BY <1>1, <1>2, <1>3, TypeCorrect, PTL DEF Spec
-------------------------------------------------------------------------------
(* A global delete in such a cluster, when there is one request at a time for each *)
(* chunk.                                                                           *)

\* Of each copy left, the task k knows the holder or will be told of it.
Tracking(k, store, recs) ==
  /\ k.at = "finding" /\ k.op = "DELETE" =>
       \A n \in Nodes : k.hash \in store[n] =>
         n # k.node /\ (n \in k.found \/ \E q \in k.ask : n \in recs[q][k.hash])
  /\ k.at = "spreading" => \A n \in Nodes : k.hash \in store[n] => n \in k.ask

OrderlyInv ==
  /\ \A t, u \in Tasks :
       task[t] # Idle /\ task[u] # Idle /\ task[t].hash = task[u].hash => t = u
  /\ (\E t \in Tasks : task[t] # Idle) => Joined
  /\ \A t \in Tasks : Tracking(task[t], held, records)

LEMMA QuietTracking ==
  ASSUME NEW k, k.at \notin {"finding", "spreading"}
  PROVE  \A store, recs : Tracking(k, store, recs)
BY DEF Tracking

\* What is left to show of a step that ends with the task t at next.
LEMMA GotoOrderly ==
  ASSUME TypeOK, TypeOK', OrderlyInv, UNCHANGED <<up, joining>>, NEW t \in Tasks, NEW next,
         Goto(t, next), Tracking(next, held', records'),
         \A q \in Nodes, h \in Hashes : records[q][h] \subseteq records'[q][h],
         \A n \in Nodes : \A h \in held'[n] : h \in held[n] \/ (next # Idle /\ h = next.hash),
         next # Idle => IF task[t] = Idle
                        THEN Joined /\ \A u \in Tasks : task[u].hash # next.hash
                        ELSE next.hash = task[t].hash
  PROVE  OrderlyInv'
<1>1. \A u \in Tasks : task'[u] = IF u = t THEN next ELSE task[u]
  BY DEF Goto, TypeOK
<1>2. ASSUME NEW u \in Tasks \ {t}, task[u] # Idle, next # Idle PROVE task[u].hash # next.hash
  BY <1>2 DEF OrderlyInv
<1>3. ASSUME NEW u \in Tasks, NEW w \in Tasks, task'[u] # Idle, task'[w] # Idle,
             task'[u].hash = task'[w].hash
      PROVE  u = w
  BY <1>1, <1>2, <1>3 DEF OrderlyInv
<1>4. (\E u \in Tasks : task'[u] # Idle) => Joined'
  <2>1. Joined => Joined'
    BY DEF Joined
  <2>2. next # Idle => Joined
    BY DEF OrderlyInv
  <2> QED BY <1>1, <2>1, <2>2 DEF OrderlyInv
<1>5. ASSUME NEW u \in Tasks \ {t} PROVE Tracking(task[u], held', records')
  <2>1. CASE task[u].at \notin {"finding", "spreading"}
    BY <2>1, QuietTracking
  <2>2. CASE task[u].at \in {"finding", "spreading"}
    <3>1. task[u] # Idle /\ task[u] \in Running
      BY <2>2, RunningTask DEF Idle
    <3>2. task[u].hash \in Hashes /\ task[u].ask \subseteq Nodes
      BY <3>1 DEF Running
    <3>3. \A n \in Nodes : task[u].hash \in held'[n] => task[u].hash \in held[n]
      BY <1>2, <3>1
    <3>4. Tracking(task[u], held, records)
      BY DEF OrderlyInv
    <3> QED BY <3>2, <3>3, <3>4 DEF Tracking
  <2> QED BY <2>1, <2>2
<1>6. \A u \in Tasks : Tracking(task'[u], held', records')
  BY <1>1, <1>5
<1> QED BY <1>3, <1>4, <1>6 DEF OrderlyInv

LEMMA AskProvidersOrderly ==
  ASSUME TypeOK, TypeOK', Faultless, up = Nodes, OrderlyInv, NEW t \in Tasks, NEW p \in Nodes,
         AskProviders(t, p)
  PROVE  OrderlyInv'
<1> DEFINE k == task[t]
           m == Message("find", t, p)
           next == [k EXCEPT !.ask = @ \ {p}, !.found = @ \cup records[p][k.hash]]
<1>1. k.at = "finding" /\ p \in k.ask /\ UNCHANGED <<up, joining>> /\ m \in Messages
  BY MessageType DEF AskProviders
<1>2. k \in Running /\ k # Idle
  BY <1>1, RunningTask DEF Idle
<1>3. Answered(m) /\ Goto(t, next) /\ m.type = "find"
  BY <1>1, AllAnswered DEF AskProviders, Message
<1>4. UNCHANGED <<held, records>>
  BY <1>3 DEF Answered, Serve
<1>5. /\ next.at = "finding" /\ next.op = k.op /\ next.node = k.node /\ next.hash = k.hash
      /\ next.ask = k.ask \ {p} /\ next.found = k.found \cup records[p][k.hash]
  BY <1>1, <1>2 DEF Running
<1>6. Tracking(next, held', records')
  <2>1. Tracking(k, held, records)
    BY DEF OrderlyInv
  <2> HIDE DEF next
  <2> QED BY <1>1, <1>4, <1>5, <2>1 DEF Tracking
<1> HIDE DEF next
<1> QED BY <1>1, <1>2, <1>3, <1>4, <1>5, <1>6, GotoOrderly

\* The providers found become those who are told to delete.
LEMMA FoundOrderly ==
  ASSUME TypeOK, TypeOK', OrderlyInv, NEW t \in Tasks, Found(t)
  PROVE  OrderlyInv'
<1> DEFINE k == task[t]
           fetch == [k EXCEPT !.at = "fetching", !.ask = k.found, !.found = {}]
           spread == [k EXCEPT !.at = "spreading", !.ask = k.found \ {k.node}, !.found = {}]
<1>1. k.at = "finding" /\ k.ask = {} /\ UNCHANGED <<up, held, joining, records>>
  BY DEF Found
<1>2. k \in Running /\ k # Idle
  BY <1>1, RunningTask DEF Idle
<1>3. CASE Goto(t, fetch)
  <2>1. fetch.at = "fetching" /\ fetch.hash = k.hash
    BY <1>2 DEF Running
  <2> HIDE DEF fetch
  <2> QED BY <1>1, <1>2, <1>3, <2>1, QuietTracking, GotoOrderly
<1>4. CASE k.op = "DELETE" /\ Goto(t, spread)
  <2>1. spread.at = "spreading" /\ spread.hash = k.hash /\ spread.ask = k.found \ {k.node}
    BY <1>2 DEF Running
  <2>2. Tracking(k, held, records)
    BY DEF OrderlyInv
  <2> HIDE DEF spread
  <2>3. Tracking(spread, held', records')
    BY <1>1, <1>4, <2>1, <2>2 DEF Tracking
  <2> QED BY <1>1, <1>2, <1>4, <2>1, <2>3, GotoOrderly
<1> QED BY <1>3, <1>4 DEF Found

LEMMA SpreadOrderly ==
  ASSUME TypeOK, TypeOK', Faultless, up = Nodes, OrderlyInv, NEW t \in Tasks, NEW p \in Nodes,
         Spread(t, p)
  PROVE  OrderlyInv'
<1> DEFINE k == task[t]
           m == Message("delete", t, p)
           next == [k EXCEPT !.ask = @ \ {p}]
<1>1. k.at = "spreading" /\ UNCHANGED <<up, joining>> /\ m \in Messages /\ Goto(t, next)
  BY MessageType DEF Spread
<1>2. k \in Running /\ k # Idle
  BY <1>1, RunningTask DEF Idle
<1>3. Answered(m) /\ m.type = "delete" /\ m.to = p /\ m.hash = k.hash
  BY <1>1, AllAnswered DEF Spread, Message
<1>4. UNCHANGED records /\ held' = [held EXCEPT ![p] = @ \ {k.hash}]
  BY <1>3 DEF Answered, Serve, Remove, Faultless
<1>5. /\ \A n \in Nodes : held'[n] \subseteq held[n]
      /\ k.hash \notin held'[p]
  BY <1>4 DEF TypeOK
<1>6. next.at = "spreading" /\ next.hash = k.hash /\ next.ask = k.ask \ {p}
  BY <1>1, <1>2 DEF Running
<1> HIDE DEF next
<1>7. Tracking(next, held', records')
  <2>1. Tracking(k, held, records)
    BY DEF OrderlyInv
  <2> QED BY <1>1, <1>5, <1>6, <2>1 DEF Tracking
<1> QED BY <1>1, <1>2, <1>4, <1>5, <1>6, <1>7, GotoOrderly

\* The steps of an announcement and of a fetch.
LEMMA AnnounceOrderly ==
  ASSUME TypeOK, TypeOK', OrderlyInv, NEW t \in Tasks, Announce(t)
  PROVE  OrderlyInv'
<1> DEFINE k == task[t]
           next == [k EXCEPT !.at = "replicating", !.ask = contacts[k.node] \ {k.node}]
<1>1. /\ k.at = "announcing" /\ UNCHANGED <<up, held, joining>>
      /\ Record(k.node, k.hash, k.node) /\ Goto(t, next)
  BY DEF Announce
<1>2. k \in Running /\ k # Idle /\ k.node \in Nodes /\ k.hash \in Hashes
  BY <1>1, RunningTask DEF Idle, Running, TypeOK
<1>3. \A q \in Nodes, h \in Hashes : records[q][h] \subseteq records'[q][h]
  BY <1>1, <1>2, RecordGrows
<1>4. next.at = "replicating" /\ next.hash = k.hash
  BY <1>2 DEF Running
<1> HIDE DEF next
<1> QED BY <1>1, <1>2, <1>3, <1>4, QuietTracking, GotoOrderly

LEMMA ReplicateOrderly ==
  ASSUME TypeOK, TypeOK', Faultless, up = Nodes, OrderlyInv, NEW t \in Tasks, NEW p \in Nodes,
         Replicate(t, p)
  PROVE  OrderlyInv'
<1> DEFINE k == task[t]
           m == Message("store", t, p)
           next == [k EXCEPT !.ask = @ \ {p}, !.stored = TRUE]
<1>1. k.at \in {"replicating", "fallback"} /\ UNCHANGED <<up, joining>> /\ m \in Messages
  BY MessageType DEF Replicate
<1>2. k \in Running /\ k # Idle /\ k.node \in Nodes /\ k.hash \in Hashes
  BY <1>1, RunningTask DEF Idle, Running, TypeOK
<1>3. Answered(m) /\ Goto(t, next) /\ m.type = "store" /\ m.from = k.node /\ m.to = p /\ m.hash = k.hash
  BY <1>1, AllAnswered DEF Replicate, Message
<1>4. UNCHANGED held /\ Record(p, k.hash, k.node)
  BY <1>3 DEF Answered, Serve
<1>5. \A q \in Nodes, h \in Hashes : records[q][h] \subseteq records'[q][h]
  BY <1>2, <1>4, RecordGrows
<1>6. next.at = k.at /\ next.hash = k.hash
  BY <1>2 DEF Running
<1> HIDE DEF next
<1> QED BY <1>1, <1>2, <1>3, <1>4, <1>5, <1>6, QuietTracking, GotoOrderly

\* A step after which the task makes no calls about deletes, or is no more.
LEMMA QuietOrderly ==
  ASSUME TypeOK, TypeOK', Faultless, OrderlyInv, NEW t \in Tasks,
         Replicated(t) \/ NotFound(t) \/ Deleted(t) \/ Cache(t) \/ \E p \in Nodes : Fetch(t, p)
  PROVE  OrderlyInv'
<1> DEFINE k == task[t]
<1>1. k.at \in Phases /\ UNCHANGED <<up, joining, records>>
  BY DEF Replicated, NotFound, Deleted, Cache, Fetch, Phases
<1>2. k \in Running /\ k # Idle /\ k.node \in Nodes /\ k.hash \in Hashes
  BY <1>1, RunningTask DEF Idle, Running, TypeOK, Phases
<1>3. \A n \in Nodes : \A h \in held'[n] : h \in held[n] \/ (Cache(t) /\ h = k.hash)
  <2>1. CASE Cache(t)
    <3>1. Put(k.node, k.hash)
      BY <2>1 DEF Cache, Faultless
    <3>2. held' = [held EXCEPT ![k.node] = @ \cup {k.hash}]
      BY <3>1 DEF Put
    <3> QED BY <2>1, <3>2 DEF TypeOK
  <2>2. CASE ~Cache(t)
    BY <2>2 DEF Replicated, NotFound, Deleted, Fetch
  <2> QED BY <2>1, <2>2
<1>4. Cache(t) => Goto(t, [k EXCEPT !.at = "announcing"])
  BY <1>2 DEF Cache, Faultless
<1>5. ASSUME NEW next, Goto(t, next), next.at \notin {"finding", "spreading"},
             next # Idle => next.hash = k.hash, next = Idle => ~Cache(t)
      PROVE  OrderlyInv'
  BY <1>1, <1>2, <1>3, <1>5, QuietTracking, GotoOrderly
<1>6. CASE ~Cache(t) /\ Goto(t, Idle)
  BY <1>5, <1>6 DEF Idle
<1>7. ASSUME NEW at \in {"fallback", "fetching", "caching", "announcing"}, NEW ask,
             Goto(t, [k EXCEPT !.at = at, !.ask = ask])
      PROVE  OrderlyInv'
  <2> DEFINE next == [k EXCEPT !.at = at, !.ask = ask]
  <2>1. next.at = at /\ next.hash = k.hash /\ next # Idle /\ Goto(t, next)
    BY <1>2, <1>7 DEF Running, Idle
  <2> HIDE DEF next
  <2>2. next.at \notin {"finding", "spreading"}
    BY <1>7, <2>1
  <2> QED BY <1>5, <2>1, <2>2
<1>8. CASE Cache(t)
  <2>1. [k EXCEPT !.at = "announcing"] = [k EXCEPT !.at = "announcing", !.ask = k.ask]
    BY <1>2 DEF Running
  <2> QED BY <1>4, <1>7, <1>8, <2>1
<1>9. ASSUME NEW p \in Nodes, Fetch(t, p) PROVE OrderlyInv'
  <2>1. [k EXCEPT !.ask = @ \ {p}] = [k EXCEPT !.at = "fetching", !.ask = k.ask \ {p}]
    BY <1>2, <1>9 DEF Fetch, Running
  <2> QED BY <1>7, <1>9, <2>1 DEF Fetch
<1>10. CASE Replicated(t)
  <2>1. ~Cache(t)
    BY <1>10 DEF Replicated, Cache
  <2> QED BY <1>6, <1>7, <1>10, <2>1 DEF Replicated
<1>11. CASE NotFound(t) \/ Deleted(t)
  <2>1. ~Cache(t)
    BY <1>11 DEF NotFound, Deleted, Cache
  <2> QED BY <1>6, <1>11, <2>1 DEF NotFound, Deleted
<1> QED BY <1>8, <1>9, <1>10, <1>11

\* A global delete begins with all that is on record at its node and with every contact.
LEMMA RequestOrderly ==
  ASSUME TypeOK, TypeOK', Faultless, NEW s, FoundInv(s), OrderlyInv, OneAtATime,
         NEW t \in Tasks, Request(t)
  PROVE  OrderlyInv'
<1> SUFFICES ASSUME NEW n \in Nodes, NEW h \in Hashes, Post(t, n, h) \/ Get(t, n, h) \/ Delete(t, n, h)
             PROVE  OrderlyInv'
  BY DEF Request
<1>1. task[t] = Idle /\ UNCHANGED <<up, joining, records>>
  BY DEF Post, Get, Delete
<1>2. ASSUME NEW next, Goto(t, next), next # Idle, next.hash = h
      PROVE  Joined /\ up = Nodes /\ \A u \in Tasks : task[u].hash # h
  <2>1. task'[t] = next
    BY <1>2 DEF Goto, TypeOK
  <2> QED BY <1>1, <1>2, <2>1 DEF OneAtATime
<1>3. ASSUME NEW op PROVE LET next == Finding(op, n, h) IN
        /\ next.at = "finding" /\ next.op = op /\ next.node = n /\ next.hash = h /\ next # Idle
        /\ next.ask = contacts[n] \ {n} /\ next.found = records[n][h]
  BY DEF Finding, Idle
<1>4. CASE Post(t, n, h)
  <2> DEFINE next == [Idle EXCEPT !.at = "announcing", !.op = "POST", !.node = n, !.hash = h]
  <2>1. next.at = "announcing" /\ next.hash = h /\ next # Idle
    BY DEF Idle
  <2>2. Goto(t, next) /\ held' = [held EXCEPT ![n] = @ \cup {h}]
    BY <1>4 DEF Post, Put
  <2>3. \A q \in Nodes : \A g \in held'[q] : g \in held[q] \/ g = h
    BY <2>2 DEF TypeOK
  <2> HIDE DEF next
  <2>4. Joined /\ \A u \in Tasks : task[u].hash # next.hash
    BY <1>2, <2>1, <2>2
  <2>5. Tracking(next, held', records')
    BY <2>1, QuietTracking
  <2> QED BY <1>1, <2>1, <2>2, <2>3, <2>4, <2>5, GotoOrderly
<1>5. CASE Get(t, n, h)
  <2> DEFINE next == Finding("GET", n, h)
  <2>1. next.at = "finding" /\ next.op = "GET" /\ next.hash = h /\ next # Idle
    BY <1>3
  <2>2. Goto(t, next) /\ UNCHANGED held
    BY <1>5 DEF Get
  <2> HIDE DEF next
  <2>3. Joined /\ \A u \in Tasks : task[u].hash # next.hash
    BY <1>2, <2>1, <2>2
  <2>4. Tracking(next, held', records')
    BY <2>1 DEF Tracking
  <2> QED BY <1>1, <2>1, <2>2, <2>3, <2>4, GotoOrderly
<1>6. CASE Delete(t, n, h)
  <2>1. held' = [held EXCEPT ![n] = @ \ {h}]
    BY <1>6 DEF Delete, Remove, Faultless
  <2>2. (\A q \in Nodes : held'[q] \subseteq held[q]) /\ h \notin held'[n]
    BY <2>1 DEF TypeOK
  <2>3. CASE task' = task
    <3>1. Goto(t, Idle)
      BY <1>1, <2>3 DEF Goto, TypeOK
    <3>2. Tracking(Idle, held', records')
      BY QuietTracking DEF Idle
    <3> QED BY <1>1, <2>2, <3>1, <3>2, GotoOrderly
  <2>4. CASE Goto(t, Finding("DELETE", n, h))
    <3> DEFINE next == Finding("DELETE", n, h)
    <3>1. /\ next.at = "finding" /\ next.op = "DELETE" /\ next.node = n /\ next.hash = h
          /\ next # Idle /\ next.ask = contacts[n] \ {n} /\ next.found = records[n][h]
      BY <1>3
    <3>2. Goto(t, next)
      BY <2>4
    <3> HIDE DEF next
    <3>3. Joined /\ up = Nodes /\ \A u \in Tasks : task[u].hash # h
      BY <1>2, <3>1, <3>2
    <3>4. ASSUME NEW q \in Nodes, h \in held'[q]
          PROVE  q # n /\ (q \in next.found \/ \E p \in next.ask : q \in records[p][h])
      <4>1. h \in held[q] /\ q # n /\ joining[n] = <<>>
        BY <2>2, <3>3, <3>4 DEF Joined
      <4>2. PICK p \in {n} \cup contacts[n] : q \in records[p][h]
        BY <3>3, <4>1, FoundBy
      <4> QED BY <3>1, <4>1, <4>2
    <3>5. Tracking(next, held', records')
      BY <1>1, <3>1, <3>4 DEF Tracking
    <3> QED BY <1>1, <2>2, <3>1, <3>2, <3>3, <3>5, GotoOrderly
  <2> QED BY <1>6, <2>3, <2>4 DEF Delete
<1> QED BY <1>4, <1>5, <1>6

\* In a cluster without faults whose nodes all join at one seed, of whatever size: when
\* the requests for a chunk come one after another, while those for other chunks run at
\* the same time, a global delete that is about to answer has left no copy.
THEOREM DeletesReachEveryCopy ==
  ASSUME NEW s, Star(s), Faultless
  PROVE  SequentialSpec => []DeletesEverywhere
<1> DEFINE Inv == TypeOK /\ FoundInv(s) /\ OrderlyInv
<1>1. Init => Inv
  <2> SUFFICES ASSUME Init PROVE Inv
    OBVIOUS
  <2>1. TypeOK
    BY InitType
  <2>2. \A t \in Tasks : task[t] = Idle
    BY DEF Init
  <2>3. \A store, recs : Tracking(Idle, store, recs)
    BY QuietTracking DEF Idle
  <2> QED BY <2>1, <2>2, <2>3, InitFound DEF OrderlyInv
<1>2. Inv /\ [Next /\ OneAtATime]_vars => Inv'
  <2> SUFFICES ASSUME TypeOK, FoundInv(s), OrderlyInv, [Next /\ OneAtATime]_vars PROVE Inv'
    OBVIOUS
  <2>1. TypeOK' /\ FoundInv(s)'
    BY NextType, FoundStep
  <2>2. s \in Nodes /\ up = Nodes /\ late = {}
    BY DEF Star, FoundInv
  <2>3. ASSUME NEW t \in Tasks, Request(t), OneAtATime PROVE OrderlyInv'
    BY <2>1, <2>3, RequestOrderly
  <2>4. ASSUME NEW t \in Tasks, Step(t) PROVE OrderlyInv'
    BY <2>1, <2>2, <2>4, AnnounceOrderly, ReplicateOrderly, AskProvidersOrderly, FoundOrderly,
       SpreadOrderly, QuietOrderly DEF Step
  <2>5. ASSUME NEW n \in Nodes, Bootstrap(n) PROVE OrderlyInv'
    <3>1. ~Joined /\ UNCHANGED <<task, held, records>>
      BY <2>2, <2>5 DEF Bootstrap, Joined
    <3> QED BY <3>1 DEF OrderlyInv
  <2>6. ASSUME NEW n \in Nodes PROVE ~Crash(n) /\ ~Restart(n)
    BY <2>2 DEF Crash, Restart, Faultless
  <2>7. ASSUME UNCHANGED vars PROVE OrderlyInv'
    BY <2>7 DEF OrderlyInv, Joined, vars
  <2> QED BY <2>1, <2>2, <2>3, <2>4, <2>5, <2>6, <2>7 DEF Next
<1>3. Inv => DeletesEverywhere
  BY DEF OrderlyInv, Tracking, DeletesEverywhere, FoundInv
<1> QED BY <1>1, <1>2, <1>3, PTL DEF SequentialSpec
===============================================================================
