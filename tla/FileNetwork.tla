------------------------------ MODULE FileNetwork ------------------------------
(***************************************************************************)
(* Files over a cluster: the /file handlers of internal/api/server.go.  A  *)
(* file is a manifest and the chunks it names, all of them blobs in the    *)
(* stores of the nodes; files with a chunk in common share it.  A handler  *)
(* stores, fetches and deletes blob after blob, next to other handlers.    *)
(*                                                                         *)
(* FindProviders is one step.  It returns the nodes that have announced a  *)
(* blob, as HoldersFindable of ContentNetwork.tla promises, and perhaps    *)
(* some that did so before they stopped.                                   *)
(***************************************************************************)
EXTENDS Chunker, FiniteSets

CONSTANTS
  Nodes,
  Uploads,       \* the uploads clients make: [op, node, body], op "post" or "stream"
  MaxSize,       \* maxSize: 100 MB
  Tasks,         \* bound: the handlers that run at the same time
  Ops,           \* Ops[n]: what else they ask of n: some of "get", "delete", "global"
  Advertising,   \* the nodes with node.advertise_host set
  Faults         \* what may fail: some of "call", "read", "write", "remove", "client", "crash"

ASSUME ConstantsAssumption ==
  /\ Uploads \subseteq [op : {"post", "stream"}, node : Nodes, body : Seq(Nat) \ {<<>>}]
  /\ Ops \in [Nodes -> SUBSET {"get", "delete", "global"}]
  /\ MaxSize \in Nat \ {0}
  /\ Advertising \subseteq Nodes

VARIABLES
  up,          \* the nodes that run
  held,        \* held[n]: the blobs in n's store; they survive a crash
  pending,     \* pending[n]: blobs that a goroutine of n is about to announce
  announced,   \* announced[n]: the blobs n is on record for, in its own memory too
  known,       \* known[n]: the blobs n has ever been on record for
  calls,       \* DELETE requests with propagate=0 that have yet to be served
  task,
  uploaded,    \* history: the uploads that were answered with 201
  deleted,     \* history: the files a client has asked to delete
  crashed      \* history: the nodes that have stopped

vars == <<up, held, pending, announced, known, calls, task, uploaded, deleted, crashed>>

Idle == [at |-> "idle", op |-> None, node |-> None, body |-> <<>>, file |-> None,
         left |-> <<>>, got |-> <<>>, want |-> None, ask |-> {}, global |-> FALSE]

Chunks    == [bytes : Seq(Nat)]
Manifests == [parts : Seq(Chunks), size : Nat]
Blob      == Chunks \cup Manifests
Blobs(file) == Range(file.parts) \cup {file}

Init ==
  /\ up = Nodes
  /\ held = [n \in Nodes |-> {}]
  /\ pending = [n \in Nodes |-> {}]
  /\ announced = [n \in Nodes |-> {}]
  /\ known = [n \in Nodes |-> {}]
  /\ calls = {}
  /\ task = [t \in Tasks |-> Idle]
  /\ uploaded = {} /\ deleted = {} /\ crashed = {}
-------------------------------------------------------------------------------
Goto(t, next) == task' = [task EXCEPT ![t] = next]

\* PutChunk and DeleteChunk of a node's store.
Put(n, b) == held' = [held EXCEPT ![n] = @ \cup {b}]

\* A failed DeleteChunk goes unnoticed.
Erase(n, b) ==
  \/ held' = [held EXCEPT ![n] = @ \ {b}]
  \/ "remove" \in Faults /\ UNCHANGED held

\* The goroutines a handler starts with StoreProvider.
Spawn(n, blobs) == pending' = [pending EXCEPT ![n] = @ \cup blobs]

\* A goroutine announces its blob, whatever has become of it since.
Announce(n, b) ==
  /\ b \in pending[n]
  /\ pending' = [pending EXCEPT ![n] = @ \ {b}]
  /\ announced' = [announced EXCEPT ![n] = @ \cup {b}]
  /\ known' = [known EXCEPT ![n] = @ \cup {b}]
  /\ UNCHANGED <<up, held, calls, task, uploaded, deleted, crashed>>

\* What FindProviders may return.
Providers(b) ==
  {S \in SUBSET {p \in Nodes : b \in known[p]} :
     "call" \in Faults \/ {p \in Nodes : b \in announced[p]} \subseteq S}
-------------------------------------------------------------------------------
(* handlePostFile and handlePostFileStream.  LimitReader cuts the body of a POST *)
(* without Content-Length; MaxBytesReader fails a stream at the same point.     *)

Cut(body) == SubSeq(body, 1, Min({Len(body), MaxSize}))

\* A POST that is answered without its last bytes, a stream that is refused.
Truncated(u) == u.op = "post" /\ Len(u.body) > MaxSize
TooLong(k) == k.op = "stream" /\ Len(k.body) > MaxSize

Pieces(op, data) == IF op = "post" THEN {ChunkData(data)} ELSE ChunkReader(data)

\* Bound: a client repeats an upload until it is answered, not afterwards.
StartUpload(t, r) ==
  /\ r.node \in up /\ task[t] = Idle
  /\ \A u \in uploaded : ~(u.node = r.node /\ u.body = r.body)
  /\ \E chunks \in Pieces(r.op, Cut(r.body)) :
       Goto(t, [Idle EXCEPT !.at = "storing", !.op = r.op, !.node = r.node, !.body = r.body,
                            !.left = chunks])
  /\ UNCHANGED <<up, held, pending, announced, known, calls, uploaded, deleted, crashed>>

\* Mutation of Due: each goroutine of the loop sees the last chunk.
DueCaptured(k) ==
  CASE k.op = "stream" /\ k.node \in Advertising -> {Head(k.left)}
    [] k.op = "post" /\ Len(k.left) = 1 -> {Head(k.left)}
    [] OTHER -> {}

\* What is announced with the next chunk: a stream announces each, if it has an
\* address to give; a POST announces all after the last, whether it has or not.
Due(k) ==
  CASE k.op = "stream" /\ k.node \in Advertising -> {Head(k.left)}
    [] k.op = "post" /\ Len(k.left) = 1 -> Range(k.got) \cup {Head(k.left)}
    [] OTHER -> {}

StoreChunk(t) ==
  LET k == task[t] IN
  /\ k.at = "storing" /\ k.left # <<>>
  /\ Put(k.node, Head(k.left))
  /\ Spawn(k.node, Due(k))
  /\ Goto(t, [k EXCEPT !.left = Tail(@), !.got = Append(@, Head(k.left))])
  /\ UNCHANGED <<up, announced, known, calls, uploaded, deleted, crashed>>

\* Mutation of UploadFails: the chunks stored so far are taken back.
UploadFailsUndoing(t) ==
  LET k == task[t] IN
  /\ k.at = "storing"
  /\ \/ "write" \in Faults
     \/ "client" \in Faults /\ k.op = "stream"
     \/ TooLong(k) /\ k.left = <<>>
  /\ held' = [held EXCEPT ![k.node] = @ \ Range(k.got)]
  /\ Goto(t, Idle)
  /\ UNCHANGED <<up, pending, announced, known, calls, uploaded, deleted, crashed>>

\* PutChunk fails, or the stream breaks off or is too long: the chunks stored so far
\* stay, under no manifest.
UploadFails(t) ==
  LET k == task[t] IN
  /\ k.at = "storing"
  /\ \/ "write" \in Faults
     \/ "client" \in Faults /\ k.op = "stream"
     \/ TooLong(k) /\ k.left = <<>>
  /\ Goto(t, Idle)
  /\ UNCHANGED <<up, held, pending, announced, known, calls, uploaded, deleted, crashed>>

\* The manifest is stored, announced and returned.
Seal(t) ==
  LET k == task[t]
      file == CreateManifest(Cut(k.body), k.got)
  IN
  /\ k.at = "storing" /\ k.left = <<>> /\ ~TooLong(k)
  /\ Put(k.node, file)
  /\ Spawn(k.node, IF k.op = "post" \/ k.node \in Advertising THEN {file} ELSE {})
  /\ uploaded' = uploaded \cup {[op |-> k.op, node |-> k.node, body |-> k.body, file |-> file]}
  /\ Goto(t, Idle)
  /\ UNCHANGED <<up, announced, known, calls, deleted, crashed>>
-------------------------------------------------------------------------------
(* The manifest, for a GET or a DELETE: from the own store or from a provider. *)

Files == {u.file : u \in uploaded}

Gathering(k) == [k EXCEPT !.at = "gathering", !.left = k.file.parts, !.want = None, !.ask = {}]
Removing(k)  == [k EXCEPT !.at = "removing", !.left = k.file.parts, !.want = None, !.ask = {}]

\* FindProviders; then one provider after another is asked.
Seek(t, k, b) ==
  \E S \in Providers(b) : Goto(t, [k EXCEPT !.at = "fetching", !.want = b, !.ask = S])

\* With remote=1.
Open(t, k) ==
  \/ /\ k.file \in held[k.node]
     /\ Goto(t, IF k.op = "get" THEN Gathering(k) ELSE Removing(k))
  \/ /\ k.file \notin held[k.node] \/ "read" \in Faults
     /\ Seek(t, k, k.file)

\* fetchChunkFromHTTP with the check of the hash.
Answers(p, b) == p \in up /\ b \in held[p]

FetchFails(t, p) ==
  LET k == task[t] IN
  /\ k.at = "fetching" /\ p \in k.ask
  /\ ~Answers(p, k.want) \/ Faults \cap {"call", "read"} # {}
  /\ Goto(t, [k EXCEPT !.ask = @ \ {p}])
  /\ UNCHANGED <<up, held, pending, announced, known, calls, uploaded, deleted, crashed>>

NotFound(t) ==
  /\ task[t].at = "fetching" /\ task[t].ask = {}
  /\ Goto(t, Idle)
  /\ UNCHANGED <<up, held, pending, announced, known, calls, uploaded, deleted, crashed>>

\* A GET caches the manifest without an announcement, a DELETE does not cache it.
FetchManifest(t, p) ==
  LET k == task[t] IN
  /\ k.at = "fetching" /\ k.want = k.file /\ p \in k.ask /\ Answers(p, k.want)
  /\ \/ k.op = "get" /\ Put(k.node, k.want) /\ Goto(t, Gathering(k))
     \/ k.op = "get" /\ "write" \in Faults /\ UNCHANGED held /\ Goto(t, Gathering(k))
     \/ k.op = "delete" /\ UNCHANGED held /\ Goto(t, Removing(k))
  /\ UNCHANGED <<up, pending, announced, known, calls, uploaded, deleted, crashed>>
-------------------------------------------------------------------------------
(* handleGetFile with remote=1; without it the handler only reads. *)

StartGet(t, n, file) ==
  /\ "get" \in Ops[n] /\ n \in up /\ task[t] = Idle
  /\ Open(t, [Idle EXCEPT !.op = "get", !.node = n, !.file = file])
  /\ UNCHANGED <<up, held, pending, announced, known, calls, uploaded, deleted, crashed>>

With(k, chunk) == [k EXCEPT !.at = "gathering", !.want = None, !.ask = {},
                            !.left = Tail(@), !.got = Append(@, chunk)]

Gather(t) ==
  LET k == task[t] IN
  /\ k.at = "gathering" /\ k.left # <<>>
  /\ \/ Head(k.left) \in held[k.node] /\ Goto(t, With(k, Head(k.left)))
     \/ /\ Head(k.left) \notin held[k.node] \/ "read" \in Faults
        /\ Seek(t, k, Head(k.left))
  /\ UNCHANGED <<up, held, pending, announced, known, calls, uploaded, deleted, crashed>>

\* Fetched, the chunk is cached and announced.
FetchChunk(t, p) ==
  LET k == task[t] IN
  /\ k.at = "fetching" /\ k.want # k.file /\ p \in k.ask /\ Answers(p, k.want)
  /\ \/ Put(k.node, k.want) /\ Spawn(k.node, IF k.node \in Advertising THEN {k.want} ELSE {})
     \/ "write" \in Faults /\ UNCHANGED <<held, pending>>
  /\ Goto(t, With(k, k.want))
  /\ UNCHANGED <<up, announced, known, calls, uploaded, deleted, crashed>>

\* The body of the answer.
Reply(k) == ReconstructData(k.got, k.file)

Answer(t) ==
  /\ task[t].at = "gathering" /\ task[t].left = <<>>
  /\ Goto(t, Idle)
  /\ UNCHANGED <<up, held, pending, announced, known, calls, uploaded, deleted, crashed>>
-------------------------------------------------------------------------------
(* handleDeleteFile with remote=1: the chunks, the manifest, then the providers. *)

Deleting(n, file, global) ==
  [Idle EXCEPT !.op = "delete", !.node = n, !.file = file, !.global = global]

\* Bound: clients delete once.
StartDelete(t, n, file) ==
  /\ n \in up /\ task[t] = Idle /\ deleted = {}
  /\ \E op \in Ops[n] \ {"get"} : Open(t, Deleting(n, file, op = "global"))
  /\ deleted' = deleted \cup {file}
  /\ UNCHANGED <<up, held, pending, announced, known, calls, uploaded, crashed>>

\* Mutation of Trace: the node does not leave itself out.
TraceSelf(t, k, blobs) ==
  \E S \in Providers(Head(blobs)) :
    Goto(t, [k EXCEPT !.at = "spreading", !.left = blobs, !.ask = S])

\* FindProviders for the first of the blobs that are left.
Trace(t, k, blobs) ==
  \E S \in Providers(Head(blobs)) :
    Goto(t, [k EXCEPT !.at = "spreading", !.left = blobs, !.ask = S \ {k.node}])

RemoveChunk(t) ==
  LET k == task[t] IN
  /\ k.at = "removing" /\ k.left # <<>>
  /\ Erase(k.node, Head(k.left))
  /\ Goto(t, [k EXCEPT !.left = Tail(@)])
  /\ UNCHANGED <<up, pending, announced, known, calls, uploaded, deleted, crashed>>

\* The manifest goes last; a global delete then turns to the other providers of each blob.
RemoveManifest(t) ==
  LET k == task[t] IN
  /\ k.at = "removing" /\ k.left = <<>>
  /\ Erase(k.node, k.file)
  /\ \/ k.global /\ Trace(t, k, <<k.file>> \o k.file.parts)
     \/ ~k.global /\ Goto(t, Idle)
  /\ UNCHANGED <<up, pending, announced, known, calls, uploaded, deleted, crashed>>

\* A DELETE with propagate=0.  Whether its answer or five seconds end the wait, the
\* handler goes on; the provider serves the request in its own time.
Tell(t, p) ==
  LET k == task[t] IN
  /\ k.at = "spreading" /\ p \in k.ask
  /\ \/ p \in up /\ calls' = calls \cup {[to |-> p, blob |-> Head(k.left)]}
     \/ (p \notin up \/ "call" \in Faults) /\ UNCHANGED calls
  /\ Goto(t, [k EXCEPT !.ask = @ \ {p}])
  /\ UNCHANGED <<up, held, pending, announced, known, uploaded, deleted, crashed>>

Told(t) ==
  LET k == task[t] IN
  /\ k.at = "spreading" /\ k.ask = {}
  /\ \/ Tail(k.left) # <<>> /\ Trace(t, k, Tail(k.left))
     \/ Tail(k.left) = <<>> /\ Goto(t, Idle)
  /\ UNCHANGED <<up, held, pending, announced, known, calls, uploaded, deleted, crashed>>

\* handleDeleteChunk at a provider.
ServeChunk(c) ==
  /\ c \in calls /\ ~IsManifest(c.blob)
  /\ Erase(c.to, c.blob)
  /\ calls' = calls \ {c}
  /\ UNCHANGED <<up, pending, announced, known, task, uploaded, deleted, crashed>>

\* Mutation of ServeFile: propagate=0 is not looked at, and global=1 is passed on.
ServeFileSpreading(t, c) ==
  /\ c \in calls /\ IsManifest(c.blob) /\ task[t] = Idle
  /\ Open(t, Deleting(c.to, c.blob, TRUE))
  /\ calls' = calls \ {c}
  /\ UNCHANGED <<up, held, pending, announced, known, uploaded, deleted, crashed>>

\* handleDeleteFile at a provider: it asks nobody else to delete.
ServeFile(t, c) ==
  /\ c \in calls /\ IsManifest(c.blob) /\ task[t] = Idle
  /\ Open(t, Deleting(c.to, c.blob, FALSE))
  /\ calls' = calls \ {c}
  /\ UNCHANGED <<up, held, pending, announced, known, uploaded, deleted, crashed>>
-------------------------------------------------------------------------------
\* A node stops: its records, goroutines and handlers are gone, its files are not.
\* Bound: each node once.
Crash(n) ==
  /\ "crash" \in Faults /\ n \in up \ crashed
  /\ up' = up \ {n}
  /\ pending' = [pending EXCEPT ![n] = {}]
  /\ announced' = [announced EXCEPT ![n] = {}]
  /\ calls' = {c \in calls : c.to # n}
  /\ task' = [t \in Tasks |-> IF task[t].node = n THEN Idle ELSE task[t]]
  /\ crashed' = crashed \cup {n}
  /\ UNCHANGED <<held, known, uploaded, deleted>>

Restart(n) ==
  /\ n \notin up
  /\ up' = up \cup {n}
  /\ UNCHANGED <<held, pending, announced, known, calls, task, uploaded, deleted, crashed>>

Request(t) ==
  \/ \E r \in Uploads : StartUpload(t, r)
  \/ \E n \in Nodes, file \in Files : StartGet(t, n, file) \/ StartDelete(t, n, file)

Step(t) ==
  \/ StoreChunk(t) \/ UploadFails(t) \/ Seal(t) \/ NotFound(t) \/ Gather(t)
  \/ Answer(t) \/ RemoveChunk(t) \/ RemoveManifest(t) \/ Told(t)
  \/ \E p \in Nodes : FetchFails(t, p) \/ FetchManifest(t, p) \/ FetchChunk(t, p) \/ Tell(t, p)

Serve == \E c \in calls : ServeChunk(c) \/ \E t \in Tasks : ServeFile(t, c)

Announcing == \E n \in Nodes : \E b \in pending[n] : Announce(n, b)

Next ==
  \/ \E t \in Tasks : Request(t) \/ Step(t)
  \/ Serve
  \/ Announcing
  \/ \E n \in Nodes : Crash(n) \/ Restart(n)

Spec == Init /\ [][Next]_vars

\* Handlers and goroutines go on: each call they make ends by its own timeout.
FairSpec ==
  Spec /\ WF_vars(Serve) /\ WF_vars(Announcing) /\ \A t \in Tasks : WF_vars(Step(t))
-------------------------------------------------------------------------------
Busy ==
  [at : {"storing", "fetching", "gathering", "removing", "spreading"},
   op : {"post", "stream", "get", "delete"}, node : up, body : Seq(Nat),
   file : Manifests \cup {None}, left : Seq(Blob), got : Seq(Chunks),
   want : Blob \cup {None}, ask : SUBSET Nodes, global : BOOLEAN]

TypeOK ==
  /\ up \subseteq Nodes
  /\ held \in [Nodes -> SUBSET Blob]
  /\ pending \in [Nodes -> SUBSET Blob]
  /\ announced \in [Nodes -> SUBSET Blob]
  /\ known \in [Nodes -> SUBSET Blob]
  /\ calls \subseteq [to : up, blob : Blob]
  /\ task \in [Tasks -> {Idle} \cup Busy]
  /\ \A t \in Tasks : task[t].at = "spreading" => task[t].node \notin task[t].ask
  /\ uploaded \subseteq [op : {"post", "stream"}, node : Nodes, body : Seq(Nat), file : Manifests]
  /\ deleted \subseteq Manifests
  /\ crashed \subseteq Nodes

AtRest == calls = {} /\ (\A n \in Nodes : pending[n] = {}) /\ \A t \in Tasks : task[t] = Idle

Touched == UNION {Blobs(f) : f \in deleted}

\* Whatever else is uploaded, fetched, deleted or broken off, at this node or at
\* others: each blob of an upload that was answered stays with the node that
\* answered, unless a client deletes a file that has the blob.
UploadsIntact ==
  \A u \in uploaded : \A b \in Blobs(u.file) : b \in held[u.node] \/ b \in Touched

\* A download that is answered has the bytes that were uploaded, all of them, however the
\* upload was cut into chunks and wherever they came from.  The exception is a POST without
\* Content-Length and of more than MaxSize bytes: LimitReader (server.go:360) drops the
\* rest and the client is told 201, where the check before it (server.go:354) would answer
\* 413 and README.md:138 says "store whole file".
DownloadsExact ==
  \A t \in Tasks : task[t].at = "gathering" /\ task[t].left = <<>> =>
    \A u \in uploaded : u.file = task[t].file =>
      Reply(task[t]) = IF Truncated(u) THEN SubSeq(u.body, 1, MaxSize) ELSE u.body

\* Once all is quiet, each blob of an upload is on record for its node, if that has not
\* stopped since and has an address to announce: a deleted one too.
UploadsAnnounced ==
  AtRest => \A u \in uploaded : u.node \in Advertising \ crashed =>
    Blobs(u.file) \subseteq announced[u.node]

\* "Guard to prevent infinite propagation" (server.go:749), and the end of every retry,
\* download and announcement: once clients are quiet the cluster comes to rest.
WorkEnds == <>[][~\E t \in Tasks : Request(t)]_vars => <>[]AtRest

\* A node announces itself as a "provider ... on cache" (README.md:16), and a global
\* delete "also deletes on other providers (manifest and per-chunk)" (README.md:142):
\* after it, without faults, no node has the file's manifest.
DeletedEverywhere ==
  AtRest => \A f \in deleted, n \in Nodes : f \notin held[n]
===============================================================================
