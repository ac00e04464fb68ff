# mini-IPFS in TLA+

TLA+ modules, TLC configurations and TLAPS proofs for mini-IPFS: a cluster of
Go nodes that keep content-addressed chunks on disk, announce them in a
Kademlia-like DHT and fetch them from each other over HTTP. `src/` below is the
root of the repository. `PROJECT.json` maps every definition to the lines it
models, and lists the hazards, the runs, the mutants and the theorems.

## 1. Inventory

| component | source | state | operations | model |
|---|---|---|---|---|
| chunk store | `internal/storage/store.go` | files `<hh>/<hash>` and `.tmp`, counters, one `sync.RWMutex` | `PutChunk`, `GetChunk`, `HasChunk`, `DeleteChunk`, `GetStats`, `ListChunks`, `NewChunkStore` | `ChunkStore` |
| routing table | `internal/dht/routing.go` | 256 buckets, depth, one mutex | `InsertNode` (update, append, split), `RemoveNode`, `Lookup`, `ClosestK` | `RoutingTable` |
| provider records | `internal/dht/node.go`, `rpc.go` | `providers` map, in memory | `StoreProvider`, `FindProviders`, two RPC handlers | `ContentNetwork` |
| bootstrap, lookup | `internal/dht/node.go` | local candidates | `bootstrap`, `Ping`, `FindNode` | bootstrap and ping in `ContentNetwork` |
| RPC server | `internal/dht/rpc.go` | listener, shutdown channel, WaitGroup, connections | `Start`, `Stop`, `acceptLoop`, `handleConnection`, `SendMessage` | `NodeProcess`; one call, in `ContentNetwork` |
| chunk handlers | `internal/api/server.go` | none of their own; background goroutines | POST, GET `remote=1`, DELETE `global=1` | `ContentNetwork` |
| file handlers | `internal/api/server.go` | manifests, stored as chunks; background goroutines | POST, POST stream, GET, DELETE of files | `FileNetwork` |
| chunker | `internal/storage/chunker.go` | none | `ChunkData`, `ChunkReader`, `CreateManifest`, `ReconstructData` | `Chunker` |
| event hub | `internal/api/server.go` | a map of channels of 16 events, one mutex | `add`, `remove`, `broadcast`, `handleSSE`, `emitEvent` | `EventHub` |
| lifecycle | `cmd/node/main.go`, `Start` and `Stop` of the servers | signal channel, `httpServer` | start, graceful shutdown | `NodeProcess`; restart in `ContentNetwork` and `FileNetwork` |
| configuration, logger, health, status, middleware, UI, one-line placeholders | `internal/util`, `server.go`, `mini-ipfs-ui` | | | not modelled: set-up and read-only I/O |

How they interact. An HTTP handler calls the chunk store (shared by all
handlers, guarded by its mutex), answers, and leaves a goroutine behind that
calls `StoreProvider`: a record in the own map, then one STORE_PROVIDER to each
peer of `ClosestK`, or to each bootstrap node when no peer has answered. A GET
of a missing chunk and a global DELETE call `FindProviders` (own records, then
FIND_PROVIDERS to each peer) and then talk HTTP to the providers. Every RPC
inserts its sender into the receiver's routing table. The records and the table
are lost at a stop; the files are not. A file is a manifest and its chunks, all of
them blobs in the same store; the file handlers work through them one after another.
HTTP handlers and RPC connections emit events, which the hub passes to the handlers
of the clients that listen. `main` starts both servers in goroutines and, after a
signal, stops one after the other.

What is hard: handlers, announcements and bootstraps interleave on several
nodes; a process may stop between two system calls; a power loss takes unsynced
bytes; a call may be lost or served after its caller has given up; state that is
only in memory goes stale or disappears; the table's splits move entries while
their index function changes; files share chunks, so that one request takes away
what another builds on; a broadcast meets a client that leaves; a signal comes
before the servers have started.

What makes the components correct: the store never shows a part of a chunk, its
counters follow the disk but for files it has counted twice, its answers are true
(`FinalIntact`, `CountAccounted`, `BytesAccounted`, `ImplementsContentStore`); the table loses no entry and no
newcomer without cause, and `ClosestK` is exact within its cutoff (`Placement`, `SelfPresent`,
`Capacity`, `NewcomersFit`, `ImplementsContactBook`, `AnswersFull`, `ClosestKInReach`); a
provider record is true, a holder can be found, a delete reaches each copy, and
no task hangs (`RecordsHonest`, `HoldersFindable`, `DeletesEverywhere`,
`TasksEnd`, `TasksAdvance`); an upload that was answered stays, can be found and is downloaded as it
was sent unless it was truncated, and deletes come to an end (`UploadsIntact`, `UploadsAnnounced`,
`DownloadsExact`, `WorkEnds`, `DeletedEverywhere`); events arrive in order, are lost
only when a channel is full, never go to a closed channel and hold up nobody (`EventsInOrder`, `NoSendOnClosed`,
`EmittersReturn`, `EventsArrive`); the shutdown keeps its order and ends
(`ServedWhileDraining`, `NothingServedAfterStop`, `ShutdownEnds`).

## 2. Modules

| module | role |
|---|---|
| `ContentStore` | abstract: a set of chunks, pending requests, true answers |
| `ChunkStore` | the store with files, system calls, RWMutex, crashes; refines `ContentStore` |
| `ChunkStoreProofs` | its theorems |
| `SetSums` | lemmas about the sum over a finite set, for the byte counter |
| `ContactBook` | abstract: one latest address for each known peer |
| `RoutingTable` | the k-buckets; refines `ContactBook` |
| `RoutingTableProofs` | its theorems |
| `ContentNetwork` | nodes, tasks, records, calls; builds on what the two others promise |
| `ContentNetworkProofs` | its theorems |
| `Chunker` | files, chunks and manifests: operators only |
| `ChunkerProofs` | that the chunks of a file put together are the file |
| `FileNetwork` | the file handlers on several nodes; builds on `Chunker` and on what `ContentNetwork` promises |
| `FileNetworkProofs` | its theorems |
| `EventHub` | the event stream: emitters, mutex, channels, clients |
| `NodeProcess` | one process: both servers, the hub, start and shutdown; composes `EventHub` with the servers |
| `NodeProcessProofs` | theorems about both |
| `MC*` | definitions for TLC only |

### ChunkStore

Each goroutine has a `pc`: `wait` (at the mutex), `drain` (a writer that has
reserved the lock while readers are inside), `locked`, `writing` (between the
creation of the `.tmp` file and the rename), `counting` (the disk operation is
done, the counter is not), `reading`. Each system call is a step: `PutCreate`,
`PutWrite` (one unit of the data), `PutRename`, `PutCount`; `DeleteRemove`,
`DeleteCount`; `Read`. `PutWriteFails`, `PutRenameFails`, `DeleteFails` and
`ReadFails` are the error returns. `Lock`, `Drained`, `RLock` and the two
unlock operators are Go's `sync.RWMutex`, which is outside the repository: a
waiting writer keeps new readers out, and its Unlock lets all waiting readers
in. `Crash` forgets memory; `PowerLoss` also shortens files, since `WriteFile`
does not sync. `Open` is `NewChunkStore`, whose walk may fail (the code logs it
and goes on with zero counters).

A file is the number of units of its chunk that it holds, and a chunk stands for
its hash, so hash collisions are excluded and `GetChunk`'s verification passes
exactly when the file is complete. `PutChunk` takes every error of `os.Stat` for
absence (`store.go:65`), so `PutCreate` is possible whether the file is there or not:
the rename then replaces it and `PutCount` counts it once more. `replaced` records such
files and their bytes, `extra` in `ContentStore` their number: the counters are right up to
that. `DeleteRemove` is `os.Stat` and
`os.Remove` in one step: both happen under the write lock, and a crash between
them is a crash before both.

### RoutingTable

A key is the set of its one bits, so XOR is the symmetric difference, and the
bucket of a distance is its largest element. A bucket is a set of entries: a
search by key and a sort by distance do not depend on the order, because two
different keys never have the same distance to a third. Every method holds
`rt.mutex` throughout and is one step. `InsertNode` has four ways out
(`Update`, `Append`, `TurnAway`, `SplitAndInsert`), each with the whole rest of
the method. `ClosestK` is `LastRadius` (when the rings stop), `Within` (what has
been collected by then) and `FirstK` (the sort and the cut). `RemoveNode` has no
caller in the repository; it is modelled because it belongs to the interface.
`GetNodes`, `Buckets` and `K` only read.

### ContentNetwork

A node has `held` (its chunk store), `contacts` (its routing table), `records`
(its provider records) and `joining` (what its bootstrap loop has left). A task
is a handler with the announcement it leaves behind; its `at` says where it is:
`announcing`, `replicating`, `fallback` (StoreProvider), `finding`
(FindProviders), `fetching`, `caching` (GET), `spreading` (DELETE). A call to
another node is one step with three outcomes: `Answered` (served and answered),
`Unanswered` (lost or the callee is down), or late: it stays in `late` and
`Arrive` serves it at any later moment, unless its target stops first.

Abstractions: the cluster has at most `dht.k` nodes, so no bucket refuses
anyone and `ClosestK` returns all contacts (a key whose distance to the node
has its 129 highest bits zero is neglected); a chunk store call is one step, which
`ImplementsContentStore` justifies; peers and providers are asked in any order,
the code has the order of a list; a provider record is the provider's name (its
addresses are constant over a node's life); StoreProvider's local record and its
reading of the contacts are one step, as are the two local reads FindProviders
begins with; the self-lookup after a ping asks nobody, as
`SelfLookupFindsPeers` shows for an unsplit table; the 2-second sleep and HTTP
write timeouts are left out; nodes start with empty data directories.

### Chunker and FileNetwork

`Chunker` has what the chunker computes: `ChunkData` cuts at the chunk size,
`ChunkReader` (and the same loop in `handlePostFileStream`) cuts wherever a read
happens to end, `ReconstructData` puts the chunks together after it has compared them
with the manifest. A chunk stands for its hash, a manifest is a record of its own
kind; the time stamp in it is left out, so that two uploads of the same chunks give
one manifest.

A task of `FileNetwork` is a handler: `storing` (one `PutChunk` a step, then `Seal`,
the manifest and the answer), `gathering` and `fetching` (GET, and the manifest of a
DELETE), `removing` (one `DeleteChunk` a step, the manifest last), `spreading` (the
providers of the manifest and of each chunk get a DELETE with `propagate=0`). A DELETE
under way is in `calls`: the sender's wait and the provider's work are not tied
together, since five seconds may end the one before the other. `pending` has the blobs
that background goroutines are about to announce. `Due` says with which chunk what is
announced: a stream announces chunk by chunk and only with an address to give, a POST
announces all chunks after the last and always. `Cut` and `TooLong` are the 100 MB
limit: a POST without Content-Length is cut at the limit and answered with 201, a
stream of that length is refused after its chunks have been stored.

Abstractions: FindProviders is one step that returns at least every node on record,
as `HoldersFindable` promises of `ContentNetwork`, and perhaps some that were on
record before; with calls that fail it may return any of them. A request without
`remote=1` for a manifest that is missing changes nothing and is left out. A node
crashes once, each client deletes once.

### EventHub and NodeProcess

An emitter is in `emitEvent`: it waits for the mutex (`Acquire`), comes to each
channel in turn (`Send`, which drops the event if the channel is full) and leaves
(`Release`). A client's handler adds itself, writes what is in its channel, and leaves
in two steps: `Remove` under the mutex and `Close` outside it. What is written waits
in the buffers of net/http, since `handleSSE` never gets a Flusher. `Overflow` is the
moment the buffer overflows: it goes out, or, after the 15 seconds of `WriteTimeout`, fails to
and breaks the connection. On a late connection `Overflow` is possible whatever has been written,
because the ticker's comments, which the model does not count, fill the buffer in time. `behind` records
the broadcasts that found a client's channel full, independently of what `Send` does about
it. A client that leaves (`left`) and a connection that breaks
(`broken`) both cancel the request.

`NodeProcess` has the steps of `main`, of both `Start`s and `Stop`s, the accept loop
and the connections. `http` is `s.httpServer` and what it does, `listener` is
`s.listener`: both are nil until a goroutine has come to set them, and a `Stop` that
finds nil does nothing. `Working` is what the WaitGroup counts. An RPC or a request
emits an event through the hub's own action, the rest of the hub runs beside them.
`Answering` is a connection in `conn.Write`, which returns when the peer makes room or the
write fails (`Respond`), or never: only reads have a deadline. `ReceivePanics` is a message
without a sender or with a short id, whose slice at `rpc.go:125` ends the process.
The end of the process ends every goroutine, hence `~Ended` in each step.

## 3. Runs

`expect: pass`

| run | instance | shows |
|---|---|---|
| `ChunkStore` | 2 goroutines, 2 chunks of one unit, every kind of call, one replaced file in each life of the process | types, `Exclusion`, `CountAccounted`, `BytesAccounted`, final files; that the store implements `ContentStore`; each call returns |
| `RoutingTable` | 3-bit keys, 2 addresses, K = 2, MaxRadius = 1 | types, `Placement`, `SelfPresent`, `Capacity`, `NewcomersFit`, `AnswersFull`, `ClosestKInReach`, refinement of `ContactBook` |
| `Network` | the 3 nodes of `build/compose.yml`, 2 tasks, no fault | `HoldersFindable` |
| `NetworkFaults` | 2 nodes, 2 tasks, POST and GET, every fault | types, `RecordsHonest`, `TasksEnd`, `TasksAdvance` |
| `FileNetwork` | 2 nodes, 2 handlers, a POST that is cut and a stream whose file is a chunk of the other's; streams break off | `UploadsIntact`, `DownloadsExact`, `UploadsAnnounced` |
| `FileFaults` | 2 nodes, 1 handler beside propagated deletes, the same file at both nodes, a stream that is refused; every fault | types, `WorkEnds` |
| `NodeProcess` | one request and one connection that emit events, one client | types, `NoSendOnClosed`, `EventsInOrder`, `NothingServedAfterStop`, `ServedWhileDraining`, `ShutdownEnds`, `EmittersReturn` |

`expect: violation`: the code does not do what the repository says.

| run | says | counterexample |
|---|---|---|
| `ChunkStorePut` | `store.go:49` "PutChunk stores a chunk and returns its hash" | a power loss shortens the file; `os.Stat` finds it, and the put returns the hash without writing |
| `RoutingSelfLookup` | `node.go:168` "Perform FindNode for self to populate routing table" | the search for the own key covers only the lower half of the buckets, the first contacts are in the upper half |
| `NetworkDelete` | `README.md:96` "Delete a single chunk everywhere" | node1 restarts; its records are gone, nobody announces again, and a global delete at node1 misses node2's copy |
| `FileDelete` | `README.md:16` "provider announce on cache", `README.md:142` "also deletes on other providers (manifest and per‑chunk)" | node2 downloads the file and caches its manifest unannounced; a global delete at node1 leaves it there |
| `EventsLive` | `README.md:17` "Live events (SSE)" | hello is written, nothing flushes it, the write deadline passes and the connection breaks |

Three more disagreements are stated as exceptions of properties that pass, since a
property that names its exception says both what holds and where it ends.

| property | exception | the repository says |
|---|---|---|
| `DownloadsExact` | `Truncated`: `LimitReader` (`server.go:360`) drops what a POST without Content-Length has beyond 100 MB, and the client is told 201 | `README.md:138` "store whole file"; the check before it (`server.go:354`) answers 413 |
| `ShutdownEnds` | `Answering` for ever: `conn.Write` (`rpc.go:156`) has no deadline and `wg.Wait` (`rpc.go:69`) no limit, so that one peer that does not read its answer keeps the node from ending | `rpc.go:61` "Stop gracefully shuts down the RPC server" |
| `ClosestKInReach` | beyond 3K candidates the search stops before buckets that may hold closer nodes | `routing.go:251` "returns the k closest nodes" |

`CountAccounted` and `BytesAccounted` have an exception too, the files counted twice after an
error of `os.Stat`; nothing in the repository says what the counters are after an I/O error.

Bounds, and why they are enough.
- *Two goroutines, two chunks* in `ChunkStore`: one mutex serialises writers, so
  a third goroutine adds no new pair of steps to the safety properties; a second chunk
  gives a count that is wrong for one and right for the other. A chunk is one unit: its file is
  empty after the create, and whole after the write. The `Calls` leave out reads of `c1`, which are
  those of `c2`. `BoundedSpec` lets a put replace one file (`MaxReplaced`) in each life of the
  process, and none after a count at start that failed, when the counters mean nothing. `CallsReturn` is
  about early returns that keep the lock, for which two goroutines are enough; starvation of a
  writer between two readers that alternate needs three, and there it rests on the RWMutex
  alone. The proofs cover every number of goroutines, chunks, units and replaced files.
- *3 bits, K of 2*: all keys take part, so every shape of a split occurs: all, some
  and none of the entries move, repeated splits. That bucket 0 is never split, which
  K = 1 would show, is proved. MaxRadius 1 of 3 bits, or 2 of 4, keeps
  the code's proportion of 128 to 256. The proofs cover every size.
- *Two or three nodes, one chunk, two tasks*: one chunk, since tasks for different
  chunks share only the contacts, which grow; two tasks, so that a fetch meets a post,
  a delete or an announcement. `MaxLate` = 1 lets a call overtake everything
  after it. Three nodes with faults have more states than a run can
  enumerate; for them `RecordsHonest` is proved. `HoldersFindable` is proved for
  clusters of any size that join at one node; section 4 has what four nodes may do
  otherwise.
- `NetworkDelete` and `FileDelete` restrict the runs (`SequentialSpec`): one request at
  a time for each chunk or file, to a quiet cluster, so that the counterexample cannot be
  blamed on concurrency or on a node that is down. With `Faults = {}` in
  `NetworkDelete.cfg`, which takes the restarts away, TLC finds no counterexample, nor does it
  with two chunks and two tasks (1.4 million states); section 4 has the theorem.
- *Two nodes, two files* in `FileNetwork`: files of up to four bytes at two bytes a
  chunk, where the limit cuts one in the middle of a chunk, the shared chunk is
  last of one file and all of the other, and the two uploads, a download and a delete
  overlap in pairs. `FileFaults` has one handler slot, since deletes at other nodes
  run in any slot that is free and retries fill the rest; its crash stops each node once.
- *Cap 1, buffer 3, three events* in `NodeProcess`: the second event finds the channel
  full, or empty if the handler was quick, and so does the third, whichever of the two
  happened to the second; hello and two events fill the buffer. The proofs cover every capacity.
  `EventsLive` has more room than events, as 16 places and 4096 bytes have for the events of a
  quiet node.

Deadlock is checked in every run but two: the steps of the environment (a call, a
crash, a restart) are possible in every state. `NodeProcess` and `EventsLive` have
CHECK_DEADLOCK FALSE, because a process ends there and each client connects once.

Symmetry (of tasks) is used in `Network` and `FileNetwork`, which check invariants only.

Fairness. `ChunkStore`: weak fairness of each goroutine's steps (the Go
scheduler runs every runnable goroutine; each system call returns) and strong fairness of
`Lock` (a `sync.Mutex` whose waiter has starved for a millisecond is handed to
it). Readers need no more, because an Unlock lets all of them in. `ContentNetwork`: weak
fairness of each task, since every RPC and HTTP call ends by its own timeout
(10 s dial and deadline, 5 s and 10 s client timeouts). Nothing is assumed of
clients, crashes, restarts, bootstraps or late calls. `FileNetwork`: weak fairness of
each handler, of the goroutines that announce, and of the providers that serve
deletes; `WorkEnds` is about clients that fall quiet, since a client that asks for
ever keeps the cluster busy for ever. `NodeProcess`: weak fairness of `main`, of the accept
loop, of each connection's deadline and of whoever holds the hub's mutex, strong
fairness of whoever waits for it (Go's mutex again). An HTTP handler need not end, a
client need not leave and an RPC peer need not hang up: `ShutdownEnds` holds by the
time-outs of 15 and 30 seconds. Nothing is assumed of `Respond`, because no deadline bounds the
write: `ShutdownEnds` excuses a peer that leaves its answer unread for ever, and says so in
its formula. `EventHub` alone adds that the
write deadline passes and that each client's handler goes on.

## 4. Proofs

All theorems hold for every value of the constants that satisfies
`ConstantsAssumption` of the module.

Recursion over data comes up twice: in the fold behind `Bytes` and in the concatenation of
`ReconstructData`. The library's induction theorems take an operator as parameter, which
the provers cannot instantiate. The proofs use well-founded order instead, whose theorem
(`WFMin`) is about sets: of the inputs where the claim failed one would be smallest, and
the recursive equation takes it to a smaller one. `WFMin` also gives the highest bit of a
key and the nearest of some entries.

`ChunkStoreProofs`. `TypeLock` is the type invariant with the protocol of the
lock: only the owner of `wlock` is inside or draining, and no reader is inside
with a writer. It is inductive and gives `MutualExclusion`. `IInv` adds what a
writer relies on between its steps: at `counting` the file is there after a put and gone
after a delete; every undamaged final file is
whole; and the count is that of the files and of the replaced ones, off by one exactly
for the writer at `counting`. The correction term is what makes `CountAccounted` inductive:
`Settled` alone says nothing about the states in between. `RenameEffect` says what a rename
adds, whether it replaces a file (then nothing to the files, one to the replaced ones)
or not. Finiteness of `Chunks` is needed for the cardinality facts. `ByteCountAccounted` is the same argument for the
lengths: `BytesOK` says by how much the counter is behind while a writer is at
`counting`, and `SetSums` has what the sum over the files loses or gains with
one of them. That a delete subtracts the length of the file it removed, and not that of
the chunk, matters for files that a power loss has cut short. `Implementation` maps each
step to one of `ContentStore`: `PutRename` is `Add`, `DeleteRemove` is `Remove`, each
return is `Answer`, and the lock and write steps are `Work`.

`RoutingTableProofs`. `IInv` puts together the types, placement, the own entry,
one entry for each key and the capacity. Placement has to be
proved with the own entry: the split bucket is the lowest active one because it contains
`Self`, and only for that bucket does raising the depth move entries by just
one bucket. `AnswersAreFull` (an answer names different keys, K of them unless there are
not so many candidates) needs that each key has one entry: then distances
differ, they order the candidates, and cutting at rank K leaves K of them.
`ClosestKIsExactInReach` uses placement: an entry is in the lowest bucket in use or above
it, so that rings which reach that bucket, and which no 3K candidates end, collect the
whole table. `Implementation` follows from placement: `Lookup` finds what
`InsertNode` placed, and a split changes no address.

`ContentNetworkProofs`. `TypeCorrect` includes that a running task belongs to a
running node. `EachStepAdvances` is the half of `TasksEnd` that is about steps: a phase nearer to
the end, or one node less to ask in the same phase. What it leaves to TLC is that a
task always has a step to make (`ENABLED`) and makes it (fairness).
`RecordsStayHonest` (under `"DELETE" \notin Ops`) needs the
strengthening `Backed`: a task that announces, and a STORE_PROVIDER still
under way, are about a chunk their node has. Each record is made from one of
the two, and without deletes `held` only grows.

`HoldersAreFindable` is about clusters without faults (`Faultless`) whose nodes all
have the same one bootstrap node, the seed (`Star`). `FoundInv` says that each chunk in a
store is on record at its node and at the seed, or a task sees to it: it has
yet to ask the seed, or has asked nobody and will fall back to it. The key is
`ContactsVia`: a node has contacts only once it has met the seed, and only such contacts. So
an announcement either goes to the seed among the contacts or to nobody, and then the fallback goes
there. This is where the assumption matters. `StoreProvider` leaves the fallback out as soon
as any contact has answered (`node.go:421`). Where node3 lists node1 and node2, as in
`build/compose.yml`, node3 may announce a chunk to both before either of them has joined, and
become node2's only contact; node2's next announcement reaches node3 alone. With three
nodes everyone still finds the holder, as `Network` checks; a fourth node
that joins at node1 would not, not even after all bootstraps are done (the invariant
fails in an instance with `node4` bootstrapping at node1 and a single task that posts).

`DeletesReachEveryCopy` is what becomes of "delete a single chunk everywhere" in such a
cluster: under `SequentialSpec`, a global delete that is about to answer has left
no copy. Its invariant `OrderlyInv` rests on `FoundInv`: when a delete begins, no task is about
its chunk, hence each holder is on record at itself and at the seed, and the seed
is the deleter or one of its contacts. While it asks, each copy's holder is among those it
has found or on record where it will still ask (`Tracking`); no record is
lost, and nobody stores the chunk anew. The run `NetworkDelete` shows why restarts are
excluded: they empty the records. Requests for the same chunk are kept apart because a
fetch that has read its source before the delete caches the chunk afterwards.

`ChunkerProofs`. `ReconstructInverts`: for every file, chunk size and way of cutting,
`ReconstructData` of the chunks and their manifest is the file, also when the stream's reads
end anywhere.

`FileNetworkProofs`. `TypeCorrect` is made inductive by `Shaped`: which fields mean
what in which phase, and that what is left to delete belongs to the file. `UploadsStayIntact`
rests on `KeptInv`: what a handler has stored so far is still there or was
asked to be deleted by a client, and whoever deletes, the handler or a provider it told, deletes
parts of a file that a client asked to delete. `UploadsGetAnnounced` adds that
whatever a node that has not stopped stored for an upload is pending or announced.
`DownloadsAreExact` needs `ServedInv`: what a download has got and what it has left to get are
together the parts of its manifest, in their order and through all retries of the
fetch; what an upload has stored and has left to store are the chunks of its body, as far as `Cut`
leaves it; and each answered upload has the manifest of such chunks and is no stream beyond the
limit. `ReconstructInverts` gives the bytes that were stored, `CutIs` says which these are: all,
unless the upload was truncated.

`NodeProcessProofs`. Every step of the process is a step of the hub or leaves it alone
(`ProcessHub`, hence `ImplementsEventHub`), so that `HubInv` (a client is in the map
exactly while its handler serves it; its channel is closed only after that) is
proved for the hub and carries over. `NeverSendsOnClosed` follows: the loop's channels are those of
clients in the map, and `Remove` waits for the mutex. `OrderInv` says that what a client was
given, written or still in its channel, is in order, has nothing twice and is all that was
broadcast since the client was added, but for the broadcasts that found its channel full. `Write`
moves an event from the one part to the other (`GivenMoves`); `Send` extends it or the
exceptions. `StoppedServesNothing` needs `RPCInv`: a goroutine that adds to the WaitGroup is itself counted, so the count cannot leave zero once `main` has seen it. `ServesWhileDraining`
needs `HTTPInv`: no handler starts after `Shutdown`.

Every invariant and every safety property of an action or a refinement that a run
finds to hold is a theorem. Model-checked only, because the prover has no rule for fairness
and `ENABLED`: `CallsReturn`, `TasksEnd`, `WorkEnds`, `ShutdownEnds` and `EmittersReturn`.
The properties that are violated have counterexamples, no proofs. `HoldersFindable` and
`DeletesEverywhere` with several bootstrap nodes are checked for the three nodes of
`build/compose.yml` only.

## 5. What could come next

1. `HoldersFindable` for clusters with several bootstrap nodes: under which lists it
   holds, and what re-announcing after the bootstrap would change.
2. The addresses inside provider records: the first one is kept (`node.go:443`), and the fallback
   to port 8080 where a record has none.
3. `IterativeLookup`, once the self-lookup finds somebody to contact: FindNode's rounds, its
   five-second waits and third-party addresses.
4. `DeletedEverywhere` for files whose manifests are announced wherever they are cached, as
   `DeletesReachEveryCopy` is for chunks.

## 6. Not modelled

Wording, logging, headers and content types; malformed requests: a line that is not JSON is
skipped, a message of the right form with a payload of the wrong one is answered with an
error or not at all and changes nothing but the routing table, and one without a sender, or with a sender's id of fewer
than eight bytes, ends the process (`rpc.go:125` slices the id before anything checks it),
which `NodeProcess` has as `ReceivePanics` and the other modules as a crash; the size limit of a
chunk; configuration and identity (`generateNodeID`, `buildAdvertisedAddr`): nodes are
model values; the health and status endpoints, which only read; the browser client;
the one-line placeholder files.

The rounds of the iterative `FindNode`: its only caller is the bootstrap's lookup of
the own key, which finds nobody to contact unless the table has been split down to the
lower half of its buckets (`RoutingSelfLookup`), so that a model of them would be about
behaviour the program does not have.

`storage.max_storage_bytes` is the "disk cap" of `README.md:161`; no code reads it, so
that there is nothing to model: puts go on beyond it. `ClosestK` "returns the k closest
nodes" (`routing.go:251`) as far as `ClosestKInReach` says; once it has 3K candidates from
nearby buckets it stops before buckets that may have closer ones.

The hazards in `PROJECT.json` without a property say in their notes why none covers
them.
