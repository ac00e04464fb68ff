------------------------------- MODULE EventHub -------------------------------
(***************************************************************************)
(* The server-sent events of internal/api/server.go.  Every handler emits  *)
(* events; the hub puts each in the channel of each connected client, and  *)
(* the client's own handler writes it to the response.  The hub's mutex    *)
(* covers a whole broadcast, and the deletion of a client but not the      *)
(* closing of its channel.                                                 *)
(*                                                                         *)
(* handleSSE flushes after each write if the ResponseWriter is a Flusher.  *)
(* It gets the responseWriter of loggingMiddleware, which is none: what is *)
(* written waits in the buffers of net/http until they overflow.  A write  *)
(* deadline of 15 seconds runs from the request on; only an overflow after *)
(* it fails, and cancels the request.  The ticker's keep-alive comments    *)
(* come after 25 seconds, so that all they can do is to bring about the    *)
(* overflow of a connection that is late.                                  *)
(***************************************************************************)
EXTENDS Integers, Sequences, FiniteSets

CONSTANTS
  Clients,     \* the connections to /api/v1/events, each used once
  Emitters,    \* the goroutines that emit events
  Cap,         \* the room in a client's channel: 16
  Buffer,      \* how many events fill the buffers of net/http, of some 4096 bytes
  MaxEvents,   \* bound: the events emitted
  None         \* nobody

ASSUME HubAssumption ==
  /\ Cap \in Nat \ {0}
  /\ Buffer \in Nat \ {0}
  /\ MaxEvents \in Nat
  /\ None \notin Emitters

VARIABLES
  clients,    \* h.clients
  queue,      \* queue[c]: the events in c's channel, each the number of its broadcast
  closed,     \* the clients whose channel is closed
  handler,    \* handler[c]: where the handler of c is
  left,       \* the clients that have closed their connection
  broken,     \* the clients whose connection could not be written to
  late,       \* the clients whose connection is past its WriteTimeout
  written,    \* written[c]: the events written to c's response; 0 is "hello"
  flushed,    \* flushed[c]: how many of these have left the node
  emitting,   \* the goroutines inside emitEvent
  holder,     \* the one of them that holds h.mu
  todo,       \* the channels its loop has yet to come to
  count,      \* history: the broadcasts so far
  joined,     \* history: joined[c] is the count when c was added
  behind      \* history: behind[c]: the broadcasts that found c a whole channel behind

lockVars   == <<emitting, holder, todo, count>>
netVars    == <<left, broken, late, flushed>>
streamVars == <<clients, queue, closed, handler, written, joined, behind>>
hubVars    == <<lockVars, netVars, streamVars>>

InitHub ==
  /\ clients = {} /\ closed = {}
  /\ left = {} /\ broken = {} /\ late = {}
  /\ queue = [c \in Clients |-> <<>>]
  /\ handler = [c \in Clients |-> "none"]
  /\ written = [c \in Clients |-> <<>>]
  /\ flushed = [c \in Clients |-> 0]
  /\ emitting = {} /\ holder = None /\ todo = {}
  /\ count = 0
  /\ joined = [c \in Clients |-> 0]
  /\ behind = [c \in Clients |-> {}]

Broadcasting == holder # None
Cancelled(c) == c \in left \cup broken
-------------------------------------------------------------------------------
(* emitEvent and broadcast. *)

Emit(g) ==
  /\ g \notin emitting /\ count + Cardinality(emitting) < MaxEvents
  /\ emitting' = emitting \cup {g}
  /\ UNCHANGED <<netVars, streamVars, holder, todo, count>>

Acquire(g) ==
  /\ g \in emitting /\ ~Broadcasting
  /\ holder' = g
  /\ todo' = clients
  /\ count' = count + 1
  /\ UNCHANGED <<netVars, streamVars, emitting>>

\* Mutation of Room: one place is kept free.
RoomShort(c) == Len(queue[c]) < Cap - 1

Room(c) == Len(queue[c]) < Cap

\* How it finds c: with as many events to write as a channel holds, or with fewer.
Met(c) == IF Len(queue[c]) >= Cap THEN [behind EXCEPT ![c] = @ \cup {count}] ELSE behind

\* Mutation of Send: without the default case, it waits for room.
SendBlocking(c) ==
  /\ Broadcasting /\ c \in todo /\ Room(c)
  /\ todo' = todo \ {c}
  /\ queue' = [queue EXCEPT ![c] = Append(@, count)]
  /\ behind' = Met(c)
  /\ UNCHANGED <<netVars, clients, closed, handler, written, emitting, holder, count, joined>>

\* The event is dropped if the channel is full.
Send(c) ==
  /\ Broadcasting /\ c \in todo
  /\ todo' = todo \ {c}
  /\ queue' = IF Room(c) THEN [queue EXCEPT ![c] = Append(@, count)] ELSE queue
  /\ behind' = Met(c)
  /\ UNCHANGED <<netVars, clients, closed, handler, written, emitting, holder, count, joined>>

Release ==
  /\ Broadcasting /\ todo = {}
  /\ holder' = None
  /\ emitting' = emitting \ {holder}
  /\ UNCHANGED <<netVars, streamVars, todo, count>>
-------------------------------------------------------------------------------
(* handleSSE: add, hello, the loop, and the deferred remove. *)

Connect(c) ==
  /\ handler[c] = "none"
  /\ handler' = [handler EXCEPT ![c] = "adding"]
  /\ UNCHANGED <<lockVars, netVars, clients, queue, closed, written, joined, behind>>

Add(c) ==
  /\ handler[c] = "adding" /\ ~Broadcasting
  /\ clients' = clients \cup {c}
  /\ joined' = [joined EXCEPT ![c] = count]
  /\ written' = [written EXCEPT ![c] = <<0>>]
  /\ handler' = [handler EXCEPT ![c] = "serving"]
  /\ UNCHANGED <<lockVars, netVars, queue, closed, behind>>

\* Errors of the write are not looked at, so that it goes on for a client that is gone.
Write(c) ==
  /\ handler[c] = "serving" /\ queue[c] # <<>>
  /\ queue' = [queue EXCEPT ![c] = Tail(@)]
  /\ written' = [written EXCEPT ![c] = Append(@, Head(queue[c]))]
  /\ UNCHANGED <<lockVars, netVars, clients, closed, handler, joined, behind>>

\* Mutation of Remove: the channel is closed before it leaves the map.
RemoveClosing(c) ==
  /\ handler[c] = "serving" /\ Cancelled(c)
  /\ closed' = closed \cup {c}
  /\ handler' = [handler EXCEPT ![c] = "removed"]
  /\ UNCHANGED <<lockVars, netVars, clients, queue, written, joined, behind>>

\* Mutation of Remove: the map changes without the mutex.
RemoveUnlocked(c) ==
  /\ handler[c] = "serving" /\ Cancelled(c)
  /\ clients' = clients \ {c}
  /\ handler' = [handler EXCEPT ![c] = "removed"]
  /\ UNCHANGED <<lockVars, netVars, queue, closed, written, joined, behind>>

Remove(c) ==
  /\ handler[c] = "serving" /\ Cancelled(c) /\ ~Broadcasting
  /\ clients' = clients \ {c}
  /\ handler' = [handler EXCEPT ![c] = "removed"]
  /\ UNCHANGED <<lockVars, netVars, queue, closed, written, joined, behind>>

Close(c) ==
  /\ handler[c] = "removed"
  /\ closed' = closed \cup {c}
  /\ handler' = [handler EXCEPT ![c] = "returned"]
  /\ UNCHANGED <<lockVars, netVars, clients, queue, written, joined, behind>>
-------------------------------------------------------------------------------
(* net/http and the client. *)

Open(c) == handler[c] \in {"adding", "serving"}

Disconnect(c) ==
  /\ Open(c) /\ ~Cancelled(c)
  /\ left' = left \cup {c}
  /\ UNCHANGED <<lockVars, streamVars, broken, late, flushed>>

WriteTimeout(c) ==
  /\ Open(c) /\ c \notin late
  /\ late' = late \cup {c}
  /\ UNCHANGED <<lockVars, streamVars, left, broken, flushed>>

\* The buffer overflows, filled by events or, on a connection that is late, in time by
\* the ticker's comments: it goes out, or after the deadline fails to, which cancels the
\* request.
Overflow(c) ==
  /\ handler[c] = "serving" /\ ~Cancelled(c)
  /\ \/ /\ c \notin late /\ Len(written[c]) - flushed[c] >= Buffer
        /\ flushed' = [flushed EXCEPT ![c] = Len(written[c])]
        /\ UNCHANGED broken
     \/ c \in late /\ broken' = broken \cup {c} /\ UNCHANGED flushed
  /\ UNCHANGED <<lockVars, streamVars, left, late>>

Broadcast ==
  \/ \E g \in Emitters : Acquire(g)
  \/ \E c \in Clients : Send(c)
  \/ Release

Stream(c) == Add(c) \/ Write(c) \/ Remove(c) \/ Close(c) \/ Overflow(c)

HubNext ==
  \/ \E g \in Emitters : Emit(g)
  \/ Broadcast
  \/ \E c \in Clients : Connect(c) \/ Stream(c) \/ Disconnect(c) \/ WriteTimeout(c)

HubSpec == InitHub /\ [][HubNext]_hubVars

\* A goroutine that can go on does; one that waits for the mutex gets it in the end; the
\* deadline passes, and the ticker goes on.
HubFairness ==
  /\ \A g \in Emitters : SF_hubVars(Acquire(g))
  /\ \A c \in Clients : WF_hubVars(Send(c)) /\ SF_hubVars(Add(c)) /\ SF_hubVars(Remove(c))
  /\ WF_hubVars(Release)
  /\ \A c \in Clients : WF_hubVars(Write(c)) /\ WF_hubVars(Close(c)) /\ WF_hubVars(Overflow(c))
  /\ \A c \in Clients : WF_hubVars(WriteTimeout(c))

HubFairSpec == HubSpec /\ HubFairness
-------------------------------------------------------------------------------
HubTypeOK ==
  /\ clients \subseteq Clients /\ closed \subseteq Clients
  /\ left \subseteq Clients /\ broken \subseteq Clients /\ late \subseteq Clients
  /\ queue \in [Clients -> Seq(Nat)]
  /\ handler \in [Clients -> {"none", "adding", "serving", "removed", "returned"}]
  /\ written \in [Clients -> Seq(Nat)]
  /\ flushed \in [Clients -> Nat]
  /\ emitting \subseteq Emitters /\ holder \in Emitters \cup {None} /\ todo \subseteq clients
  /\ count \in Nat
  /\ joined \in [Clients -> Nat]
  /\ behind \in [Clients -> SUBSET Nat]

\* No broadcast sends on a closed channel, which would end the process with a panic: the
\* loop of a broadcast only comes to clients that are still there, whenever they leave.
NoSendOnClosed == todo \cap closed = {}

\* What a client is given, hello aside, and how many broadcasts it has seen.
Given(c) == Tail(written[c]) \o queue[c]
Seen(c)  == count - joined[c] - (IF c \in todo THEN 1 ELSE 0)

\* Whoever emits and however the client's handler keeps up: a client's events come in the
\* order of the broadcasts, none twice, and of the broadcasts since it was added exactly
\* those are missing, early or late, that found it a whole channel behind.
EventsInOrder ==
  \A c \in clients :
    /\ \A i, j \in DOMAIN Given(c) : i < j => Given(c)[i] < Given(c)[j]
    /\ {Given(c)[i] : i \in DOMAIN Given(c)} = (joined[c] + 1 .. joined[c] + Seen(c)) \ behind[c]

\* "Live events (SSE)" (README.md:17): what is written to a client that stays reaches it.
EventsArrive ==
  \A c \in Clients : \A i \in 1..MaxEvents + 1 :
    Len(written[c]) >= i ~> flushed[c] >= i \/ c \in left
===============================================================================
