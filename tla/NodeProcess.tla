----------------------------- MODULE NodeProcess -----------------------------
(***************************************************************************)
(* One process, from the start of its two servers to its end: main of      *)
(* cmd/node/main.go, Start and Stop of the HTTP server, and the RPC server *)
(* of internal/dht/rpc.go.  Each starts in a goroutine of its own, which   *)
(* a signal may overtake.  What the handlers have in common is the event   *)
(* hub of EventHub.tla: they emit events, and each request for events is   *)
(* itself a handler that stays.                                            *)
(***************************************************************************)
EXTENDS EventHub

CONSTANTS
  Requests,   \* HTTP requests other than for events
  Conns       \* RPC connections

ASSUME ProcessAssumption == Emitters = Requests \cup Conns /\ Requests \cap Conns = {}

VARIABLES
  main,       \* where main is
  sigCh,      \* the channel of signals: "empty" or "full"
  http,       \* s.httpServer: "nil", "set", "serving", "failed" or "shutdown"
  request,    \* request[r]: where the handler of r is
  ctx,        \* the context of Shutdown: "live" or "expired"
  starter,    \* where Start of the DHT node is
  listener,   \* s.listener: "nil", "open" or "closed"
  shutdown,   \* s.shutdown, a channel: "open" or "closed"
  acceptor,   \* where acceptLoop is
  conn        \* conn[k]: where the connection k is

mainVars == <<main, sigCh>>
httpVars == <<http, request, ctx>>
rpcVars  == <<starter, listener, shutdown, acceptor, conn>>
procVars == <<mainVars, httpVars, rpcVars>>
vars     == <<hubVars, procVars>>

Init ==
  /\ InitHub
  /\ main = "running" /\ sigCh = "empty"
  /\ http = "nil" /\ ctx = "live"
  /\ request = [r \in Requests |-> "none"]
  /\ starter = "starting" /\ listener = "nil" /\ shutdown = "open"
  /\ acceptor = "none"
  /\ conn = [k \in Conns |-> "none"]

Ended == main = "ended"
-------------------------------------------------------------------------------
(* Start of the HTTP server, and its requests. *)

SetHTTP ==
  /\ http = "nil"
  /\ http' = "set"
  /\ UNCHANGED <<hubVars, mainVars, rpcVars, request, ctx>>

\* ListenAndServe: the port may be taken.
ServeHTTP ==
  /\ http = "set"
  /\ http' \in {"serving", "failed"}
  /\ UNCHANGED <<hubVars, mainVars, rpcVars, request, ctx>>

BeginRequest(r) ==
  /\ http = "serving" /\ request[r] = "none"
  /\ request' = [request EXCEPT ![r] = "running"]
  /\ UNCHANGED <<hubVars, mainVars, rpcVars, http, ctx>>

EmitInRequest(r) ==
  /\ request[r] = "running"
  /\ Emit(r)
  /\ UNCHANGED procVars

EndRequest(r) ==
  /\ request[r] = "running" /\ r \notin emitting
  /\ request' = [request EXCEPT ![r] = "ended"]
  /\ UNCHANGED <<hubVars, mainVars, rpcVars, http, ctx>>

ConnectClient(c) == http = "serving" /\ Connect(c) /\ UNCHANGED procVars

\* The handlers that Shutdown waits for.
Handling ==
  \/ \E r \in Requests : request[r] = "running"
  \/ \E c \in Clients : handler[c] \notin {"none", "returned"}
-------------------------------------------------------------------------------
(* Start of the RPC server, acceptLoop and handleConnection. *)

Listen ==
  /\ starter = "starting"
  /\ listener' = "open"
  /\ starter' = "listening"
  /\ UNCHANGED <<hubVars, mainVars, httpVars, shutdown, acceptor, conn>>

\* logger.Fatal ends the process.
ListenFails ==
  /\ starter = "starting"
  /\ main' = "ended"
  /\ UNCHANGED <<hubVars, httpVars, rpcVars, sigCh>>

StartAccepting ==
  /\ starter = "listening"
  /\ starter' = "done"
  /\ acceptor' = "checking"
  /\ UNCHANGED <<hubVars, mainVars, httpVars, listener, shutdown, conn>>

Check ==
  /\ acceptor = "checking"
  /\ acceptor' = IF shutdown = "closed" THEN "done" ELSE "accepting"
  /\ UNCHANGED <<hubVars, mainVars, httpVars, starter, listener, shutdown, conn>>

Dial(k) ==
  /\ listener = "open" /\ conn[k] = "none"
  /\ conn' = [conn EXCEPT ![k] = "dialled"]
  /\ UNCHANGED <<hubVars, mainVars, httpVars, starter, listener, shutdown, acceptor>>

Accept(k) ==
  /\ acceptor = "accepting" /\ listener = "open" /\ conn[k] = "dialled"
  /\ acceptor' = "checking"
  /\ conn' = [conn EXCEPT ![k] = "open"]
  /\ UNCHANGED <<hubVars, mainVars, httpVars, starter, listener, shutdown>>

\* An error ends the loop after the shutdown only; a passing one is logged.
AcceptFails ==
  /\ acceptor = "accepting"
  /\ acceptor' = IF shutdown = "closed" THEN "done" ELSE "checking"
  /\ UNCHANGED <<hubVars, mainVars, httpVars, starter, listener, shutdown, conn>>

\* A message: its event, then the routing table and the answer.
Receive(k) ==
  /\ conn[k] = "open"
  /\ Emit(k)
  /\ conn' = [conn EXCEPT ![k] = "serving"]
  /\ UNCHANGED <<mainVars, httpVars, starter, listener, shutdown, acceptor>>

\* A message without a sender, or with an id of fewer than eight bytes: the slice of the
\* id in the log line panics, which ends the process.
ReceivePanics(k) ==
  /\ conn[k] = "open"
  /\ main' = "ended"
  /\ UNCHANGED <<hubVars, httpVars, rpcVars, sigCh>>

\* The handler of k is where it writes its answer: until the peer makes room for it, as
\* the deadline of the connection is for reads only.
Answering(k) == conn[k] = "serving" /\ k \notin emitting

\* The answer is written; if it cannot be, the loop ends.
Respond(k) ==
  /\ Answering(k)
  /\ \E next \in {"open", "closed"} : conn' = [conn EXCEPT ![k] = next]
  /\ UNCHANGED <<hubVars, mainVars, httpVars, starter, listener, shutdown, acceptor>>

CloseConn(k) ==
  /\ conn[k] = "open"
  /\ conn' = [conn EXCEPT ![k] = "closed"]
  /\ UNCHANGED <<hubVars, mainVars, httpVars, starter, listener, shutdown, acceptor>>

\* The peer closes the connection, or leaves it open.
HangUp(k) == CloseConn(k)

\* Mutation of Deadline: no deadline is set.
DeadlineNever(k) == FALSE /\ CloseConn(k)

\* 30 seconds after the connection was accepted, whatever it was used for.
Deadline(k) == CloseConn(k)

\* Mutation of Working: a connection is counted once its goroutine runs, not before.
WorkingLate == acceptor \in {"checking", "accepting"} \/ \E k \in Conns : conn[k] = "serving"

\* What s.wg counts.
Working == acceptor \in {"checking", "accepting"} \/ \E k \in Conns : conn[k] \in {"open", "serving"}
-------------------------------------------------------------------------------
(* main after its start. *)

Signal ==
  /\ sigCh = "empty"
  /\ sigCh' = "full"
  /\ UNCHANGED <<hubVars, httpVars, rpcVars, main>>

Stopping == sigCh = "full" \/ http = "failed"

\* Mutation of StopHTTP: main does not wait for Shutdown.
StopHTTPAtOnce ==
  /\ main = "running" /\ Stopping
  /\ http' = IF http \in {"set", "serving"} THEN "shutdown" ELSE http
  /\ main' = "stopping rpc"
  /\ UNCHANGED <<hubVars, rpcVars, sigCh, request, ctx>>

\* Stop of a server that has not been set does nothing; that server starts yet.
StopHTTP ==
  /\ main = "running" /\ Stopping
  /\ IF http = "nil" THEN main' = "stopping rpc" /\ UNCHANGED http
     ELSE /\ main' = "draining"
          /\ http' = IF http = "failed" THEN http ELSE "shutdown"
  /\ UNCHANGED <<hubVars, rpcVars, sigCh, request, ctx>>

Drained ==
  /\ main = "draining" /\ ~Handling
  /\ main' = "stopping rpc"
  /\ UNCHANGED <<hubVars, httpVars, rpcVars, sigCh>>

\* 15 seconds.
DrainTimeout ==
  /\ main = "draining" /\ Handling
  /\ main' = "stopping rpc"
  /\ ctx' = "expired"
  /\ UNCHANGED <<hubVars, rpcVars, sigCh, http, request>>

\* Stop of an RPC server that does not listen yet does nothing.
StopRPC ==
  /\ main = "stopping rpc"
  /\ IF listener = "nil" THEN main' = "stopped" /\ UNCHANGED shutdown
                         ELSE main' = "closing" /\ shutdown' = "closed"
  /\ UNCHANGED <<hubVars, httpVars, sigCh, starter, listener, acceptor, conn>>

CloseListener ==
  /\ main = "closing"
  /\ listener' = "closed"
  /\ main' = "waiting"
  /\ UNCHANGED <<hubVars, httpVars, sigCh, starter, shutdown, acceptor, conn>>

Waited ==
  /\ main = "waiting" /\ ~Working
  /\ main' = "stopped"
  /\ UNCHANGED <<hubVars, httpVars, rpcVars, sigCh>>

End ==
  /\ main = "stopped"
  /\ main' = "ended"
  /\ UNCHANGED <<hubVars, httpVars, rpcVars, sigCh>>

Stop == StopHTTP \/ Drained \/ DrainTimeout \/ StopRPC \/ CloseListener \/ Waited \/ End

Serving(k) == Accept(k) \/ Respond(k) \/ Deadline(k)

Start == SetHTTP \/ ServeHTTP \/ Listen \/ ListenFails \/ StartAccepting

\* With the process end all goroutines.
Next ==
  /\ ~Ended
  /\ \/ Start \/ Stop \/ Signal
     \/ \E r \in Requests : BeginRequest(r) \/ EmitInRequest(r) \/ EndRequest(r)
     \/ \E c \in Clients : ConnectClient(c)
     \/ /\ Broadcast \/ \E c \in Clients : Stream(c) \/ Disconnect(c) \/ WriteTimeout(c)
        /\ UNCHANGED procVars
     \/ Check \/ AcceptFails
     \/ \E k \in Conns : Dial(k) \/ Serving(k) \/ Receive(k) \/ ReceivePanics(k) \/ HangUp(k)

Spec == Init /\ [][Next]_vars

Alive(A) == ~Ended /\ A
HubStep(A) == ~Ended /\ A /\ UNCHANGED procVars

\* Goroutines go on, the mutex is fair, and each timer fires.  An HTTP handler may take as
\* long as it likes, a client may stay, and a peer may never read its answer: nothing is
\* assumed of Respond.
FairSpec ==
  /\ Spec
  /\ WF_vars(Alive(Stop))
  /\ WF_vars(Alive(Check \/ (listener = "closed" /\ AcceptFails)))
  /\ WF_vars(Alive(StartAccepting))
  /\ \A k \in Conns : WF_vars(Alive(Deadline(k)))
  /\ \A g \in Emitters : SF_vars(HubStep(Acquire(g)))
  /\ \A c \in Clients : WF_vars(HubStep(Send(c))) /\ SF_vars(HubStep(Remove(c)))
  /\ WF_vars(HubStep(Release))
-------------------------------------------------------------------------------
TypeOK ==
  /\ HubTypeOK
  /\ main \in {"running", "draining", "stopping rpc", "closing", "waiting", "stopped", "ended"}
  /\ http \in {"nil", "set", "serving", "failed", "shutdown"}
  /\ sigCh \in {"empty", "full"} /\ ctx \in {"live", "expired"} /\ shutdown \in {"open", "closed"}
  /\ request \in [Requests -> {"none", "running", "ended"}]
  /\ starter \in {"starting", "listening", "done"}
  /\ listener \in {"nil", "open", "closed"}
  /\ acceptor \in {"none", "checking", "accepting", "done"}
  /\ conn \in [Conns -> {"none", "dialled", "open", "serving", "closed"}]

\* Stop "gracefully shuts down the RPC server" (rpc.go:61): once it has returned, no
\* connection is served and none will be accepted, even if Start was half-way.
NothingServedAfterStop ==
  main = "stopped" /\ shutdown = "closed" =>
    acceptor # "accepting" /\ \A k \in Conns : conn[k] \notin {"open", "serving"}

\* While an HTTP request is in progress the node answers RPCs, unless Shutdown has given
\* up on the request or the server was not there to be stopped.
ServedWhileDraining ==
  shutdown = "closed" /\ http = "shutdown" /\ ctx = "live" => ~Handling

\* However long clients, idle peers and HTTP handlers stay, a node that is told to stop
\* ends.  The exception is a peer that leaves an answer unread for ever: the write has no
\* deadline (rpc.go:156) and Stop waits for it without limit (rpc.go:69).
ShutdownEnds ==
  (\A k \in Conns : []<>~Answering(k)) => (sigCh = "full" ~> Ended)

\* Nobody is stuck in emitEvent, however slow or gone the clients are.
EmittersReturn == \A g \in Emitters : g \in emitting ~> g \notin emitting \/ Ended
===============================================================================
