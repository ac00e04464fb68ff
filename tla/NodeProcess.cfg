\* A request and a connection that emit events, and a client that receives them.
SPECIFICATION FairSpec
CONSTANTS
  Clients = {c1}
  Requests = {r1}
  Conns = {k1}
  Emitters = {r1, k1}
  Cap = 1
  Buffer = 3
  MaxEvents = 3
  None = None
CHECK_DEADLOCK FALSE
INVARIANTS TypeOK NoSendOnClosed EventsInOrder NothingServedAfterStop ServedWhileDraining
PROPERTIES ShutdownEnds EmittersReturn
