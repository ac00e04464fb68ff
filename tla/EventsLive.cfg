\* One client, as many events as do not fill a buffer.
SPECIFICATION HubFairSpec
CONSTANTS
  Clients = {c1}
  Emitters = {g1}
  Cap = 2
  Buffer = 4
  MaxEvents = 3
  None = None
CHECK_DEADLOCK FALSE
PROPERTY EventsArrive
