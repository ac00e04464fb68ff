\* Every fault; chunks are stored and fetched, never deleted; node2 does not advertise.
SPECIFICATION FairSpec
CONSTANTS
  node1 = node1
  node2 = node2
  node3 = node3
  Nodes = {node1, node2}
  Hashes = {h1}
  Tasks = {t1, t2}
  Ops = {"POST", "GET"}
  Bootstraps <- ComposeBootstraps
  Advertising = {node1}
  Faults = {"call", "late", "disk", "crash"}
  MaxLate = 1
  None = None
INVARIANTS TypeOK RecordsHonest
PROPERTIES TasksEnd TasksAdvance
