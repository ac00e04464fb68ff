\* One handler at a time, with the deletes it has left behind at the other node; every fault.
SPECIFICATION FairSpec
CONSTANTS
  node1 = node1
  node2 = node2
  Nodes = {node1, node2}
  Uploads <- SameFile
  ChunkSize = 1
  MaxSize = 1
  Tasks = {t1}
  Ops <- GetAndDelete
  Advertising = {node1, node2}
  Faults = {"call", "read", "write", "remove", "crash"}
  None = None
INVARIANT TypeOK
PROPERTY WorkEnds
