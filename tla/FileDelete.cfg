\* No fault; one request at a time, of a quiet cluster.
SPECIFICATION SequentialSpec
CONSTANTS
  node1 = node1
  node2 = node2
  Nodes = {node1, node2}
  Uploads <- OneStream
  ChunkSize = 2
  MaxSize = 3
  Tasks = {t1}
  Ops <- OwnerDeletes
  Advertising = {node1, node2}
  Faults = {}
  None = None
INVARIANT DeletedEverywhere
