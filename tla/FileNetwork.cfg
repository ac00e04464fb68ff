\* Two handlers at a time, two files with a chunk in common; streams break off.
SPECIFICATION Spec
CONSTANTS
  node1 = node1
  node2 = node2
  Nodes = {node1, node2}
  Uploads <- SharedChunk
  ChunkSize = 2
  MaxSize = 3
  Tasks = {t1, t2}
  Ops <- EachSome
  Advertising = {node1}
  Faults = {"client"}
  None = None
SYMMETRY Symmetry
INVARIANTS UploadsIntact DownloadsExact UploadsAnnounced
