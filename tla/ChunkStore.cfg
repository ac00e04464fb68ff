\* Two goroutines, two chunks; one put in each life of the process may miss a file.
SPECIFICATION BoundedSpec
CONSTANTS
  c1 = c1
  c2 = c2
  None = None
  Chunks = {c1, c2}
  Threads = {t1, t2}
  Size <- MCSize
  Workload <- Calls
  MaxReplaced = 1
INVARIANTS TypeOK Exclusion CountAccounted BytesAccounted FinalIntact
PROPERTIES ImplementsContentStore CallsReturn
