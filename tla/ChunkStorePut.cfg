\* Two goroutines, two chunks.
SPECIFICATION Spec
CONSTANTS
  c1 = c1
  c2 = c2
  None = None
  Chunks = {c1, c2}
  Threads = {t1, t2}
  Size <- MCSize
  Workload <- Calls
  MaxReplaced = 1
INVARIANT PutStores
