\* No fault; every request, two at a time.
SPECIFICATION Spec
CONSTANTS
  node1 = node1
  node2 = node2
  node3 = node3
  Nodes = {node1, node2, node3}
  Hashes = {h1}
  Tasks = {t1, t2}
  Ops = {"POST", "GET", "DELETE"}
  Bootstraps <- ComposeBootstraps
  Advertising = {node1, node2, node3}
  Faults = {}
  MaxLate = 0
  None = None
SYMMETRY Symmetry
INVARIANT HoldersFindable
