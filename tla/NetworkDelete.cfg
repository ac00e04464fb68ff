\* One request after another to three running nodes; between them nodes may restart.
SPECIFICATION SequentialSpec
CONSTANTS
  node1 = node1
  node2 = node2
  node3 = node3
  Nodes = {node1, node2, node3}
  Hashes = {h1}
  Tasks = {t1}
  Ops = {"POST", "GET", "DELETE"}
  Bootstraps <- ComposeBootstraps
  Advertising = {node1, node2, node3}
  Faults = {"crash"}
  MaxLate = 0
  None = None
INVARIANT DeletesEverywhere
