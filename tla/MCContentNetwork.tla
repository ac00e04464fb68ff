---- MODULE MCContentNetwork ----
(* ContentNetwork for TLC: the three nodes of build/compose.yml.  Node1 has no *)
(* bootstrap node, node2 has node1, and node3 has both.                        *)
EXTENDS ContentNetwork, TLC

CONSTANTS node1, node2, node3

ComposeBootstraps ==
  [n \in Nodes |-> CASE n = node1 -> <<>>
                     [] n = node2 -> <<node1>>
                     [] n = node3 -> <<node1, node2>>]

Symmetry == Permutations(Tasks)
====
