---- MODULE MCRoutingTable ----
(* RoutingTable for TLC.  The node's own key is the one with no bit set; XOR *)
(* with another key would give the same tables under another naming.        *)
EXTENDS RoutingTable

NoBits == {}
====
