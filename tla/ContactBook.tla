----------------------------- MODULE ContactBook -----------------------------
(***************************************************************************)
(* What a node needs from internal/dht/routing.go: a book of the peers it  *)
(* has heard of, one dial address for each, the latest heard.  A full table *)
(* may refuse a peer it does not know; it never drops or mixes up one it    *)
(* does.  RoutingTable.tla is shown to implement this module.              *)
(***************************************************************************)
CONSTANTS
  Peers,   \* the identifiers of the other nodes
  Addrs,   \* dial addresses
  None     \* no entry

VARIABLE book   \* book[p]: the address Lookup(p) returns, or None

TypeOK == book \in [Peers -> Addrs \cup {None}]

Init == book = [p \in Peers |-> None]

Learn(p, a) == book' = [book EXCEPT ![p] = a]

\* Allowed only for a peer that is not in the book.
Refuse(p) == book[p] = None /\ UNCHANGED book

Forget(p) == book[p] # None /\ book' = [book EXCEPT ![p] = None]

Next ==
  \E p \in Peers :
    \/ \E a \in Addrs : Learn(p, a)
    \/ Refuse(p)
    \/ Forget(p)

Spec == Init /\ [][Next]_book
==============================================================================
