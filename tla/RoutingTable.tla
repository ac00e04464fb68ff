----------------------------- MODULE RoutingTable -----------------------------
(***************************************************************************)
(* internal/dht/routing.go: the k-buckets of one node.  A key is the set   *)
(* of its one bits, so the XOR distance of two keys is a set of bits too,  *)
(* and its bucket is the largest of them.  Every operation holds rt.mutex  *)
(* from its first line to its last: each is one step.  A bucket is the set *)
(* of its entries: two entries never have equal distances to a key, so     *)
(* that neither a search nor a sort depends on the order of the slice.     *)
(***************************************************************************)
EXTENDS Integers, FiniteSets, FiniteSetsExt

CONSTANTS
  KeyBits,     \* 256 in the code
  K,           \* dht.k of the configuration
  MaxRadius,   \* 128 in the code
  Self,        \* the node's own key
  Addrs,       \* dial addresses
  SelfAddr,    \* the node's own
  None         \* no address

Bits  == 0..KeyBits-1
Keys  == SUBSET Bits
Peers == Keys \ {Self}
Contacts == [id : Keys, addr : Addrs]
self  == [id |-> Self, addr |-> SelfAddr]

ASSUME ConstantsAssumption ==
  /\ KeyBits \in Nat \ {0}
  /\ K \in Nat \ {0}
  /\ MaxRadius \in Nat
  /\ Self \in Keys
  /\ SelfAddr \in Addrs
  /\ None \notin Addrs

VARIABLES
  buckets,   \* the entries of each bucket; a nil bucket has none
  depth      \* how many times the node's own bucket has been split

vars == <<buckets, depth>>
-------------------------------------------------------------------------------
xorDistance(a, b) == (a \ b) \cup (b \ a)

distanceBucket(distance) == IF distance = {} THEN 0 ELSE Max(distance)

\* The most significant bit in which they differ belongs to the larger.
isDistanceSmaller(a, b) == a # b /\ Max(xorDistance(a, b)) \in b

standardBucket(key) == distanceBucket(xorDistance(Self, key))

\* Keys nearer than the active buckets share the lowest of them.
getBucketIndex(d, key) ==
  IF standardBucket(key) >= KeyBits-1 - d THEN standardBucket(key) ELSE KeyBits-1 - d

Holding(bucket, key) == {c \in bucket : c.id = key}
\* Mutation of Full: one entry too many.
OverFull(bucket)     == Cardinality(bucket) > K
Full(bucket)         == Cardinality(bucket) >= K

Init ==
  /\ buckets = [i \in Bits |-> IF i = KeyBits-1 THEN {self} ELSE {}]
  /\ depth = 0
-------------------------------------------------------------------------------
(* InsertNode: four ways out.  A node's own key is ignored. *)

\* Mutation of Update: the new address is added, the old one stays.
UpdateAdding(n) ==
  LET i == getBucketIndex(depth, n.id) IN
  /\ Holding(buckets[i], n.id) # {}
  /\ buckets' = [buckets EXCEPT ![i] = @ \cup {n}]
  /\ UNCHANGED depth

Update(n) ==
  LET i == getBucketIndex(depth, n.id) IN
  /\ Holding(buckets[i], n.id) # {}
  /\ buckets' = [buckets EXCEPT ![i] = (@ \ Holding(@, n.id)) \cup {n}]
  /\ UNCHANGED depth

Append(n) ==
  LET i == getBucketIndex(depth, n.id) IN
  /\ Holding(buckets[i], n.id) = {}
  /\ ~Full(buckets[i])
  /\ buckets' = [buckets EXCEPT ![i] = @ \cup {n}]
  /\ UNCHANGED depth

\* Mutation of TurnAway: an old entry makes room for the newcomer.
TurnAwayEvicting(n) ==
  LET i == getBucketIndex(depth, n.id) IN
  /\ Holding(buckets[i], n.id) = {}
  /\ Full(buckets[i]) /\ Holding(buckets[i], Self) = {}
  /\ \E old \in buckets[i] : buckets' = [buckets EXCEPT ![i] = (@ \ {old}) \cup {n}]
  /\ UNCHANGED depth

TurnAway(n) ==
  LET i == getBucketIndex(depth, n.id) IN
  /\ Holding(buckets[i], n.id) = {}
  /\ Full(buckets[i]) /\ Holding(buckets[i], Self) = {}
  /\ UNCHANGED vars

\* Mutation of Moving: the index is computed before rt.depth is raised.
MovingStale(i, d) == {c \in buckets[i] : getBucketIndex(depth, c.id) = i - 1}

\* splitBucket: the entries of bucket i that belong lower move one bucket down.
Moving(i, d) == {c \in buckets[i] : getBucketIndex(d, c.id) = i - 1}

\* Mutation of Split: remainingNodes is computed but never stored.
SplitCopying(i, d) == [buckets EXCEPT ![i-1] = @ \cup Moving(i, d)]

Split(i, d) == [buckets EXCEPT ![i] = @ \ Moving(i, d), ![i-1] = @ \cup Moving(i, d)]

\* Mutation of InsertInto: the node that caused the split is forgotten.
InsertIntoNothing(b, d, n) == b

\* insertNodeInternal, into the table b of depth d; its node is not yet there.
InsertInto(b, d, n) ==
  LET i == getBucketIndex(d, n.id) IN
  IF Full(b[i]) THEN b ELSE [b EXCEPT ![i] = @ \cup {n}]

SplitAndInsert(n) ==
  LET i == getBucketIndex(depth, n.id)
      d == IF KeyBits-1 - i >= depth THEN KeyBits - i ELSE depth
  IN
  /\ Holding(buckets[i], n.id) = {}
  /\ Full(buckets[i]) /\ Holding(buckets[i], Self) # {}
  /\ IF i = 0 THEN UNCHANGED vars
     ELSE /\ depth' = d
          /\ buckets' = InsertInto(Split(i, d), d, n)

InsertNode(n) == Update(n) \/ Append(n) \/ TurnAway(n) \/ SplitAndInsert(n)

\* Mutation of RemoveNode: an empty bucket undoes a split.
RemoveNodeMerging(key) ==
  LET i == getBucketIndex(depth, key) IN
  /\ Holding(buckets[i], key) # {}
  /\ buckets' = [buckets EXCEPT ![i] = @ \ Holding(@, key)]
  /\ depth' = IF buckets'[i] = {} THEN depth - 1 ELSE depth

\* RemoveNode returns an error for the node's own key and for one not there.
RemoveNode(key) ==
  LET i == getBucketIndex(depth, key) IN
  /\ Holding(buckets[i], key) # {}
  /\ buckets' = [buckets EXCEPT ![i] = @ \ Holding(@, key)]
  /\ UNCHANGED depth
-------------------------------------------------------------------------------
(* The queries. *)

\* The entries Lookup may return; the node itself for its own key.
Lookup(key) ==
  IF key = Self THEN {self} ELSE Holding(buckets[getBucketIndex(depth, key)], key)

Entries(b) == UNION {b[i] : i \in Bits}
Known      == {c \in Entries(buckets) : c.id # Self}

\* The entries ClosestK has collected once it has looked at a radius.
Within(start, radius) ==
  {c \in Known : \E i \in Bits : c \in buckets[i] /\ start - radius <= i /\ i <= start + radius}

\* Mutation of LastRadius: K candidates are enough.
LastRadiusK(start) ==
  Max({r \in 0..MaxRadius : r = 0 \/ 1 + Cardinality(Within(start, r-1)) < K})

\* The last radius of its loop: it stops at 3K candidates, one of them self.
LastRadius(start) ==
  Max({r \in 0..MaxRadius : r = 0 \/ 1 + Cardinality(Within(start, r-1)) < 3*K})

\* The first K of some entries, sorted by their distance to key.
FirstK(key, S) ==
  {c \in S : Cardinality({d \in S :
     isDistanceSmaller(xorDistance(key, d.id), xorDistance(key, c.id))}) < K}

Candidates(key) ==
  LET start == standardBucket(key) IN {self} \cup Within(start, LastRadius(start))

ClosestK(key) == FirstK(key, Candidates(key))
-------------------------------------------------------------------------------
Next ==
  \/ \E n \in Contacts : n.id # Self /\ InsertNode(n)
  \/ \E key \in Peers : RemoveNode(key)

Spec == Init /\ [][Next]_vars
-------------------------------------------------------------------------------
TypeOK ==
  /\ buckets \in [Bits -> SUBSET Contacts]
  /\ depth \in Bits

\* Each entry is in the one bucket where Lookup, InsertNode and RemoveNode look for
\* its key, although a split changes where that is; the node's own entry included.
Placement ==
  \A i \in Bits : \A c \in buckets[i] : getBucketIndex(depth, c.id) = i

\* The node's own entry is never lost, doubled or changed by the splits that move
\* it: without it in the lowest bucket, no later bucket would be split.
SelfPresent == Holding(buckets[KeyBits-1 - depth], Self) = {self}

\* No bucket grows over K entries, the update and the two halves of a split included.
Capacity == \A i \in Bits : Cardinality(buckets[i]) <= K

\* The table implements the book of contacts: what Lookup finds is the address last
\* inserted for each peer, and an insertion never drops another peer.
Address(found) == IF found = {} THEN None ELSE (CHOOSE c \in found : TRUE).addr
Book == [p \in Peers |-> Address(Lookup(p))]
B == INSTANCE ContactBook WITH book <- Book
ImplementsContactBook == B!Spec

\* A newcomer is refused only for lack of room: after its insertion it is in the
\* table, or its bucket holds K others.
NewcomersFit ==
  [][\A n \in Contacts : n.id # Self /\ InsertNode(n) =>
       n \in buckets'[getBucketIndex(depth', n.id)]
         \/ Cardinality(buckets'[getBucketIndex(depth', n.id)]) = K]_vars

\* Whatever updates and splits an entry has been through: an answer to FIND_NODE names
\* at most K contacts, none of them twice, and fewer only if it names all candidates.
AnswersFull ==
  \A key \in Keys :
    LET answer == ClosestK(key) IN
    /\ Cardinality(answer) <= K
    /\ \A c, e \in answer : c.id = e.id => c = e
    /\ Cardinality(answer) < K => answer = Candidates(key)

\* Where ClosestK is exact: a key whose bucket is within MaxRadius of every bucket in
\* use, asked of a table with fewer than 3K entries.
InReach(key) ==
  /\ standardBucket(key) + MaxRadius >= KeyBits-1
  /\ standardBucket(key) - MaxRadius <= KeyBits-1 - depth
Exact(key) == ClosestK(key) = FirstK(key, {self} \cup Known)
ClosestKInReach ==
  \A key \in Keys : InReach(key) /\ Cardinality(Known) + 1 < 3*K => Exact(key)

\* "Perform FindNode for self to populate routing table" (node.go:168): the lookup
\* starts from ClosestK of the node's own key, so that must name some known peer.
SelfLookupFindsPeers == Known # {} => ClosestK(Self) # {self}
===============================================================================
