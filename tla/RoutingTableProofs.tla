-------------------------- MODULE RoutingTableProofs --------------------------
(***************************************************************************)
(* Proofs about RoutingTable for every key length, bucket size and set of  *)
(* addresses: where the entries are, that none is lost, and that the table *)
(* implements the ContactBook.                                             *)
(***************************************************************************)
EXTENDS RoutingTable, FiniteSetTheorems, WellFoundedInduction, TLAPS

(* Bits and bucket numbers. *)

LEMMA BitMax ==
  ASSUME NEW S \in SUBSET Bits, S # {}
  PROVE  Max(S) \in S /\ \A y \in S : y <= Max(S)
<1> DEFINE T == {KeyBits-1 - x : x \in S}
<1> DEFINE Less == OpToRel(<, Nat)
<1>1. T \subseteq Nat /\ T # {}
  BY ConstantsAssumption DEF Bits
<1>2. IsWellFoundedOn(Less, Nat)
  BY NatLessThanWellFounded
<1>3. PICK m \in T : \A y \in T : ~(<<y, m>> \in Less)
  <2> HIDE DEF T, Less
  <2> QED BY <1>1, <1>2, WFMin
<1>4. \A y \in T : ~(y < m)
  BY <1>1, <1>3 DEF OpToRel
<1>5. PICK x \in S : m = KeyBits-1 - x
  OBVIOUS
<1>6. ASSUME NEW y \in S PROVE x >= y
  <2>1. ~(KeyBits-1 - y < KeyBits-1 - x)
    BY <1>4, <1>5
  <2>2. x \in Int /\ y \in Int /\ KeyBits \in Int
    BY ConstantsAssumption DEF Bits
  <2> QED BY <2>1, <2>2
<1> QED BY <1>6, ConstantsAssumption DEF Max, Bits

LEMMA StandardBucketType ==
  ASSUME NEW key \in Keys
  PROVE  standardBucket(key) \in Bits
<1>1. xorDistance(Self, key) \in SUBSET Bits
  BY ConstantsAssumption DEF xorDistance, Keys
<1> QED BY <1>1, BitMax, ConstantsAssumption DEF standardBucket, distanceBucket, Bits

LEMMA IndexType ==
  ASSUME NEW d \in Bits, NEW key \in Keys
  PROVE  getBucketIndex(d, key) \in Bits /\ getBucketIndex(d, key) >= KeyBits-1 - d
BY StandardBucketType, ConstantsAssumption DEF getBucketIndex, Bits

LEMMA IndexOfSelf ==
  ASSUME NEW d \in Bits
  PROVE  getBucketIndex(d, Self) = KeyBits-1 - d
BY ConstantsAssumption DEF getBucketIndex, standardBucket, distanceBucket, xorDistance, Bits

\* One split deeper, only the keys of the lowest bucket may have another index.
LEMMA IndexDeeper ==
  ASSUME NEW d \in Bits, d # KeyBits-1, NEW key \in Keys
  PROVE  IF getBucketIndex(d, key) = KeyBits-1 - d
         THEN getBucketIndex(d+1, key) \in {KeyBits-1 - d, KeyBits-2 - d}
         ELSE getBucketIndex(d+1, key) = getBucketIndex(d, key)
BY StandardBucketType, ConstantsAssumption DEF getBucketIndex, Bits

(* A table in good order. *)

Sound(b, d) ==
  /\ b \in [Bits -> SUBSET Contacts] /\ d \in Bits
  /\ \A i \in Bits : IsFiniteSet(b[i]) /\ Cardinality(b[i]) <= K
  /\ \A i \in Bits : \A c \in b[i] : getBucketIndex(d, c.id) = i
  /\ \A i \in Bits : \A c, e \in b[i] : c.id = e.id => c = e
  /\ self \in b[KeyBits-1 - d]

IInv == Sound(buckets, depth)

LEMMA SoundMeans == IInv => TypeOK /\ Placement /\ SelfPresent /\ Capacity
<1> SUFFICES ASSUME IInv PROVE SelfPresent
  BY DEF IInv, Sound, TypeOK, Placement, Capacity
<1>1. KeyBits-1 - depth \in Bits
  BY ConstantsAssumption DEF IInv, Sound, Bits
<1> QED BY <1>1 DEF IInv, Sound, SelfPresent, Holding, self

\* In a sound table an entry is found in the bucket of its key, and only there.
LEMMA HoldingIsEntries ==
  ASSUME NEW b, NEW d, Sound(b, d), NEW key \in Keys
  PROVE  Holding(b[getBucketIndex(d, key)], key) = Holding(Entries(b), key)
<1>1. getBucketIndex(d, key) \in Bits
  BY IndexType DEF Sound
<1> QED BY <1>1 DEF Holding, Entries, Sound

LEMMA SoundInit == Init => IInv
<1> SUFFICES ASSUME Init PROVE Sound(buckets, depth)
  BY DEF IInv
<1>1. 0 \in Bits /\ KeyBits-1 \in Bits /\ self \in Contacts
  BY ConstantsAssumption DEF Bits, self, Contacts
<1>2. ASSUME NEW i \in Bits PROVE buckets[i] = IF i = KeyBits-1 THEN {self} ELSE {}
  BY DEF Init
<1>3. ASSUME NEW i \in Bits PROVE IsFiniteSet(buckets[i]) /\ Cardinality(buckets[i]) <= K
  <2>1. IsFiniteSet({self}) /\ Cardinality({self}) = 1
    BY FS_Singleton
  <2>2. IsFiniteSet({}) /\ Cardinality({}) = 0
    BY FS_EmptySet
  <2> QED BY <1>2, <2>1, <2>2, ConstantsAssumption
<1>4. getBucketIndex(0, self.id) = KeyBits-1
  BY <1>1, IndexOfSelf, ConstantsAssumption DEF Bits, self
<1>5. buckets \in [Bits -> SUBSET Contacts] /\ depth = 0
  BY <1>1 DEF Init
<1>6. \A i \in Bits : \A c \in buckets[i] : getBucketIndex(depth, c.id) = i
  BY <1>2, <1>4, <1>5
<1>7. /\ \A i \in Bits : \A c, e \in buckets[i] : c.id = e.id => c = e
      /\ self \in buckets[KeyBits-1 - depth]
  BY <1>1, <1>2, <1>5, ConstantsAssumption
<1> QED BY <1>1, <1>3, <1>5, <1>6, <1>7 DEF Sound

LEMMA SoundAdd ==
  ASSUME NEW b, NEW d, Sound(b, d), NEW n \in Contacts, NEW i, i = getBucketIndex(d, n.id),
         Holding(b[i], n.id) = {}, ~Full(b[i])
  PROVE  /\ Sound([b EXCEPT ![i] = @ \cup {n}], d)
         /\ Entries([b EXCEPT ![i] = @ \cup {n}]) = Entries(b) \cup {n}
<1> DEFINE new == [b EXCEPT ![i] = @ \cup {n}]
<1>1. n.id \in Keys /\ i \in Bits
  BY IndexType DEF Sound, Contacts
<1>2. /\ new \in [Bits -> SUBSET Contacts]
      /\ \A j \in Bits : new[j] = IF j = i THEN b[j] \cup {n} ELSE b[j]
  BY <1>1 DEF Sound
<1>3. IsFiniteSet(b[i] \cup {n}) /\ Cardinality(b[i] \cup {n}) <= K
  <2>1. IsFiniteSet(b[i]) /\ Cardinality(b[i]) \in Nat
    BY <1>1, FS_CardinalityType DEF Sound
  <2>2. n \notin b[i]
    BY DEF Holding
  <2>3. IsFiniteSet(b[i] \cup {n}) /\ Cardinality(b[i] \cup {n}) = Cardinality(b[i]) + 1
    BY <2>1, <2>2, FS_AddElement
  <2> QED BY <2>1, <2>3, ConstantsAssumption DEF Full
<1>4. \A j \in Bits : \A c, e \in new[j] : c.id = e.id => c = e
  BY <1>1, <1>2 DEF Sound, Holding
<1>5. \A j \in Bits : \A c \in new[j] : getBucketIndex(d, c.id) = j
  BY <1>1, <1>2 DEF Sound
<1>6. self \in new[KeyBits-1 - d]
  BY <1>2, ConstantsAssumption DEF Sound, Bits
<1>7. Entries(new) = Entries(b) \cup {n}
  BY <1>1, <1>2 DEF Entries
<1> HIDE DEF new
<1>8. Sound(new, d)
  BY <1>2, <1>3, <1>4, <1>5, <1>6 DEF Sound
<1> QED BY <1>7, <1>8 DEF new

LEMMA SoundReplace ==
  ASSUME NEW b, NEW d, Sound(b, d), NEW n \in Contacts, n.id # Self,
         NEW i, i = getBucketIndex(d, n.id), Holding(b[i], n.id) # {}
  PROVE  LET new == [b EXCEPT ![i] = (@ \ Holding(@, n.id)) \cup {n}]
         IN  /\ Sound(new, d)
             /\ Entries(new) = (Entries(b) \ Holding(Entries(b), n.id)) \cup {n}
<1> DEFINE new == [b EXCEPT ![i] = (@ \ Holding(@, n.id)) \cup {n}]
<1>1. n.id \in Keys /\ i \in Bits
  BY IndexType DEF Sound, Contacts
<1>2. PICK old \in b[i] : old.id = n.id /\ Holding(b[i], n.id) = {old}
  BY <1>1 DEF Holding, Sound
<1>3. /\ new \in [Bits -> SUBSET Contacts]
      /\ \A j \in Bits : new[j] = IF j = i THEN (b[j] \ {old}) \cup {n} ELSE b[j]
  BY <1>1, <1>2 DEF Sound
<1>4. /\ IsFiniteSet((b[i] \ {old}) \cup {n})
      /\ Cardinality((b[i] \ {old}) \cup {n}) <= K
  <2>1. IsFiniteSet(b[i]) /\ Cardinality(b[i]) \in Nat /\ Cardinality(b[i]) <= K
    BY <1>1, FS_CardinalityType DEF Sound
  <2>2. IsFiniteSet(b[i] \ {old}) /\ Cardinality(b[i] \ {old}) = Cardinality(b[i]) - 1
    BY <1>2, <2>1, FS_RemoveElement
  <2>3. n \notin b[i] \ {old}
    BY <1>2 DEF Holding
  <2>4. /\ IsFiniteSet((b[i] \ {old}) \cup {n})
        /\ Cardinality((b[i] \ {old}) \cup {n}) = Cardinality(b[i] \ {old}) + 1
    BY <2>2, <2>3, FS_AddElement
  <2> QED BY <2>1, <2>2, <2>4
<1>5. \A j \in Bits : \A c, e \in new[j] : c.id = e.id => c = e
  BY <1>1, <1>2, <1>3 DEF Sound, Holding
<1>6. \A j \in Bits : \A c \in new[j] : getBucketIndex(d, c.id) = j
  BY <1>1, <1>3 DEF Sound
<1>7. self \in new[KeyBits-1 - d]
  BY <1>2, <1>3, ConstantsAssumption DEF Sound, Bits, self
<1>8. Holding(Entries(b), n.id) = {old}
  BY <1>1, <1>2, HoldingIsEntries
<1>9. Entries(new) = (Entries(b) \ {old}) \cup {n}
  <2>1. \A j \in Bits : j # i => old \notin b[j]
    BY <1>1, <1>2 DEF Sound
  <2>2. old # n => old \notin new[i]
    BY <1>1, <1>3
  <2>3. ASSUME NEW c PROVE c \in Entries(new) <=> c \in (Entries(b) \ {old}) \cup {n}
    <3> HIDE DEF new
    <3>1. c \in Entries(new) <=> \E j \in Bits : c \in new[j]
      BY DEF Entries
    <3>2. c \in Entries(b) <=> \E j \in Bits : c \in b[j]
      BY DEF Entries
    <3>3. CASE c = n
      BY <1>1, <1>3, <3>1, <3>3
    <3>4. CASE c = old /\ c # n
      BY <1>3, <2>1, <3>1, <3>4
    <3>5. CASE c # old /\ c # n
      BY <1>1, <1>3, <3>1, <3>2, <3>5
    <3> QED BY <3>3, <3>4, <3>5
  <2> HIDE DEF new
  <2> QED BY <2>3
<1> HIDE DEF new
<1>10. Sound(new, d)
  BY <1>3, <1>4, <1>5, <1>6, <1>7 DEF Sound
<1> QED BY <1>8, <1>9, <1>10 DEF new

LEMMA SoundRemove ==
  ASSUME NEW b, NEW d, Sound(b, d), NEW key \in Peers, NEW i, i = getBucketIndex(d, key)
  PROVE  LET new == [b EXCEPT ![i] = @ \ Holding(@, key)]
         IN  /\ Sound(new, d)
             /\ Entries(new) = Entries(b) \ Holding(Entries(b), key)
<1> DEFINE new == [b EXCEPT ![i] = @ \ Holding(@, key)]
<1>1. key \in Keys /\ key # Self /\ i \in Bits
  BY IndexType DEF Sound, Peers
<1>2. /\ new \in [Bits -> SUBSET Contacts]
      /\ \A j \in Bits : new[j] = IF j = i THEN b[j] \ Holding(b[j], key) ELSE b[j]
  BY <1>1 DEF Sound
<1>3. \A j \in Bits : new[j] \subseteq b[j]
  BY <1>2
<1>4. ASSUME NEW j \in Bits PROVE IsFiniteSet(new[j]) /\ Cardinality(new[j]) <= K
  <2>1. IsFiniteSet(b[j]) /\ Cardinality(b[j]) \in Nat /\ Cardinality(b[j]) <= K
    BY FS_CardinalityType DEF Sound
  <2>2. /\ IsFiniteSet(new[j]) /\ Cardinality(new[j]) <= Cardinality(b[j])
        /\ Cardinality(new[j]) \in Nat
    BY <1>3, <2>1, FS_Subset, FS_CardinalityType
  <2> QED BY <2>1, <2>2, ConstantsAssumption
<1>5. self \in new[KeyBits-1 - d]
  BY <1>1, <1>2, ConstantsAssumption DEF Sound, Bits, self, Holding
<1>6. Entries(new) = Entries(b) \ Holding(Entries(b), key)
  <2>1. \A j \in Bits : j # i => Holding(b[j], key) = {}
    BY <1>1 DEF Sound, Holding
  <2> QED BY <1>2, <2>1 DEF Entries, Holding
<1> HIDE DEF new
<1>7. Sound(new, d)
  BY <1>2, <1>3, <1>4, <1>5 DEF Sound
<1> QED BY <1>6, <1>7 DEF new

\* The lowest bucket splits into itself and the one below, which was empty.
LEMMA SoundSplit ==
  ASSUME IInv, NEW i, i = KeyBits-1 - depth, i # 0
  PROVE  /\ Sound(Split(i, depth+1), depth+1)
         /\ Entries(Split(i, depth+1)) = Entries(buckets)
<1> DEFINE M   == Moving(i, depth+1)
           new == Split(i, depth+1)
<1>1. /\ depth \in Bits /\ depth + 1 \in Bits /\ depth # KeyBits-1
      /\ i \in Bits /\ i-1 \in Bits /\ i-1 # i
      /\ i = KeyBits-1 - depth /\ i-1 = KeyBits-1 - (depth+1) /\ i-1 < KeyBits-1 - depth
  BY ConstantsAssumption DEF IInv, Sound, Bits
<1>2. buckets \in [Bits -> SUBSET Contacts] /\ M \subseteq buckets[i]
  BY DEF IInv, Sound, Moving
<1>3. buckets[i-1] = {}
  <2> SUFFICES ASSUME NEW c \in buckets[i-1] PROVE FALSE
    OBVIOUS
  <2>1. c.id \in Keys /\ getBucketIndex(depth, c.id) = i-1
    BY <1>1, <1>2 DEF IInv, Sound, Contacts
  <2>2. i-1 >= KeyBits-1 - depth
    BY <1>1, <2>1, IndexType
  <2> QED BY <1>1, <2>2, ConstantsAssumption DEF Bits
<1>4. /\ new \in [Bits -> SUBSET Contacts]
      /\ \A j \in Bits : new[j] = IF j = i THEN buckets[i] \ M ELSE IF j = i-1 THEN M ELSE buckets[j]
  <2> HIDE DEF M
  <2>1. new = [buckets EXCEPT ![i] = @ \ M, ![i-1] = @ \cup M]
    BY DEF Split, M
  <2> HIDE DEF new
  <2> QED BY <1>1, <1>2, <1>3, <2>1
<1>5. M = {c \in buckets[i] : getBucketIndex(depth+1, c.id) = i-1}
  BY DEF Moving
<1> HIDE DEF M, new
<1>6. \A j \in Bits : \E h \in Bits : new[j] \subseteq buckets[h]
  BY <1>1, <1>2, <1>4
<1>7. ASSUME NEW j \in Bits PROVE IsFiniteSet(new[j]) /\ Cardinality(new[j]) <= K
  <2>1. PICK h \in Bits : new[j] \subseteq buckets[h]
    BY <1>6
  <2>2. IsFiniteSet(buckets[h]) /\ Cardinality(buckets[h]) \in Nat /\ Cardinality(buckets[h]) <= K
    BY FS_CardinalityType DEF IInv, Sound
  <2>3. /\ IsFiniteSet(new[j]) /\ Cardinality(new[j]) <= Cardinality(buckets[h])
        /\ Cardinality(new[j]) \in Nat
    BY <2>1, <2>2, FS_Subset, FS_CardinalityType
  <2> QED BY <2>2, <2>3, ConstantsAssumption
<1>8. ASSUME NEW j \in Bits, NEW c \in new[j] PROVE getBucketIndex(depth+1, c.id) = j
  <2>1. c.id \in Keys
    BY <1>4 DEF Contacts
  <2>2. IF getBucketIndex(depth, c.id) = i THEN getBucketIndex(depth+1, c.id) \in {i, i-1}
        ELSE getBucketIndex(depth+1, c.id) = getBucketIndex(depth, c.id)
    <3>1. i-1 = KeyBits-2 - depth
      BY <1>1, ConstantsAssumption DEF Bits
    <3> QED BY <1>1, <2>1, <3>1, IndexDeeper
  <2>3. CASE j = i
    BY <1>1, <1>4, <1>5, <2>2, <2>3 DEF IInv, Sound
  <2>4. CASE j = i-1
    BY <1>1, <1>4, <1>5, <2>4
  <2>5. CASE j # i /\ j # i-1
    BY <1>4, <2>2, <2>5 DEF IInv, Sound
  <2> QED BY <2>3, <2>4, <2>5
<1>9. \A j \in Bits : \A c, e \in new[j] : c.id = e.id => c = e
  BY <1>6 DEF IInv, Sound
<1>10. self \in new[KeyBits-1 - (depth+1)]
  <2>1. getBucketIndex(depth+1, self.id) = i-1
    BY <1>1, IndexOfSelf DEF self
  <2>2. self \in M
    BY <1>1, <1>5, <2>1 DEF IInv, Sound
  <2>3. new[i-1] = M
    BY <1>1, <1>4
  <2> QED BY <1>1, <2>2, <2>3
<1>11. Sound(new, depth+1)
  BY <1>1, <1>4, <1>7, <1>8, <1>9, <1>10 DEF Sound
<1>12. Entries(new) = Entries(buckets)
  <2>1. ASSUME NEW c PROVE c \in Entries(new) <=> c \in Entries(buckets)
    <3>1. c \in Entries(new) <=> \E j \in Bits : c \in new[j]
      BY DEF Entries
    <3>2. c \in Entries(buckets) <=> \E j \in Bits : c \in buckets[j]
      BY DEF Entries
    <3>3. ASSUME NEW j \in Bits, c \in buckets[j] PROVE \E h \in Bits : c \in new[h]
      <4>1. CASE j = i
        <5>1. new[i] = buckets[i] \ M /\ new[i-1] = M
          BY <1>1, <1>4
        <5> QED BY <1>1, <3>3, <4>1, <5>1
      <4>2. CASE j # i
        BY <1>3, <1>4, <3>3, <4>2
      <4> QED BY <4>1, <4>2
    <3> QED BY <1>6, <3>1, <3>2, <3>3
  <2> QED BY <2>1
<1> QED BY <1>11, <1>12 DEF new

(* What the steps do to the entries of the table as a whole. *)

Takes(n) == Entries(buckets') = (Entries(buckets) \ Holding(Entries(buckets), n.id)) \cup {n}

Refuses(n) ==
  Entries(buckets') = Entries(buckets) /\ Holding(Entries(buckets), n.id) = {}

Fits(n) ==
  LET i == getBucketIndex(depth', n.id) IN n \in buckets'[i] \/ Cardinality(buckets'[i]) = K

\* A bucket of a sound table with no room holds exactly K entries.
LEMMA FullMeansK ==
  ASSUME NEW b, NEW d, Sound(b, d), NEW i \in Bits, Full(b[i])
  PROVE  Cardinality(b[i]) = K
<1>1. Cardinality(b[i]) \in Nat /\ Cardinality(b[i]) <= K
  BY FS_CardinalityType DEF Sound
<1> QED BY <1>1, ConstantsAssumption DEF Full

LEMMA UpdateStep ==
  ASSUME IInv, NEW n \in Contacts, n.id # Self, Update(n)
  PROVE  IInv' /\ Takes(n) /\ Fits(n)
<1> DEFINE i   == getBucketIndex(depth, n.id)
           new == [buckets EXCEPT ![i] = (@ \ Holding(@, n.id)) \cup {n}]
<1>1. i \in Bits
  BY IndexType DEF IInv, Sound, Contacts
<1>2. Holding(buckets[i], n.id) # {} /\ buckets' = new /\ depth' = depth
  BY DEF Update
<1>3. Sound(new, depth) /\ Entries(new) = (Entries(buckets) \ Holding(Entries(buckets), n.id)) \cup {n}
  <2>1. /\ Sound(buckets, depth) /\ Holding(buckets[i], n.id) # {}
        /\ i = getBucketIndex(depth, n.id)
    BY <1>2 DEF IInv
  <2> HIDE DEF i
  <2> QED BY <2>1, SoundReplace
<1>4. n \in new[i]
  BY <1>1 DEF IInv, Sound
<1> QED BY <1>2, <1>3, <1>4 DEF IInv, Takes, Fits

LEMMA AppendStep ==
  ASSUME IInv, NEW n \in Contacts, n.id # Self, Append(n)
  PROVE  IInv' /\ Takes(n) /\ Fits(n)
<1> DEFINE i   == getBucketIndex(depth, n.id)
           new == [buckets EXCEPT ![i] = @ \cup {n}]
<1>1. i \in Bits /\ n.id \in Keys
  BY IndexType DEF IInv, Sound, Contacts
<1>2. /\ Holding(buckets[i], n.id) = {} /\ ~Full(buckets[i])
      /\ buckets' = new /\ depth' = depth
  BY DEF Append
<1>3. Sound(new, depth) /\ Entries(new) = Entries(buckets) \cup {n}
  BY <1>2, SoundAdd DEF IInv
<1>4. n \in new[i]
  BY <1>1 DEF IInv, Sound
<1>5. Holding(Entries(buckets), n.id) = {}
  BY <1>1, <1>2, HoldingIsEntries DEF IInv
<1> QED BY <1>2, <1>3, <1>4, <1>5 DEF IInv, Takes, Fits

LEMMA TurnAwayStep ==
  ASSUME IInv, NEW n \in Contacts, n.id # Self, TurnAway(n)
  PROVE  IInv' /\ Refuses(n) /\ Fits(n)
<1> DEFINE i == getBucketIndex(depth, n.id)
<1>1. i \in Bits /\ n.id \in Keys
  BY IndexType DEF IInv, Sound, Contacts
<1>2. Holding(buckets[i], n.id) = {} /\ Full(buckets[i]) /\ buckets' = buckets /\ depth' = depth
  BY DEF TurnAway, vars
<1>3. Cardinality(buckets[i]) = K
  BY <1>1, <1>2, FullMeansK DEF IInv
<1>4. Holding(Entries(buckets), n.id) = {}
  BY <1>1, <1>2, HoldingIsEntries DEF IInv
<1> QED BY <1>2, <1>3, <1>4 DEF IInv, Refuses, Fits

LEMMA InsertIntoSound ==
  ASSUME NEW b, NEW d, Sound(b, d), NEW n \in Contacts, Holding(Entries(b), n.id) = {}
  PROVE  LET new == InsertInto(b, d, n)
             i   == getBucketIndex(d, n.id)
         IN  /\ Sound(new, d)
             /\ new = b \/ Entries(new) = Entries(b) \cup {n}
             /\ n \in new[i] \/ Cardinality(new[i]) = K
<1> DEFINE i == getBucketIndex(d, n.id)
<1>1. i \in Bits /\ n.id \in Keys
  BY IndexType DEF Sound, Contacts
<1>2. CASE Full(b[i])
  BY <1>1, <1>2, FullMeansK DEF InsertInto
<1>3. CASE ~Full(b[i])
  <2> DEFINE new == [b EXCEPT ![i] = @ \cup {n}]
  <2>1. Holding(b[i], n.id) = {}
    BY <1>1, HoldingIsEntries
  <2>2. Sound(new, d) /\ Entries(new) = Entries(b) \cup {n}
    BY <1>3, <2>1, SoundAdd
  <2>3. n \in new[i]
    BY <1>1 DEF Sound
  <2> QED BY <1>3, <2>2, <2>3 DEF InsertInto
<1> QED BY <1>2, <1>3

\* After the split the newcomer gets a place in its half, or that half is full too.
LEMMA SplitAndInsertStep ==
  ASSUME IInv, NEW n \in Contacts, n.id # Self, SplitAndInsert(n)
  PROVE  IInv' /\ (Takes(n) \/ Refuses(n)) /\ Fits(n)
<1> DEFINE i == getBucketIndex(depth, n.id)
           d == IF KeyBits-1 - i >= depth THEN KeyBits - i ELSE depth
<1>1. i \in Bits /\ n.id \in Keys
  BY IndexType DEF IInv, Sound, Contacts
<1>2. /\ Holding(buckets[i], n.id) = {} /\ Full(buckets[i])
      /\ Holding(buckets[i], Self) # {}
  BY DEF SplitAndInsert
<1>3. Holding(Entries(buckets), n.id) = {}
  BY <1>1, <1>2, HoldingIsEntries DEF IInv
<1>4. CASE i = 0
  <2>1. buckets' = buckets /\ depth' = depth
    BY <1>4 DEF SplitAndInsert, vars
  <2>2. Cardinality(buckets[i]) = K
    BY <1>1, <1>2, FullMeansK DEF IInv
  <2> QED BY <1>3, <2>1, <2>2 DEF IInv, Refuses, Fits
<1>5. CASE i # 0
  <2>1. i = KeyBits-1 - depth
    <3>1. depth \in Bits /\ getBucketIndex(depth, Self) = KeyBits-1 - depth
      BY IndexOfSelf DEF IInv, Sound
    <3>2. getBucketIndex(depth, Self) = i
      BY <1>1, <1>2 DEF IInv, Sound, Holding
    <3> QED BY <3>1, <3>2
  <2>2. d = depth + 1
    BY <2>1, ConstantsAssumption DEF IInv, Sound, Bits
  <2> DEFINE b == Split(i, depth+1)
  <2>3. buckets' = InsertInto(b, depth+1, n) /\ depth' = depth + 1
    BY <1>5, <2>2 DEF SplitAndInsert
  <2>4. Sound(b, depth+1) /\ Entries(b) = Entries(buckets)
    BY <1>5, <2>1, SoundSplit
  <2> HIDE DEF b, d
  <2>5. Holding(Entries(b), n.id) = {}
    BY <1>3, <2>4
  <2>6. CASE InsertInto(b, depth+1, n) = b
    BY <1>3, <2>3, <2>4, <2>5, <2>6, InsertIntoSound DEF IInv, Refuses, Fits
  <2>7. CASE Entries(InsertInto(b, depth+1, n)) = Entries(b) \cup {n}
    BY <1>3, <2>3, <2>4, <2>5, <2>7, InsertIntoSound DEF IInv, Takes, Fits
  <2> QED BY <2>4, <2>5, <2>6, <2>7, InsertIntoSound
<1> QED BY <1>4, <1>5

LEMMA InsertStep ==
  ASSUME IInv, NEW n \in Contacts, n.id # Self, InsertNode(n)
  PROVE  IInv' /\ (Takes(n) \/ Refuses(n)) /\ Fits(n)
BY UpdateStep, AppendStep, TurnAwayStep, SplitAndInsertStep DEF InsertNode

LEMMA RemoveStep ==
  ASSUME IInv, NEW key \in Peers, RemoveNode(key)
  PROVE  /\ IInv'
         /\ Holding(Entries(buckets), key) # {}
         /\ Entries(buckets') = Entries(buckets) \ Holding(Entries(buckets), key)
<1> DEFINE i   == getBucketIndex(depth, key)
           new == [buckets EXCEPT ![i] = @ \ Holding(@, key)]
<1>1. key \in Keys
  BY DEF Peers
<1>2. Holding(buckets[i], key) # {} /\ buckets' = new /\ depth' = depth
  BY DEF RemoveNode
<1>3. Sound(new, depth) /\ Entries(new) = Entries(buckets) \ Holding(Entries(buckets), key)
  BY SoundRemove DEF IInv
<1>4. Holding(Entries(buckets), key) # {}
  BY <1>1, <1>2, HoldingIsEntries DEF IInv
<1> QED BY <1>2, <1>3, <1>4 DEF IInv

(* The theorems. *)

\* In every state of RoutingTable the table is sound: well-typed buckets of at most K
\* entries, each in the bucket of its key, one for each key, the node's own included.
THEOREM InvariantHolds == Spec => []IInv
<1>1. Init => IInv
  BY SoundInit
<1>2. IInv /\ [Next]_vars => IInv'
  <2> SUFFICES ASSUME IInv, [Next]_vars PROVE IInv'
    OBVIOUS
  <2>1. ASSUME NEW n \in Contacts, n.id # Self, InsertNode(n) PROVE IInv'
    BY <2>1, InsertStep
  <2>2. ASSUME NEW key \in Peers, RemoveNode(key) PROVE IInv'
    BY <2>2, RemoveStep
  <2>3. CASE UNCHANGED vars
    BY <2>3 DEF IInv, vars
  <2> QED BY <2>1, <2>2, <2>3 DEF Next
<1> QED BY <1>1, <1>2, PTL DEF Spec

\* The type invariant of the table.
THEOREM TypeCorrect == Spec => []TypeOK
BY InvariantHolds, SoundMeans, PTL

\* Every entry stays where Lookup, InsertNode and RemoveNode look for it (routing.go:
\* getBucketIndex), whatever sequence of splits moved it.
THEOREM EntriesArePlaced == Spec => []Placement
BY InvariantHolds, SoundMeans, PTL

\* The node's own entry is in the lowest bucket, alone with its key and unchanged.
THEOREM SelfStays == Spec => []SelfPresent
BY InvariantHolds, SoundMeans, PTL

\* No bucket ever holds more than K entries.
THEOREM BucketsAreBounded == Spec => []Capacity
BY InvariantHolds, SoundMeans, PTL

\* InsertNode leaves the newcomer in the table, or finds its bucket with K others.
THEOREM NewcomersHaveTheirPlace == Spec => NewcomersFit
<1> DEFINE A == \A n \in Contacts : n.id # Self /\ InsertNode(n) => Fits(n)
<1>1. IInv => A
  BY InsertStep
<1>2. Spec => [][A]_vars
  BY <1>1, InvariantHolds, PTL
<1> QED BY <1>2 DEF NewcomersFit, Fits

LEMMA EntriesAreContacts ==
  ASSUME IInv PROVE Entries(buckets) \subseteq Contacts
BY DEF IInv, Sound, Entries

(* The queries: distances are a total order, and a search sees every bucket in use. *)

LEMMA DistanceType ==
  ASSUME NEW a \in Keys, NEW b \in Keys
  PROVE  xorDistance(a, b) \in SUBSET Bits
BY DEF xorDistance, Keys

LEMMA SameDistanceSameKey ==
  ASSUME NEW key \in Keys, NEW a \in Keys, NEW b \in Keys,
         xorDistance(key, a) = xorDistance(key, b)
  PROVE  a = b
<1>1. ASSUME NEW i \in Bits PROVE i \in a <=> i \in b
  BY DEF xorDistance
<1> QED BY <1>1 DEF Keys

\* The smaller of two numbers lacks the highest bit in which they differ.
Below(a, b, m) == m \in b \ a /\ \A j \in Bits : j > m => (j \in a <=> j \in b)

LEMMA SmallerMeans ==
  ASSUME NEW a \in SUBSET Bits, NEW b \in SUBSET Bits
  PROVE  isDistanceSmaller(a, b) <=> \E m \in Bits : Below(a, b, m)
<1> DEFINE x == xorDistance(a, b)
<1>1. x \in SUBSET Bits /\ (a # b => x # {})
  BY DEF xorDistance
<1>2. \A j : j \in x <=> ((j \in a) # (j \in b))
  BY DEF xorDistance
<1>3. Bits \subseteq Int
  BY ConstantsAssumption DEF Bits
<1> HIDE DEF x
<1>4. ASSUME a # b, Max(x) \in b PROVE Below(a, b, Max(x)) /\ Max(x) \in Bits
  <2>1. Max(x) \in x /\ \A y \in x : y <= Max(x)
    BY <1>1, <1>4, BitMax
  <2>2. \A j \in Bits : j > Max(x) => j \notin x
    <3>1. Max(x) \in Int
      BY <1>1, <1>3, <2>1
    <3>2. \A n, j \in Int : j > n => ~(j <= n)
      OBVIOUS
    <3> QED BY <1>3, <2>1, <3>1, <3>2
  <2> QED BY <1>1, <1>2, <1>4, <2>1, <2>2 DEF Below
<1>5. ASSUME NEW m \in Bits, Below(a, b, m) PROVE a # b /\ Max(x) \in b
  <2>1. m \in x /\ a # b
    BY <1>2, <1>5 DEF Below
  <2>2. Max(x) \in x /\ m <= Max(x) /\ Max(x) \in Bits
    BY <1>1, <2>1, BitMax
  <2>3. Max(x) = m
    <3>1. ~(Max(x) > m)
      BY <1>2, <1>5, <2>2 DEF Below
    <3>2. Max(x) \in Int /\ m \in Int
      BY <1>3, <2>2
    <3> QED BY <2>2, <3>1, <3>2
  <2> QED BY <1>5, <2>1, <2>3 DEF Below
<1> QED BY <1>4, <1>5 DEF isDistanceSmaller, x

LEMMA SmallerOrders ==
  ASSUME NEW a \in SUBSET Bits, NEW b \in SUBSET Bits, NEW c \in SUBSET Bits
  PROVE  /\ ~isDistanceSmaller(a, a)
         /\ a # b => isDistanceSmaller(a, b) \/ isDistanceSmaller(b, a)
         /\ isDistanceSmaller(a, b) => ~isDistanceSmaller(b, a)
         /\ isDistanceSmaller(a, b) /\ isDistanceSmaller(b, c) => isDistanceSmaller(a, c)
<1>0. Bits \subseteq Int
  BY ConstantsAssumption DEF Bits
<1>1. ~isDistanceSmaller(a, a)
  BY DEF isDistanceSmaller
<1>2. ASSUME a # b PROVE isDistanceSmaller(a, b) \/ isDistanceSmaller(b, a)
  <2>1. xorDistance(a, b) \in SUBSET Bits /\ xorDistance(a, b) # {}
    BY <1>2 DEF xorDistance
  <2>2. Max(xorDistance(a, b)) \in xorDistance(a, b)
    BY <2>1, BitMax
  <2>3. xorDistance(a, b) = xorDistance(b, a)
    BY DEF xorDistance
  <2>4. Max(xorDistance(a, b)) \in a \/ Max(xorDistance(a, b)) \in b
    BY <2>2 DEF xorDistance
  <2> QED BY <1>2, <2>3, <2>4 DEF isDistanceSmaller
<1>3. ASSUME isDistanceSmaller(a, b), isDistanceSmaller(b, a) PROVE FALSE
  <2>1. PICK m \in Bits : Below(a, b, m)
    BY <1>3, SmallerMeans
  <2>2. PICK n \in Bits : Below(b, a, n)
    BY <1>3, SmallerMeans
  <2> QED BY <1>0, <2>1, <2>2 DEF Below
<1>4. ASSUME isDistanceSmaller(a, b), isDistanceSmaller(b, c) PROVE isDistanceSmaller(a, c)
  <2>1. PICK m \in Bits : Below(a, b, m)
    BY <1>4, SmallerMeans
  <2>2. PICK n \in Bits : Below(b, c, n)
    BY <1>4, SmallerMeans
  <2>3. m > n \/ n > m
    BY <1>0, <2>1, <2>2 DEF Below
  <2>4. CASE m > n
    <3>1. Below(a, c, m)
      BY <1>0, <2>1, <2>2, <2>4 DEF Below
    <3> QED BY <3>1, SmallerMeans
  <2>5. CASE n > m
    <3>1. Below(a, c, n)
      BY <1>0, <2>1, <2>2, <2>5 DEF Below
    <3> QED BY <3>1, SmallerMeans
  <2> QED BY <2>3, <2>4, <2>5
<1> QED BY <1>1, <1>2, <1>3, <1>4

\* Who comes before c when S is sorted by the distance to key.
Before(key, S, c) == {d \in S : isDistanceSmaller(xorDistance(key, d.id), xorDistance(key, c.id))}

\* The farthest and the nearest of some candidates.
LEMMA FarthestOf ==
  ASSUME NEW key \in Keys, NEW S, IsFiniteSet(S), NEW T \in SUBSET S, T # {}
  PROVE  \E c \in T : \A d \in T : Cardinality(Before(key, S, d)) <= Cardinality(Before(key, S, c))
<1> DEFINE n == Cardinality(S)
           rest(c) == n - Cardinality(Before(key, S, c))
           R == {rest(c) : c \in T}
<1>1. \A c \in S : /\ Cardinality(Before(key, S, c)) \in Nat
                   /\ Cardinality(Before(key, S, c)) <= n
  <2> SUFFICES ASSUME NEW c \in S
               PROVE  /\ Cardinality(Before(key, S, c)) \in Nat
                      /\ Cardinality(Before(key, S, c)) <= n
    OBVIOUS
  <2>1. Before(key, S, c) \in SUBSET S
    BY DEF Before
  <2> QED BY <2>1, FS_Subset, FS_CardinalityType
<1>2. n \in Nat
  BY FS_CardinalityType
<1> HIDE DEF n
<1>3. \A c \in T : rest(c) \in Nat
  BY <1>1, <1>2
<1>4. R \subseteq Nat /\ R # {}
  BY <1>3
<1>5. PICK m \in R : \A y \in R : ~(<<y, m>> \in OpToRel(<, Nat))
  <2> HIDE DEF R
  <2> QED BY <1>4, NatLessThanWellFounded, WFMin
<1>6. PICK c \in T : m = rest(c)
  OBVIOUS
<1>7. ASSUME NEW d \in T
      PROVE  Cardinality(Before(key, S, d)) <= Cardinality(Before(key, S, c))
  <2>1. rest(d) \in Nat /\ rest(c) \in Nat /\ rest(d) \in R
    BY <1>3
  <2>2. ~(rest(d) < rest(c))
    BY <1>5, <1>6, <2>1 DEF OpToRel
  <2> QED BY <1>1, <1>2, <2>1, <2>2
<1> QED BY <1>7

LEMMA NearestOf ==
  ASSUME NEW key \in Keys, NEW S, IsFiniteSet(S), NEW T \in SUBSET S, T # {}
  PROVE  \E c \in T : \A d \in T : Cardinality(Before(key, S, c)) <= Cardinality(Before(key, S, d))
<1> DEFINE rank(c) == Cardinality(Before(key, S, c))
           R == {rank(c) : c \in T}
<1>1. \A c \in T : rank(c) \in Nat
  <2> SUFFICES ASSUME NEW c \in T PROVE rank(c) \in Nat
    OBVIOUS
  <2>1. Before(key, S, c) \in SUBSET S
    BY DEF Before
  <2> QED BY <2>1, FS_Subset, FS_CardinalityType
<1>2. R \subseteq Nat /\ R # {}
  BY <1>1
<1>3. PICK m \in R : \A y \in R : ~(<<y, m>> \in OpToRel(<, Nat))
  <2> HIDE DEF R
  <2> QED BY <1>2, NatLessThanWellFounded, WFMin
<1>4. PICK c \in T : m = rank(c)
  OBVIOUS
<1>5. ASSUME NEW d \in T PROVE rank(c) <= rank(d)
  <2>1. rank(d) \in Nat /\ rank(c) \in Nat /\ rank(d) \in R
    BY <1>1
  <2>2. ~(rank(d) < rank(c))
    BY <1>3, <1>4, <2>1 DEF OpToRel
  <2> QED BY <2>1, <2>2
<1> QED BY <1>5

\* Distinct entries are at distinct distances: the nearer has fewer before it.
LEMMA RanksDiffer ==
  ASSUME NEW key \in Keys, NEW S \in SUBSET Contacts, IsFiniteSet(S),
         NEW c \in S, NEW d \in S, d \in Before(key, S, c)
  PROVE  /\ Before(key, S, d) \cup {d} \subseteq Before(key, S, c)
         /\ Cardinality(Before(key, S, d)) < Cardinality(Before(key, S, c))
<1> DEFINE dist(e) == xorDistance(key, e.id)
<1>1. \A e \in S : dist(e) \in SUBSET Bits
  BY DistanceType DEF Contacts
<1>2. ASSUME NEW e \in Before(key, S, d) PROVE e \in Before(key, S, c)
  <2>1. /\ e \in S /\ isDistanceSmaller(dist(e), dist(d)) /\ isDistanceSmaller(dist(d), dist(c))
    BY <1>2 DEF Before
  <2>2. dist(e) \in SUBSET Bits /\ dist(d) \in SUBSET Bits /\ dist(c) \in SUBSET Bits
    BY <1>1, <2>1
  <2> HIDE DEF dist
  <2>3. isDistanceSmaller(dist(e), dist(c))
    BY <2>1, <2>2, SmallerOrders
  <2> QED BY <2>1, <2>3 DEF Before, dist
<1>3. d \notin Before(key, S, d)
  BY DEF Before, isDistanceSmaller
<1>4. /\ Before(key, S, c) \in SUBSET S /\ Before(key, S, d) \in SUBSET S
      /\ Before(key, S, d) \cup {d} \in SUBSET Before(key, S, c)
  BY <1>2 DEF Before
<1>5. /\ IsFiniteSet(Before(key, S, c)) /\ IsFiniteSet(Before(key, S, d))
  BY <1>4, FS_Subset
<1>6. /\ Cardinality(Before(key, S, d) \cup {d}) = Cardinality(Before(key, S, d)) + 1
      /\ Cardinality(Before(key, S, d)) \in Nat /\ Cardinality(Before(key, S, c)) \in Nat
  BY <1>3, <1>5, FS_AddElement, FS_CardinalityType
<1>7. Cardinality(Before(key, S, d) \cup {d}) <= Cardinality(Before(key, S, c))
  BY <1>4, <1>5, FS_Subset
<1> QED BY <1>4, <1>6, <1>7

LEMMA RanksOrder ==
  ASSUME NEW key \in Keys, NEW S \in SUBSET Contacts, NEW c \in S, NEW d \in S, c.id # d.id
  PROVE  c \in Before(key, S, d) \/ d \in Before(key, S, c)
<1>1. xorDistance(key, c.id) # xorDistance(key, d.id)
  BY SameDistanceSameKey DEF Contacts
<1>2. xorDistance(key, c.id) \in SUBSET Bits /\ xorDistance(key, d.id) \in SUBSET Bits
  BY DistanceType DEF Contacts
<1> QED BY <1>1, <1>2, SmallerOrders DEF Before

\* FirstK sorts and cuts off: K entries, or all.
LEMMA FirstKCuts ==
  ASSUME NEW key \in Keys, NEW S \in SUBSET Contacts, IsFiniteSet(S),
         \A c, d \in S : c.id = d.id => c = d
  PROVE  /\ FirstK(key, S) \subseteq S
         /\ Cardinality(FirstK(key, S)) <= K
         /\ Cardinality(FirstK(key, S)) < K => FirstK(key, S) = S
<1> DEFINE rank(c) == Cardinality(Before(key, S, c))
           F == FirstK(key, S)
<1>1. F \in SUBSET S /\ \A c \in S : c \in F <=> rank(c) < K
  BY DEF FirstK, Before
<1>2. \A c \in S : rank(c) \in Nat /\ IsFiniteSet(Before(key, S, c))
  <2> SUFFICES ASSUME NEW c \in S PROVE rank(c) \in Nat /\ IsFiniteSet(Before(key, S, c))
    OBVIOUS
  <2>1. Before(key, S, c) \in SUBSET S
    BY DEF Before
  <2> QED BY <2>1, FS_Subset, FS_CardinalityType
<1>3. IsFiniteSet(F) /\ Cardinality(F) \in Nat
  BY <1>1, FS_Subset, FS_CardinalityType
<1>4. K \in Nat \ {0}
  BY ConstantsAssumption
<1> HIDE DEF F
<1>5. Cardinality(F) <= K
  <2>1. CASE F = {}
    BY <2>1, <1>4, FS_EmptySet
  <2>2. CASE F # {}
    <3>1. PICK c \in F : \A d \in F : rank(d) <= rank(c)
      BY <1>1, <2>2, FarthestOf
    <3>2. ASSUME NEW d \in F, d # c PROVE d \in Before(key, S, c)
      <4>1. c \in Before(key, S, d) => rank(c) < rank(d)
        BY <1>1, <3>1, <3>2, RanksDiffer
      <4>2. ~(rank(c) < rank(d))
        BY <1>1, <1>2, <3>1, <3>2
      <4> QED BY <1>1, <3>1, <3>2, <4>1, <4>2, RanksOrder
    <3>3. F \ {c} \in SUBSET Before(key, S, c)
      BY <3>2
    <3>4. Cardinality(F \ {c}) <= rank(c)
      BY <1>1, <1>2, <3>1, <3>3, FS_Subset
    <3>5. Cardinality(F \ {c}) = Cardinality(F) - 1
      BY <1>3, <3>1, FS_RemoveElement
    <3>6. rank(c) \in Nat /\ rank(c) < K
      BY <1>1, <1>2, <3>1
    <3> QED BY <1>3, <1>4, <3>4, <3>5, <3>6
  <2> QED BY <2>1, <2>2
<1>6. ASSUME Cardinality(F) < K PROVE F = S
  <2> SUFFICES ASSUME S \ F # {} PROVE FALSE
    BY <1>1
  <2>1. PICK c \in S \ F : \A d \in S \ F : rank(c) <= rank(d)
    BY NearestOf
  <2>2. ASSUME NEW d \in Before(key, S, c) PROVE d \in F
    <3>1. d \in S
      BY <2>2 DEF Before
    <3>2. rank(d) < rank(c)
      BY <2>1, <2>2, <3>1, RanksDiffer
    <3> QED BY <1>2, <2>1, <3>1, <3>2
  <2>3. Before(key, S, c) \in SUBSET F
    BY <2>2
  <2>4. rank(c) <= Cardinality(F)
    BY <1>3, <2>3, FS_Subset
  <2>5. rank(c) \in Nat /\ ~(rank(c) < K)
    BY <1>1, <1>2, <2>1
  <2> QED BY <1>3, <1>4, <1>6, <2>4, <2>5
<1> QED BY <1>1, <1>5, <1>6 DEF F

LEMMA KnownFinite ==
  ASSUME IInv
  PROVE  /\ IsFiniteSet(Known) /\ Known \subseteq Contacts
         /\ \A c, e \in Known \cup {self} : c.id = e.id => c = e
<1>1. IsFiniteSet(Entries(buckets))
  <2> DEFINE Used == {buckets[i] : i \in Bits}
  <2>1. IsFiniteSet(Bits)
    BY FS_Interval, ConstantsAssumption DEF Bits
  <2>2. buckets \in Surjection(Bits, Used)
    BY DEF IInv, Sound, Surjection
  <2>3. IsFiniteSet(Used)
    BY <2>1, <2>2, FS_Surjection
  <2>4. \A T \in Used : IsFiniteSet(T)
    BY DEF IInv, Sound
  <2>5. Entries(buckets) = UNION Used
    BY DEF Entries
  <2> HIDE DEF Used
  <2> QED BY <2>3, <2>4, <2>5, FS_UNION
<1>2. Known \in SUBSET Entries(buckets)
  BY DEF Known
<1>3. IsFiniteSet(Known)
  BY <1>1, <1>2, FS_Subset
<1>4. Known \subseteq Contacts
  BY EntriesAreContacts, <1>2
<1>5. ASSUME NEW c \in Known, NEW e \in Known, c.id = e.id PROVE c = e
  <2>1. PICK i \in Bits : c \in buckets[i]
    BY <1>2 DEF Entries
  <2>2. PICK j \in Bits : e \in buckets[j]
    BY <1>2 DEF Entries
  <2> QED BY <1>5, <2>1, <2>2 DEF IInv, Sound
<1>6. \A c \in Known : c.id # self.id
  BY DEF Known, self
<1> QED BY <1>3, <1>4, <1>5, <1>6

\* An answer to FIND_NODE has K entries of different nodes, or all candidates.
THEOREM AnswersAreFull == Spec => []AnswersFull
<1>1. ASSUME IInv PROVE AnswersFull
  <2> SUFFICES ASSUME NEW key \in Keys
               PROVE  /\ Cardinality(ClosestK(key)) <= K
                      /\ \A c, e \in ClosestK(key) : c.id = e.id => c = e
                      /\ Cardinality(ClosestK(key)) < K => ClosestK(key) = Candidates(key)
    BY DEF AnswersFull
  <2>1. Candidates(key) \in SUBSET (Known \cup {self})
    BY DEF Candidates, Within
  <2>2. /\ IsFiniteSet(Known \cup {self}) /\ Known \cup {self} \subseteq Contacts
        /\ \A c, e \in Known \cup {self} : c.id = e.id => c = e
    <3>1. self \in Contacts
      BY ConstantsAssumption DEF self, Contacts
    <3>2. IsFiniteSet(Known) /\ Known \subseteq Contacts
      BY <1>1, KnownFinite
    <3>3. \A c, e \in Known \cup {self} : c.id = e.id => c = e
      BY <1>1, KnownFinite
    <3> QED BY <3>1, <3>2, <3>3, FS_AddElement
  <2>3. IsFiniteSet(Candidates(key))
    BY <2>1, <2>2, FS_Subset
  <2>4. /\ FirstK(key, Candidates(key)) \subseteq Candidates(key)
        /\ Cardinality(FirstK(key, Candidates(key))) <= K
        /\ Cardinality(FirstK(key, Candidates(key))) < K
             => FirstK(key, Candidates(key)) = Candidates(key)
    BY <2>1, <2>2, <2>3, FirstKCuts
  <2> QED BY <2>1, <2>2, <2>4 DEF ClosestK
<1> QED BY <1>1, InvariantHolds, PTL

\* A search that no 3K candidates end goes on to MaxRadius.
LEMMA RadiusIsMax ==
  ASSUME IInv, Cardinality(Known) + 1 < 3*K, NEW start \in Bits
  PROVE  LastRadius(start) = MaxRadius
<1> DEFINE R == {r \in 0..MaxRadius : r = 0 \/ 1 + Cardinality(Within(start, r-1)) < 3*K}
<1>1. MaxRadius \in Nat /\ K \in Nat
  BY ConstantsAssumption
<1>2. ASSUME NEW radius PROVE 1 + Cardinality(Within(start, radius)) < 3*K
  <2>1. Within(start, radius) \in SUBSET Known
    BY DEF Within
  <2>2. /\ Cardinality(Within(start, radius)) <= Cardinality(Known)
        /\ Cardinality(Within(start, radius)) \in Nat /\ Cardinality(Known) \in Nat
    BY <2>1, KnownFinite, FS_Subset, FS_CardinalityType
  <2> QED BY <1>1, <2>2
<1>3. R = 0..MaxRadius
  BY <1>2
<1>4. Max(0..MaxRadius) = MaxRadius
  BY <1>1 DEF Max
<1> QED BY <1>3, <1>4 DEF LastRadius

\* Where its radius reaches every bucket in use and fewer than 3K candidates stop it,
\* ClosestK has seen the whole table: its answer is exact.
THEOREM ClosestKIsExactInReach == Spec => []ClosestKInReach
<1>1. ASSUME IInv PROVE ClosestKInReach
  <2> SUFFICES ASSUME NEW key \in Keys, InReach(key), Cardinality(Known) + 1 < 3*K
               PROVE  Exact(key)
    BY DEF ClosestKInReach
  <2> DEFINE start == standardBucket(key)
  <2>1. start \in Bits
    BY StandardBucketType
  <2>2. LastRadius(start) = MaxRadius
    BY <1>1, <2>1, RadiusIsMax
  <2>3. Within(start, MaxRadius) = Known
    <3>1. ASSUME NEW c \in Known
          PROVE  \E i \in Bits : c \in buckets[i] /\ start - MaxRadius <= i /\ i <= start + MaxRadius
      <4>1. PICK i \in Bits : c \in buckets[i]
        BY DEF Known, Entries
      <4>2. c \in Contacts /\ depth \in Bits /\ getBucketIndex(depth, c.id) = i
        BY <1>1, <4>1 DEF IInv, Sound
      <4>3. KeyBits-1 - depth <= i /\ i <= KeyBits-1
        BY <4>1, <4>2, IndexType, ConstantsAssumption DEF Contacts, Bits
      <4>4. /\ start + MaxRadius >= KeyBits-1
            /\ start - MaxRadius <= KeyBits-1 - depth
        BY DEF InReach
      <4>5. i \in Int /\ start \in Int /\ MaxRadius \in Int /\ KeyBits \in Int /\ depth \in Int
        BY <2>1, <4>1, <4>2, ConstantsAssumption DEF Bits
      <4> HIDE DEF start
      <4>6. start - MaxRadius <= i /\ i <= start + MaxRadius
        BY <4>3, <4>4, <4>5
      <4> QED BY <4>1, <4>6
    <3> QED BY <3>1 DEF Within
  <2>4. Candidates(key) = {self} \cup Known
    BY <2>2, <2>3 DEF Candidates
  <2> QED BY <2>4 DEF Exact, ClosestK
<1> QED BY <1>1, InvariantHolds, PTL

(* The refinement: the book reads the table as one set of entries. *)

AddrIn(S, p) == Address(Holding(S, p))

LEMMA BookReadsEntries == IInv => Book = [p \in Peers |-> AddrIn(Entries(buckets), p)]
<1>1. ASSUME IInv, NEW p \in Peers PROVE Lookup(p) = Holding(Entries(buckets), p)
  BY <1>1, HoldingIsEntries DEF IInv, Lookup, Peers
<1> QED BY <1>1 DEF Book, AddrIn

LEMMA BookReadsEntriesNext ==
  IInv' => Book' = [p \in Peers |-> AddrIn(Entries(buckets'), p)]
<1>1. ASSUME IInv', NEW p \in Peers PROVE Lookup(p)' = Holding(Entries(buckets'), p)
  BY <1>1, HoldingIsEntries DEF IInv, Lookup, Peers
<1> QED BY <1>1 DEF Book, AddrIn

LEMMA TakesMapped ==
  ASSUME IInv, IInv', NEW n \in Contacts, n.id # Self, Takes(n)
  PROVE  B!Learn(n.id, n.addr)
<1>1. n.id \in Peers
  BY DEF Contacts, Peers
<1>2. AddrIn(Entries(buckets'), n.id) = n.addr
  <2>1. Holding(Entries(buckets'), n.id) = {n}
    BY DEF Takes, Holding
  <2> QED BY <2>1 DEF AddrIn, Address
<1>3. ASSUME NEW p \in Peers, p # n.id
      PROVE  AddrIn(Entries(buckets'), p) = AddrIn(Entries(buckets), p)
  <2>1. Holding(Entries(buckets'), p) = Holding(Entries(buckets), p)
    BY <1>3 DEF Takes, Holding
  <2> QED BY <2>1 DEF AddrIn
<1>4. Book' = [Book EXCEPT ![n.id] = n.addr]
  BY <1>1, <1>2, <1>3, BookReadsEntries, BookReadsEntriesNext
<1> QED BY <1>4 DEF B!Learn

LEMMA RefusesMapped ==
  ASSUME IInv, IInv', NEW n \in Contacts, n.id # Self, Refuses(n)
  PROVE  B!Refuse(n.id)
<1>1. n.id \in Peers
  BY DEF Contacts, Peers
<1>2. AddrIn(Entries(buckets), n.id) = None
  BY DEF Refuses, AddrIn, Address
<1>3. Book' = Book /\ Book[n.id] = None
  BY <1>1, <1>2, BookReadsEntries, BookReadsEntriesNext DEF Refuses
<1> QED BY <1>3 DEF B!Refuse

LEMMA RemoveMapped ==
  ASSUME IInv, IInv', NEW key \in Peers, Holding(Entries(buckets), key) # {},
         Entries(buckets') = Entries(buckets) \ Holding(Entries(buckets), key)
  PROVE  B!Forget(key)
<1>1. AddrIn(Entries(buckets), key) # None
  <2>1. \A c \in Holding(Entries(buckets), key) : c.addr \in Addrs
    BY EntriesAreContacts DEF Contacts, Holding
  <2> QED BY <2>1, ConstantsAssumption DEF AddrIn, Address
<1>2. AddrIn(Entries(buckets'), key) = None
  <2>1. Holding(Entries(buckets'), key) = {}
    BY DEF Holding
  <2> QED BY <2>1 DEF AddrIn, Address
<1>3. ASSUME NEW p \in Peers, p # key
      PROVE  AddrIn(Entries(buckets'), p) = AddrIn(Entries(buckets), p)
  <2>1. Holding(Entries(buckets'), p) = Holding(Entries(buckets), p)
    BY <1>3 DEF Holding
  <2> QED BY <2>1 DEF AddrIn
<1>4. Book[key] # None /\ Book' = [Book EXCEPT ![key] = None]
  BY <1>1, <1>2, <1>3, BookReadsEntries, BookReadsEntriesNext
<1> QED BY <1>4 DEF B!Forget

\* The table implements the contact book: a lookup finds the address last inserted, and
\* no insertion, update or split loses or alters the entry of another peer.
THEOREM Implementation == Spec => ImplementsContactBook
<1>1. Init => B!Init
  <2> SUFFICES ASSUME Init, NEW p \in Peers PROVE Holding(Entries(buckets), p) = {}
    BY SoundInit, BookReadsEntries DEF B!Init, AddrIn, Address
  <2>1. ASSUME NEW i \in Bits, NEW c \in buckets[i] PROVE c.id = Self
    BY DEF Init, self
  <2> QED BY <2>1 DEF Entries, Holding, Peers
<1>2. IInv /\ IInv' /\ [Next]_vars => [B!Next]_Book
  <2> SUFFICES ASSUME IInv, IInv', [Next]_vars PROVE [B!Next]_Book
    OBVIOUS
  <2>1. ASSUME NEW n \in Contacts, n.id # Self, InsertNode(n) PROVE B!Next
    <3>1. n.id \in Peers /\ n.addr \in Addrs
      BY <2>1 DEF Contacts, Peers
    <3>2. B!Learn(n.id, n.addr) \/ B!Refuse(n.id)
      BY <2>1, InsertStep, TakesMapped, RefusesMapped
    <3> QED BY <3>1, <3>2 DEF B!Next
  <2>2. ASSUME NEW key \in Peers, RemoveNode(key) PROVE B!Next
    BY <2>2, RemoveStep, RemoveMapped DEF B!Next
  <2>3. CASE UNCHANGED vars
    BY <2>3, BookReadsEntries, BookReadsEntriesNext DEF vars
  <2> QED BY <2>1, <2>2, <2>3 DEF Next
<1> QED BY <1>1, <1>2, InvariantHolds, PTL DEF Spec, ImplementsContactBook, B!Spec
===============================================================================
