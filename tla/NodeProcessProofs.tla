--------------------------- MODULE NodeProcessProofs ---------------------------
(***************************************************************************)
(* Proofs about NodeProcess for every number of clients, requests and      *)
(* connections, and every capacity of the channels: its type invariant,    *)
(* that the events arrive in order and never at a closed channel, and that *)
(* the servers stop in order.                                              *)
(***************************************************************************)
EXTENDS NodeProcess, SequenceTheorems, TLAPS

\* A client is in the map only while its handler serves it, and its channel is closed
\* after that; the loop of a broadcast is empty unless there is a broadcast.
HubInv ==
  /\ HubTypeOK
  /\ ~Broadcasting => todo = {}
  /\ \A c \in Clients :
       /\ c \in clients => handler[c] = "serving"
       /\ c \in closed => handler[c] = "returned"
       /\ handler[c] \in {"none", "adding"} => queue[c] = <<>> /\ behind[c] = {}

\* given has, in order, the n broadcasts after the first j, but for those in lost.
Ordered(given, j, n, lost) ==
  /\ n >= 0
  /\ \A e \in lost : e <= j + n
  /\ \A i, k \in 1..Len(given) : i < k => given[i] < given[k]
  /\ \A i \in 1..Len(given) : given[i] \in j + 1 .. j + n /\ given[i] \notin lost
  /\ \A e \in j + 1 .. j + n : e \in lost \/ \E i \in 1..Len(given) : given[i] = e

OrderInv ==
  \A c \in clients : written[c] # <<>> /\ Ordered(Given(c), joined[c], Seen(c), behind[c])
-------------------------------------------------------------------------------
\* The hub.

LEMMA OrderedAppend ==
  ASSUME NEW given \in Seq(Nat), NEW j \in Nat, NEW n \in Int, NEW lost \in SUBSET Nat,
         Ordered(given, j, n, lost)
  PROVE  Ordered(Append(given, j + n + 1), j, n + 1, lost)
<1> DEFINE more == Append(given, j + n + 1)
<1>1. Len(given) \in Nat /\ \A i \in 1..Len(given) : given[i] \in Nat
  BY LenProperties, ElementOfSeq
<1>2. n \in Nat
  BY DEF Ordered
<1>3. /\ Len(more) = Len(given) + 1
      /\ \A i \in 1..Len(given) : more[i] = given[i]
      /\ more[Len(given) + 1] = j + n + 1
  BY <1>2, AppendProperties
<1> HIDE DEF more
<1>4. \A i \in 1..Len(more) : i \in 1..Len(given) \/ i = Len(given) + 1
  BY <1>1, <1>3
<1>5. \A i \in 1..Len(more) : more[i] \in j + 1 .. j + (n + 1) /\ more[i] \notin lost
  <2>1. \A i \in 1..Len(given) : more[i] \in j + 1 .. j + n /\ more[i] \notin lost
    BY <1>3 DEF Ordered
  <2>2. j + n + 1 \in j + 1 .. j + (n + 1) /\ j + n + 1 \notin lost
    BY <1>2 DEF Ordered
  <2> QED BY <2>1, <2>2, <1>2, <1>3, <1>4
<1>6. \A i, k \in 1..Len(more) : i < k => more[i] < more[k]
  <2>1. \A i \in 1..Len(given) : given[i] < j + n + 1
    BY <1>1, <1>2 DEF Ordered
  <2> QED BY <2>1, <1>1, <1>3, <1>4 DEF Ordered
<1>7. ASSUME NEW e \in j + 1 .. j + (n + 1), e \notin lost
      PROVE  \E i \in 1..Len(more) : more[i] = e
  <2>1. CASE e = j + n + 1
    BY <2>1, <1>1, <1>3
  <2>2. CASE e \in j + 1 .. j + n
    BY <2>2, <1>1, <1>3, <1>7 DEF Ordered
  <2> QED BY <2>1, <2>2, <1>2
<1>8. \A e \in lost : e <= j + (n + 1)
  BY <1>2 DEF Ordered
<1>9. Ordered(more, j, n + 1, lost)
  BY <1>2, <1>5, <1>6, <1>7, <1>8 DEF Ordered
<1> QED BY <1>9 DEF more

LEMMA OrderedSkip ==
  ASSUME NEW given \in Seq(Nat), NEW j \in Nat, NEW n \in Int, NEW lost \in SUBSET Nat,
         Ordered(given, j, n, lost)
  PROVE  Ordered(given, j, n + 1, lost \cup {j + n + 1})
<1>1. Len(given) \in Nat /\ \A i \in 1..Len(given) : given[i] \in Nat
  BY LenProperties, ElementOfSeq
<1>2. n \in Nat
  BY DEF Ordered
<1>3. \A i \in 1..Len(given) :
        given[i] \in j + 1 .. j + (n + 1) /\ given[i] \notin lost \cup {j + n + 1}
  BY <1>1, <1>2 DEF Ordered
<1>4. \A e \in j + 1 .. j + (n + 1) : e \in j + 1 .. j + n \/ e = j + n + 1
  BY <1>2
<1>5. \A e \in lost \cup {j + n + 1} : e <= j + (n + 1)
  BY <1>2 DEF Ordered
<1> QED BY <1>2, <1>3, <1>4, <1>5 DEF Ordered

LEMMA OrderedNone ==
  ASSUME NEW j \in Nat
  PROVE  Ordered(<<>>, j, 0, {})
BY DEF Ordered

LEMMA HubInitInv == InitHub => HubInv /\ OrderInv
BY DEF InitHub, HubInv, HubTypeOK, OrderInv, Broadcasting

LEMMA HubNextInv == HubInv /\ [HubNext]_hubVars => HubInv'
<1> SUFFICES ASSUME HubInv, [HubNext]_hubVars PROVE HubInv'
  OBVIOUS
<1> USE HubAssumption DEF HubInv, HubTypeOK, Broadcasting
<1>1. ASSUME NEW g \in Emitters, Emit(g) PROVE HubInv'
  BY <1>1 DEF Emit, netVars, streamVars
<1>2. ASSUME NEW g \in Emitters, Acquire(g) PROVE HubInv'
  BY <1>2 DEF Acquire, netVars, streamVars
<1>3. ASSUME NEW c \in Clients, Send(c) PROVE HubInv'
  <2>1. queue' \in [Clients -> Seq(Nat)]
    <3>1. Append(queue[c], count) \in Seq(Nat)
      BY AppendProperties
    <3> QED BY <1>3, <3>1 DEF Send
  <2>2. \A d \in Clients :
          handler[d] \in {"none", "adding"} => queue'[d] = <<>> /\ behind'[d] = {}
    BY <1>3 DEF Send, Met
  <2>3. behind' \in [Clients -> SUBSET Nat]
    BY <1>3 DEF Send, Met
  <2> QED BY <1>3, <2>1, <2>2, <2>3 DEF Send, netVars
<1>4. ASSUME Release PROVE HubInv'
  BY <1>4 DEF Release, netVars, streamVars
<1>5. ASSUME NEW c \in Clients, Connect(c) PROVE HubInv'
  BY <1>5 DEF Connect, lockVars, netVars
<1>6. ASSUME NEW c \in Clients, Add(c) PROVE HubInv'
  <2>1. <<0>> \in Seq(Nat)
    OBVIOUS
  <2> QED BY <1>6, <2>1 DEF Add, lockVars, netVars
<1>7. ASSUME NEW c \in Clients, Write(c) PROVE HubInv'
  <2>1. Head(queue[c]) \in Nat /\ Tail(queue[c]) \in Seq(Nat)
    BY <1>7, HeadTailProperties DEF Write
  <2>2. Append(written[c], Head(queue[c])) \in Seq(Nat)
    BY <2>1, AppendProperties
  <2> QED BY <1>7, <2>1, <2>2 DEF Write, lockVars, netVars
<1>8. ASSUME NEW c \in Clients, Remove(c) PROVE HubInv'
  BY <1>8 DEF Remove, lockVars, netVars
<1>9. ASSUME NEW c \in Clients, Close(c) PROVE HubInv'
  BY <1>9 DEF Close, lockVars, netVars
<1>10. ASSUME NEW c \in Clients, Overflow(c) PROVE HubInv'
  <2>1. Len(written[c]) \in Nat
    BY LenProperties
  <2> QED BY <1>10, <2>1 DEF Overflow, lockVars, streamVars
<1>11. ASSUME NEW c \in Clients, Disconnect(c) PROVE HubInv'
  BY <1>11 DEF Disconnect, lockVars, streamVars
<1>12. ASSUME NEW c \in Clients, WriteTimeout(c) PROVE HubInv'
  BY <1>12 DEF WriteTimeout, lockVars, streamVars
<1>13. CASE UNCHANGED hubVars
  BY <1>13 DEF hubVars, lockVars, netVars, streamVars
<1> QED BY <1>1, <1>2, <1>3, <1>4, <1>5, <1>6, <1>7, <1>8, <1>9, <1>10, <1>11, <1>12, <1>13
        DEF HubNext, Broadcast, Stream

\* Writing the head of a channel moves it from the one part of Given to the other.
LEMMA GivenMoves ==
  ASSUME NEW w \in Seq(Nat), w # <<>>, NEW q \in Seq(Nat), q # <<>>
  PROVE  Tail(Append(w, Head(q))) \o Tail(q) = Tail(w) \o q
<1> DEFINE h == Head(q)
           a == Append(w, h)
<1>1. /\ h \in Nat /\ Tail(q) \in Seq(Nat) /\ Len(Tail(q)) = Len(q) - 1
      /\ \A i \in 1..Len(Tail(q)) : Tail(q)[i] = q[i+1]
  BY HeadTailProperties
<1>2. h = q[1] /\ Len(q) \in Nat \ {0} /\ Len(w) \in Nat \ {0}
  BY EmptySeq
<1>3. /\ a \in Seq(Nat) /\ Len(a) = Len(w) + 1 /\ a[Len(w)+1] = h
      /\ \A i \in 1..Len(w) : a[i] = w[i]
  BY <1>1, AppendProperties
<1> HIDE DEF h, a
<1>4. a # <<>>
  BY <1>2, <1>3, EmptySeq
<1>5. /\ Tail(w) \in Seq(Nat) /\ Len(Tail(w)) = Len(w) - 1
      /\ \A i \in 1..Len(Tail(w)) : Tail(w)[i] = w[i+1]
  BY HeadTailProperties
<1>6. /\ Tail(a) \in Seq(Nat) /\ Len(Tail(a)) = Len(w)
      /\ \A i \in 1..Len(w) : Tail(a)[i] = a[i+1]
  BY <1>2, <1>3, <1>4, HeadTailProperties
<1>7. /\ Tail(a) \o Tail(q) \in Seq(Nat)
      /\ Len(Tail(a) \o Tail(q)) = Len(w) + Len(q) - 1
      /\ \A i \in 1..Len(w) + Len(q) - 1 : (Tail(a) \o Tail(q))[i] =
            IF i <= Len(w) THEN Tail(a)[i] ELSE Tail(q)[i - Len(w)]
  <2>1. Len(w) + (Len(q) - 1) = Len(w) + Len(q) - 1
    BY <1>2
  <2>2. Tail(a) \in Seq(Nat) /\ Tail(q) \in Seq(Nat)
    BY <1>1, <1>6
  <2>3. /\ Tail(a) \o Tail(q) \in Seq(Nat)
        /\ Len(Tail(a) \o Tail(q)) = Len(Tail(a)) + Len(Tail(q))
        /\ \A i \in 1..Len(Tail(a)) + Len(Tail(q)) : (Tail(a) \o Tail(q))[i] =
              IF i <= Len(Tail(a)) THEN Tail(a)[i] ELSE Tail(q)[i - Len(Tail(a))]
    BY <2>2, ConcatProperties
  <2> QED BY <2>1, <2>3, <1>1, <1>6
<1>8. /\ Tail(w) \o q \in Seq(Nat)
      /\ Len(Tail(w) \o q) = Len(w) + Len(q) - 1
      /\ \A i \in 1..Len(w) + Len(q) - 1 : (Tail(w) \o q)[i] =
            IF i <= Len(w) - 1 THEN Tail(w)[i] ELSE q[i - (Len(w) - 1)]
  BY <1>2, <1>5, ConcatProperties
<1>9. ASSUME NEW i \in 1..Len(w) + Len(q) - 1
      PROVE  (Tail(a) \o Tail(q))[i] = (Tail(w) \o q)[i]
  <2>1. CASE i <= Len(w) - 1
    <3>1. i \in 1..Len(w) /\ i + 1 \in 1..Len(w) /\ i \in 1..Len(Tail(w)) /\ i <= Len(w)
      BY <2>1, <1>2, <1>5
    <3>2. Tail(a)[i] = w[i+1] /\ Tail(w)[i] = w[i+1]
      BY <3>1, <1>3, <1>5, <1>6
    <3> QED BY <2>1, <3>1, <3>2, <1>7, <1>8
  <2>2. CASE i = Len(w)
    <3>1. i \in 1..Len(w) /\ i <= Len(w) /\ ~(i <= Len(w) - 1) /\ i - (Len(w) - 1) = 1
      BY <2>2, <1>2
    <3>2. Tail(a)[i] = h
      BY <3>1, <2>2, <1>3, <1>6
    <3> QED BY <3>1, <3>2, <1>2, <1>7, <1>8
  <2>3. CASE i > Len(w)
    <3>1. ~(i <= Len(w)) /\ ~(i <= Len(w) - 1) /\ i - Len(w) \in 1..Len(Tail(q))
      BY <2>3, <1>1, <1>2
    <3>2. (i - Len(w)) + 1 = i - (Len(w) - 1)
      BY <1>2
    <3>3. Tail(q)[i - Len(w)] = q[i - (Len(w) - 1)]
      BY <3>1, <3>2, <1>1
    <3> QED BY <3>1, <3>3, <1>7, <1>8
  <2>4. Len(w) \in Nat /\ i \in Int
    BY <1>2
  <2>5. i <= Len(w) - 1 \/ i = Len(w) \/ i > Len(w)
    BY <2>4
  <2> QED BY <2>1, <2>2, <2>3, <2>5
<1>10. Tail(a) \o Tail(q) = Tail(w) \o q
  BY <1>2, <1>7, <1>8, <1>9, SeqEqual
<1> QED BY <1>10 DEF a, h

LEMMA AppendNotEmpty ==
  ASSUME NEW s \in Seq(Nat), NEW e \in Nat
  PROVE  Append(s, e) # <<>>
<1> DEFINE more == Append(s, e)
<1>1. more \in Seq(Nat) /\ Len(more) = Len(s) + 1
  BY AppendProperties
<1>2. Len(s) \in Nat
  BY LenProperties
<1> HIDE DEF more
<1>3. Len(more) # 0
  BY <1>1, <1>2
<1>4. more # <<>>
  BY <1>1, <1>3, EmptySeq
<1> QED BY <1>4 DEF more

LEMMA AppendToConcat ==
  ASSUME NEW s \in Seq(Nat), NEW t \in Seq(Nat), NEW e \in Nat
  PROVE  s \o Append(t, e) = Append(s \o t, e)
<1>1. s \o t \in Seq(Nat) /\ <<e>> \in Seq(Nat)
  BY ConcatProperties
<1>2. Append(t, e) = t \o <<e>> /\ Append(s \o t, e) = (s \o t) \o <<e>>
  BY <1>1, AppendIsConcat
<1>3. (s \o t) \o <<e>> = s \o (t \o <<e>>)
  BY <1>1, ConcatAssociative
<1> QED BY <1>2, <1>3

LEMMA GivenTyped ==
  ASSUME HubInv, NEW c \in Clients, written[c] # <<>>
  PROVE  /\ written[c] \in Seq(Nat) /\ queue[c] \in Seq(Nat)
         /\ Tail(written[c]) \in Seq(Nat) /\ Given(c) \in Seq(Nat)
         /\ Len(queue[c]) \in Nat /\ Len(Given(c)) >= Len(queue[c])
         /\ Seen(c) \in Int /\ joined[c] \in Nat /\ behind[c] \in SUBSET Nat
<1>1. /\ written[c] \in Seq(Nat) /\ queue[c] \in Seq(Nat) /\ count \in Nat /\ joined[c] \in Nat
      /\ behind[c] \in SUBSET Nat
  BY DEF HubInv, HubTypeOK
<1>2. Tail(written[c]) \in Seq(Nat)
  BY <1>1, HeadTailProperties
<1>3. Given(c) \in Seq(Nat) /\ Len(Given(c)) = Len(Tail(written[c])) + Len(queue[c])
  BY <1>1, <1>2, ConcatProperties DEF Given
<1>4. Len(queue[c]) \in Nat /\ Len(Tail(written[c])) \in Nat
  BY <1>1, <1>2, LenProperties
<1>5. Seen(c) \in Int
  BY <1>1 DEF Seen
<1>6. Len(Given(c)) >= Len(queue[c])
  <2>1. \A n, a, b \in Nat : n = a + b => n >= b
    OBVIOUS
  <2>2. Len(Given(c)) \in Nat
    BY <1>3, LenProperties
  <2> QED BY <2>1, <2>2, <1>3, <1>4, Zenon
<1> QED BY <1>1, <1>2, <1>3, <1>4, <1>5, <1>6

LEMMA HubNextOrder == HubInv /\ OrderInv /\ [HubNext]_hubVars => OrderInv'
<1> SUFFICES ASSUME HubInv, OrderInv, [HubNext]_hubVars PROVE OrderInv'
  OBVIOUS
<1>0. /\ clients \subseteq Clients /\ todo \subseteq clients /\ count \in Nat
      /\ \A c \in Clients : joined[c] \in Nat /\ queue[c] \in Seq(Nat)
      /\ queue \in [Clients -> Seq(Nat)] /\ written \in [Clients -> Seq(Nat)]
      /\ joined \in [Clients -> Nat] /\ behind \in [Clients -> SUBSET Nat]
  BY DEF HubInv, HubTypeOK
\* What changes nothing that a client was given or has seen.
<1>1. ASSUME UNCHANGED <<queue, written, joined, behind>>, clients' \subseteq clients,
             \A c \in clients' : Seen(c)' = Seen(c)
      PROVE  OrderInv'
  BY <1>1 DEF OrderInv, Given
<1>2. ASSUME UNCHANGED <<streamVars, todo, count>> PROVE OrderInv'
  BY <1>2 DEF streamVars, OrderInv, Given, Seen
<1>3. ASSUME NEW g \in Emitters, Acquire(g) PROVE OrderInv'
  <2>1. todo = {} /\ todo' = clients /\ count' = count + 1 /\ UNCHANGED streamVars
    BY <1>3 DEF HubInv, Acquire
  <2>2. \A c \in clients : Seen(c)' = Seen(c)
    BY <2>1, <1>0 DEF streamVars, Seen
  <2> QED BY <2>1, <2>2, <1>1 DEF streamVars
<1>4. ASSUME NEW c \in Clients, Send(c) PROVE OrderInv'
  <2>1. /\ c \in todo /\ c \in clients /\ todo' = todo \ {c}
        /\ UNCHANGED <<clients, written, joined, count>>
        /\ queue' = IF Room(c) THEN [queue EXCEPT ![c] = Append(@, count)] ELSE queue
        /\ behind' = Met(c)
    BY <1>4, <1>0 DEF Send
  <2>2. /\ written[c] # <<>> /\ Ordered(Given(c), joined[c], Seen(c), behind[c])
        /\ Seen(c)' = Seen(c) + 1 /\ joined[c] + Seen(c) + 1 = count
    BY <2>1, <1>0 DEF OrderInv, Seen
  <2>3. /\ written[c] \in Seq(Nat) /\ queue[c] \in Seq(Nat)
        /\ Tail(written[c]) \in Seq(Nat) /\ Given(c) \in Seq(Nat)
        /\ Len(queue[c]) \in Nat /\ Len(Given(c)) >= Len(queue[c])
        /\ Seen(c) \in Int /\ joined[c] \in Nat /\ behind[c] \in SUBSET Nat
    BY <2>2, GivenTyped
  <2>4. ASSUME NEW d \in clients, d # c
        PROVE  (written[d] # <<>> /\ Ordered(Given(d), joined[d], Seen(d), behind[d]))'
    <3>1. queue'[d] = queue[d] /\ Seen(d)' = Seen(d) /\ behind'[d] = behind[d]
      BY <2>1, <2>4, <1>0 DEF Seen, Met
    <3>2. Given(d)' = Given(d)
      BY <3>1, <2>1 DEF Given
    <3> QED BY <3>1, <3>2, <2>1 DEF OrderInv
  <2>5. CASE Room(c)
    <3>1. queue'[c] = Append(queue[c], count) /\ behind' = behind
      BY <2>1, <2>3, <2>5, <1>0, HubAssumption DEF Room, Met
    <3>2. Given(c)' = Tail(written[c]) \o Append(queue[c], count)
      BY <3>1, <2>1 DEF Given
    <3>3. Tail(written[c]) \o Append(queue[c], count) = Append(Given(c), count)
      BY <2>3, <1>0, AppendToConcat DEF Given
    <3>4. Ordered(Append(Given(c), count), joined[c], Seen(c) + 1, behind[c])
      BY <2>2, <2>3, OrderedAppend
    <3> QED BY <2>1, <2>2, <2>4, <3>1, <3>2, <3>3, <3>4 DEF OrderInv
  <2>6. CASE ~Room(c)
    <3>1. behind'[c] = behind[c] \cup {count}
      BY <2>1, <2>3, <2>6, <1>0, HubAssumption DEF Room, Met
    <3>2. Ordered(Given(c), joined[c], Seen(c) + 1, behind[c] \cup {count})
      BY <2>2, <2>3, OrderedSkip
    <3>3. Given(c)' = Given(c)
      BY <2>1, <2>6 DEF Given
    <3> QED BY <2>1, <2>2, <2>4, <3>1, <3>2, <3>3 DEF OrderInv
  <2> QED BY <2>5, <2>6
<1>5. ASSUME NEW c \in Clients, Add(c) PROVE OrderInv'
  <2>1. /\ clients' = clients \cup {c} /\ c \notin todo /\ queue[c] = <<>> /\ behind[c] = {}
        /\ joined' = [joined EXCEPT ![c] = count] /\ written' = [written EXCEPT ![c] = <<0>>]
        /\ UNCHANGED <<queue, behind, todo, count>>
    BY <1>5 DEF Add, HubInv, lockVars
  <2>2. ASSUME NEW d \in clients, d # c
        PROVE  (written[d] # <<>> /\ Ordered(Given(d), joined[d], Seen(d), behind[d]))'
    <3>1. written'[d] = written[d] /\ joined'[d] = joined[d]
      BY <2>1, <2>2, <1>0
    <3> QED BY <3>1, <2>1 DEF OrderInv, Given, Seen
  <2>3. written'[c] = <<0>> /\ joined'[c] = count
    BY <2>1, <1>0
  <2>4. Seen(c)' = 0
    BY <2>1, <2>3, <1>0 DEF Seen
  <2>5. Given(c)' = <<>>
    <3>1. Tail(<<0>>) = <<>>
      OBVIOUS
    <3>2. <<>> \o <<>> = <<>>
      BY ConcatEmptySeq, EmptySeq
    <3> QED BY <3>1, <3>2, <2>1, <2>3 DEF Given
  <2>6. Ordered(<<>>, count, 0, {}) /\ <<0>> # <<>>
    BY <1>0, OrderedNone
  <2>7. (written[c] # <<>> /\ Ordered(Given(c), joined[c], Seen(c), behind[c]))'
    BY <2>1, <2>3, <2>4, <2>5, <2>6
  <2> QED BY <2>1, <2>2, <2>7 DEF OrderInv
<1>6. ASSUME NEW c \in Clients, Write(c) PROVE OrderInv'
  <2>1. /\ c \in clients => written[c] # <<>>
        /\ queue[c] # <<>> /\ UNCHANGED <<clients, joined, behind, todo, count>>
        /\ queue' = [queue EXCEPT ![c] = Tail(@)]
        /\ written' = [written EXCEPT ![c] = Append(@, Head(queue[c]))]
    BY <1>6 DEF Write, OrderInv, lockVars
  <2>2. ASSUME NEW d \in clients
        PROVE  Given(d)' = Given(d) /\ written'[d] # <<>>
    <3>1. CASE d = c
      <4>1. queue'[c] = Tail(queue[c]) /\ written'[c] = Append(written[c], Head(queue[c]))
        BY <2>1, <1>0
      <4>2. Head(queue[c]) \in Nat
        BY <2>1, <1>0, HeadTailProperties
      <4>3. Append(written[c], Head(queue[c])) # <<>>
        BY <4>2, <1>0, AppendNotEmpty
      <4> QED BY <3>1, <4>1, <4>3, <2>1, <1>0, GivenMoves DEF Given
    <3>2. CASE d # c
      <4>1. queue'[d] = queue[d] /\ written'[d] = written[d]
        BY <3>2, <2>1, <1>0
      <4> QED BY <4>1 DEF Given, OrderInv
    <3> QED BY <3>1, <3>2
  <2>3. \A d \in clients : Seen(d)' = Seen(d)
    BY <2>1 DEF Seen
  <2> QED BY <2>1, <2>2, <2>3 DEF OrderInv
<1>7. ASSUME NEW c \in Clients, Remove(c) PROVE OrderInv'
  <2>1. clients' \subseteq clients /\ UNCHANGED <<queue, written, joined, behind, todo, count>>
    BY <1>7 DEF Remove, lockVars
  <2> QED BY <2>1, <1>1 DEF Seen
<1>8. ASSUME NEW c \in Clients, Connect(c) \/ Close(c) PROVE OrderInv'
  <2>1. UNCHANGED <<clients, queue, written, joined, behind, todo, count>>
    BY <1>8 DEF Connect, Close, lockVars
  <2> QED BY <2>1, <1>1 DEF Seen
<1>9. ASSUME NEW c \in Clients, Overflow(c) \/ Disconnect(c) \/ WriteTimeout(c)
      PROVE  OrderInv'
  BY <1>9, <1>2 DEF Overflow, Disconnect, WriteTimeout, lockVars
<1>10. ASSUME (\E g \in Emitters : Emit(g)) \/ Release PROVE OrderInv'
  BY <1>10, <1>2 DEF Emit, Release
<1>11. CASE UNCHANGED hubVars
  BY <1>11, <1>2 DEF hubVars, lockVars
<1> QED BY <1>3, <1>4, <1>5, <1>6, <1>7, <1>8, <1>9, <1>10, <1>11
        DEF HubNext, Broadcast, Stream
-------------------------------------------------------------------------------
\* The process around the hub.

\* What a step does to the hub is a step of the hub, or none.
LEMMA ProcessHub == [Next]_vars => [HubNext]_hubVars
<1> SUFFICES ASSUME [Next]_vars PROVE [HubNext]_hubVars
  OBVIOUS
<1>1. ASSUME Start \/ Stop \/ Signal \/ Check \/ AcceptFails PROVE UNCHANGED hubVars
  BY <1>1 DEF Start, Stop, Signal, Check, AcceptFails, SetHTTP, ServeHTTP, Listen, ListenFails,
          StartAccepting, StopHTTP, Drained, DrainTimeout, StopRPC, CloseListener, Waited, End
<1>2. ASSUME NEW r \in Requests, BeginRequest(r) \/ EmitInRequest(r) \/ EndRequest(r)
      PROVE  Emit(r) \/ UNCHANGED hubVars
  BY <1>2 DEF BeginRequest, EmitInRequest, EndRequest
<1>3. ASSUME NEW c \in Clients, ConnectClient(c) PROVE Connect(c)
  BY <1>3 DEF ConnectClient
<1>4. ASSUME NEW k \in Conns, Dial(k) \/ Serving(k) \/ Receive(k) \/ ReceivePanics(k) \/ HangUp(k)
      PROVE  Emit(k) \/ UNCHANGED hubVars
  BY <1>4 DEF Dial, Serving, Accept, Respond, Answering, Deadline, Receive, ReceivePanics, HangUp, CloseConn
<1>5. Requests \subseteq Emitters /\ Conns \subseteq Emitters
  BY ProcessAssumption
<1> QED BY <1>1, <1>2, <1>3, <1>4, <1>5 DEF Next, HubNext, vars

LEMMA InitInv == Init => TypeOK /\ HubInv /\ OrderInv
BY HubInitInv DEF Init, TypeOK, HubInv

\* The parts of TypeOK: main and the HTTP server, the RPC server, its connections.
MainType ==
  /\ main \in {"running", "draining", "stopping rpc", "closing", "waiting", "stopped", "ended"}
  /\ http \in {"nil", "set", "serving", "failed", "shutdown"}
  /\ sigCh \in {"empty", "full"} /\ ctx \in {"live", "expired"}
  /\ request \in [Requests -> {"none", "running", "ended"}]

ServerType ==
  /\ shutdown \in {"open", "closed"}
  /\ starter \in {"starting", "listening", "done"}
  /\ listener \in {"nil", "open", "closed"}
  /\ acceptor \in {"none", "checking", "accepting", "done"}

ConnType == conn \in [Conns -> {"none", "dialled", "open", "serving", "closed"}]

LEMMA TypeParts == TypeOK <=> HubTypeOK /\ MainType /\ ServerType /\ ConnType
BY DEF TypeOK, MainType, ServerType, ConnType

LEMMA NextType == TypeOK /\ HubInv /\ [Next]_vars => TypeOK'
<1> SUFFICES ASSUME TypeOK, HubInv, [Next]_vars PROVE TypeOK'
  OBVIOUS
<1>1. HubTypeOK'
  BY ProcessHub, HubNextInv DEF HubInv
<1>2. MainType /\ ServerType /\ ConnType
  BY TypeParts
<1>3. MainType'
  <2> USE <1>2 DEF MainType, mainVars, httpVars, rpcVars
  <2>1. ASSUME Start PROVE MainType'
    BY <2>1 DEF Start, SetHTTP, ServeHTTP, Listen, ListenFails, StartAccepting
  <2>2. ASSUME StopHTTP \/ Drained \/ DrainTimeout PROVE MainType'
    BY <2>2 DEF StopHTTP, Drained, DrainTimeout
  <2>3. ASSUME StopRPC \/ CloseListener \/ Waited \/ End PROVE MainType'
    BY <2>3 DEF StopRPC, CloseListener, Waited, End
  <2>4. ASSUME Signal \/ Check \/ AcceptFails PROVE MainType'
    BY <2>4 DEF Signal, Check, AcceptFails
  <2>5. ASSUME NEW r \in Requests, BeginRequest(r) PROVE MainType'
    BY <2>5 DEF BeginRequest
  <2>6. ASSUME NEW r \in Requests, EndRequest(r) PROVE MainType'
    BY <2>6 DEF EndRequest
  <2>7. ASSUME NEW k \in Conns, Dial(k) \/ Serving(k) \/ Receive(k) \/ ReceivePanics(k) \/ HangUp(k)
        PROVE  MainType'
    BY <2>7 DEF Dial, Serving, Accept, Respond, Answering, Deadline, Receive, ReceivePanics, HangUp, CloseConn
  <2>8. ASSUME UNCHANGED procVars PROVE MainType'
    BY <2>8 DEF procVars
  <2> QED BY <2>1, <2>2, <2>3, <2>4, <2>5, <2>6, <2>7, <2>8
          DEF Next, Stop, EmitInRequest, ConnectClient, vars
<1>4. ServerType'
  <2> USE <1>2 DEF ServerType, mainVars, httpVars, rpcVars
  <2>1. ASSUME Start PROVE ServerType'
    BY <2>1 DEF Start, SetHTTP, ServeHTTP, Listen, ListenFails, StartAccepting
  <2>2. ASSUME Stop PROVE ServerType'
    BY <2>2 DEF Stop, StopHTTP, Drained, DrainTimeout, StopRPC, CloseListener, Waited, End
  <2>3. ASSUME Signal \/ Check \/ AcceptFails PROVE ServerType'
    BY <2>3 DEF Signal, Check, AcceptFails
  <2>4. ASSUME NEW r \in Requests, BeginRequest(r) \/ EndRequest(r) PROVE ServerType'
    BY <2>4 DEF BeginRequest, EndRequest
  <2>5. ASSUME NEW k \in Conns, Dial(k) \/ Serving(k) \/ Receive(k) \/ ReceivePanics(k) \/ HangUp(k)
        PROVE  ServerType'
    BY <2>5 DEF Dial, Serving, Accept, Respond, Answering, Deadline, Receive, ReceivePanics, HangUp, CloseConn
  <2>6. ASSUME UNCHANGED procVars PROVE ServerType'
    BY <2>6 DEF procVars
  <2> QED BY <2>1, <2>2, <2>3, <2>4, <2>5, <2>6
          DEF Next, EmitInRequest, ConnectClient, vars
<1>5. ConnType'
  <2> USE <1>2 DEF ConnType, mainVars, httpVars, rpcVars
  <2>1. ASSUME Start \/ Stop \/ Signal \/ Check \/ AcceptFails PROVE UNCHANGED conn
    BY <2>1 DEF Start, SetHTTP, ServeHTTP, Listen, ListenFails, StartAccepting, Stop, StopHTTP,
            Drained, DrainTimeout, StopRPC, CloseListener, Waited, End, Signal, Check, AcceptFails
  <2>2. ASSUME NEW r \in Requests, BeginRequest(r) \/ EndRequest(r) PROVE UNCHANGED conn
    BY <2>2 DEF BeginRequest, EndRequest
  <2>3. ASSUME NEW k \in Conns, Dial(k) \/ Receive(k) PROVE ConnType'
    BY <2>3 DEF Dial, Receive
  <2>4. ASSUME NEW k \in Conns, Serving(k) \/ HangUp(k) PROVE ConnType'
    BY <2>4 DEF Serving, Accept, Respond, Answering, Deadline, HangUp, CloseConn
  <2>5. ASSUME NEW k \in Conns, ReceivePanics(k) PROVE UNCHANGED conn
    BY <2>5 DEF ReceivePanics
  <2>6. ASSUME UNCHANGED procVars PROVE UNCHANGED conn
    BY <2>6 DEF procVars
  <2>7. ASSUME UNCHANGED conn PROVE ConnType'
    BY <2>7
  <2> QED BY <2>1, <2>2, <2>3, <2>4, <2>5, <2>6, <2>7
          DEF Next, EmitInRequest, ConnectClient, vars
<1> QED
  <2>1. (HubTypeOK /\ MainType /\ ServerType /\ ConnType)' => TypeOK'
    BY DEF TypeOK, MainType, ServerType, ConnType
  <2> QED BY <1>1, <1>3, <1>4, <1>5, <2>1

\* The RPC server is told to stop only after the HTTP server; once main has waited for
\* it, nothing of it works, and what is left of Start finds it shut down.
RPCInv ==
  /\ main \in {"running", "draining", "stopping rpc"} => shutdown = "open"
  /\ main = "stopped" /\ shutdown = "closed" =>
       acceptor # "accepting" /\ \A k \in Conns : conn[k] \notin {"open", "serving"}

\* A handler of the HTTP server that is shut down has ended or is waited for.
HTTPInv ==
  /\ main = "running" => http # "shutdown"
  /\ http = "shutdown" /\ ctx = "live" /\ (shutdown = "closed" \/ main = "stopping rpc") => ~Handling

StopInv == RPCInv /\ HTTPInv

LEMMA InitStop == Init => StopInv
BY DEF Init, StopInv, RPCInv, HTTPInv

LEMMA NextRPC == TypeOK /\ RPCInv /\ [Next]_vars => RPCInv'
<1> SUFFICES ASSUME TypeOK, RPCInv, [Next]_vars PROVE RPCInv'
  OBVIOUS
<1> USE DEF RPCInv, mainVars, httpVars, rpcVars
<1>1. ASSUME SetHTTP \/ ServeHTTP \/ Listen \/ ListenFails PROVE RPCInv'
  BY <1>1 DEF SetHTTP, ServeHTTP, Listen, ListenFails
<1>2. ASSUME StartAccepting \/ Signal PROVE RPCInv'
  BY <1>2 DEF StartAccepting, Signal
<1>3. ASSUME StopHTTP \/ Drained \/ DrainTimeout PROVE RPCInv'
  BY <1>3 DEF StopHTTP, Drained, DrainTimeout
<1>4. ASSUME StopRPC \/ CloseListener \/ End PROVE RPCInv'
  BY <1>4 DEF StopRPC, CloseListener, End
<1>5. ASSUME Waited PROVE RPCInv'
  BY <1>5 DEF Waited, Working
<1>6. ASSUME Check \/ AcceptFails PROVE RPCInv'
  BY <1>6 DEF Check, AcceptFails
<1>7. ASSUME NEW r \in Requests, BeginRequest(r) \/ EndRequest(r) PROVE RPCInv'
  BY <1>7 DEF BeginRequest, EndRequest
<1>8. ASSUME NEW k \in Conns, Dial(k) \/ CloseConn(k) PROVE RPCInv'
  BY <1>8 DEF Dial, CloseConn, TypeOK
<1>9. ASSUME NEW k \in Conns, Accept(k) \/ Receive(k) \/ Respond(k) PROVE RPCInv'
  BY <1>9 DEF Accept, Receive, Respond, Answering, TypeOK
<1>10. ASSUME NEW k \in Conns, ReceivePanics(k) PROVE RPCInv'
  BY <1>10 DEF ReceivePanics
<1>11. ASSUME UNCHANGED procVars PROVE RPCInv'
  BY <1>11 DEF procVars
<1> QED BY <1>1, <1>2, <1>3, <1>4, <1>5, <1>6, <1>7, <1>8, <1>9, <1>10, <1>11
        DEF Next, Start, Stop, EmitInRequest, ConnectClient, Serving, Deadline, HangUp, vars

\* No handler of the HTTP server starts unless the server is serving.
LEMMA HandlersEnd ==
  ASSUME TypeOK, [Next]_vars, http # "serving", ~Handling
  PROVE  ~Handling'
<1>1. ASSUME NEW r \in Requests PROVE request'[r] # "running"
  <2>1. request[r] # "running"
    BY DEF Handling
  <2> QED BY <2>1 DEF Next, Start, Stop, Signal, Check, AcceptFails, SetHTTP, ServeHTTP, Listen,
      ListenFails, StartAccepting, StopHTTP, Drained, DrainTimeout, StopRPC, CloseListener,
      Waited, End, BeginRequest, EmitInRequest, EndRequest, ConnectClient, Dial, Serving, Accept,
      Respond, Answering, Deadline, Receive, ReceivePanics, HangUp, CloseConn, TypeOK, vars, procVars, mainVars, httpVars,
      rpcVars
<1>2. ASSUME NEW c \in Clients, handler[c] \in {"none", "returned"}
      PROVE  handler'[c] = handler[c]
  <2>1. ASSUME NEW d \in Clients, Stream(d) PROVE handler'[c] = handler[c]
    BY <1>2, <2>1 DEF Stream, Add, Write, Remove, Close, Overflow, streamVars, TypeOK, HubTypeOK
  <2>2. ASSUME NEW d \in Clients, ConnectClient(d) PROVE FALSE
    BY <2>2 DEF ConnectClient
  <2>3. ASSUME Broadcast \/ \E d \in Clients : Disconnect(d) \/ WriteTimeout(d) PROVE UNCHANGED handler
    BY <2>3 DEF Broadcast, Acquire, Send, Release, Disconnect, WriteTimeout, streamVars
  <2>4. ASSUME \/ Start \/ Stop \/ Signal \/ Check \/ AcceptFails
               \/ \E r \in Requests : BeginRequest(r) \/ EmitInRequest(r) \/ EndRequest(r)
               \/ \E k \in Conns : Dial(k) \/ Serving(k) \/ Receive(k) \/ ReceivePanics(k) \/ HangUp(k)
        PROVE  UNCHANGED handler
    BY <2>4 DEF Start, Stop, Signal, Check, AcceptFails, SetHTTP, ServeHTTP, Listen,
       ListenFails, StartAccepting, StopHTTP, Drained, DrainTimeout, StopRPC, CloseListener,
       Waited, End, BeginRequest, EmitInRequest, EndRequest, Dial, Serving, Accept,
       Respond, Answering, Deadline, Receive, ReceivePanics, HangUp, CloseConn, Emit, hubVars, streamVars
  <2> QED BY <2>1, <2>2, <2>3, <2>4 DEF Next, vars, hubVars, streamVars
<1> QED BY <1>1, <1>2 DEF Handling, TypeOK, HubTypeOK

LEMMA NextHTTP == TypeOK /\ RPCInv /\ HTTPInv /\ [Next]_vars => HTTPInv'
<1> SUFFICES ASSUME TypeOK, RPCInv, HTTPInv, [Next]_vars PROVE HTTPInv'
  OBVIOUS
<1> USE DEF RPCInv, HTTPInv, mainVars, httpVars, rpcVars
<1>1. ASSUME SetHTTP \/ ServeHTTP PROVE HTTPInv'
  BY <1>1 DEF SetHTTP, ServeHTTP
<1>2. ASSUME Listen \/ ListenFails \/ StopHTTP \/ \E k \in Conns : ReceivePanics(k)
      PROVE  HTTPInv'
  <2>1. UNCHANGED <<request, handler>>
    BY <1>2 DEF Listen, ListenFails, StopHTTP, ReceivePanics, hubVars, streamVars
  <2>2. Handling' = Handling
    BY <2>1 DEF Handling
  <2> QED BY <1>2, <2>2 DEF Listen, ListenFails, StopHTTP, ReceivePanics
<1>3. ASSUME Drained \/ DrainTimeout PROVE HTTPInv'
  <2>1. UNCHANGED <<request, handler>>
    BY <1>3 DEF Drained, DrainTimeout, hubVars, streamVars
  <2>2. Handling' = Handling
    BY <2>1 DEF Handling
  <2> QED BY <1>3, <2>2 DEF Drained, DrainTimeout
<1>4. ASSUME StopRPC PROVE HTTPInv'
  BY <1>4, HandlersEnd DEF StopRPC
<1>5. ASSUME UNCHANGED <<main, http, ctx, shutdown>> PROVE HTTPInv'
  BY <1>5, HandlersEnd
<1>6. ASSUME CloseListener \/ Waited \/ End PROVE HTTPInv'
  BY <1>6, HandlersEnd DEF CloseListener, Waited, End
<1>7. \/ SetHTTP \/ ServeHTTP \/ Listen \/ ListenFails \/ StopHTTP \/ Drained \/ DrainTimeout
      \/ StopRPC \/ CloseListener \/ Waited \/ End \/ (\E k \in Conns : ReceivePanics(k))
      \/ UNCHANGED <<main, http, ctx, shutdown>>
  BY DEF Next, Start, Stop, Signal, Check, AcceptFails, StartAccepting, BeginRequest,
     EmitInRequest, EndRequest, ConnectClient, Dial, Serving, Accept, Respond, Deadline, Receive,
     HangUp, CloseConn, vars, procVars
<1> QED BY <1>1, <1>2, <1>3, <1>4, <1>5, <1>6, <1>7
-------------------------------------------------------------------------------
\* The process is of its type, whatever happens to it.
THEOREM TypeCorrect == Spec => []TypeOK
<1> QED BY InitInv, NextType, ProcessHub, HubNextInv, PTL DEF Spec

\* The node, its servers and all, does nothing to the hub that EventHub does not allow.
THEOREM ImplementsEventHub == Spec => HubSpec
<1>1. Init => InitHub
  BY DEF Init
<1> QED BY <1>1, ProcessHub, PTL DEF Spec, HubSpec

\* No broadcast of emitEvent sends on a channel that remove has closed.
THEOREM NeverSendsOnClosed == Spec => []NoSendOnClosed
<1>1. HubInv => NoSendOnClosed
  BY DEF HubInv, HubTypeOK, NoSendOnClosed
<1> QED BY <1>1, InitInv, ProcessHub, HubNextInv, PTL DEF Spec

\* Each client is given, in their order, the events since it was added, all but those whose
\* broadcast found it a whole channel behind.
THEOREM EventsComeInOrder == Spec => []EventsInOrder
<1>1. HubInv /\ OrderInv => EventsInOrder
  <2> SUFFICES ASSUME HubInv, OrderInv, NEW c \in clients
               PROVE  /\ \A i, j \in DOMAIN Given(c) : i < j => Given(c)[i] < Given(c)[j]
                      /\ {Given(c)[i] : i \in DOMAIN Given(c)} =
                           (joined[c] + 1 .. joined[c] + Seen(c)) \ behind[c]
    BY DEF EventsInOrder
  <2>1. c \in Clients /\ written[c] # <<>> /\ Ordered(Given(c), joined[c], Seen(c), behind[c])
    BY DEF HubInv, HubTypeOK, OrderInv
  <2>2. Given(c) \in Seq(Nat)
    BY <2>1, GivenTyped
  <2>3. DOMAIN Given(c) = 1..Len(Given(c))
    BY <2>2, LenProperties
  <2> QED BY <2>1, <2>3 DEF Ordered
<1> QED BY <1>1, InitInv, ProcessHub, HubNextInv, HubNextOrder, PTL DEF Spec

\* Once Stop of the RPC server has returned, it serves nothing and accepts nothing.
THEOREM StoppedServesNothing == Spec => []NothingServedAfterStop
<1>1. RPCInv => NothingServedAfterStop
  BY DEF RPCInv, NothingServedAfterStop
<1> QED BY <1>1, InitInv, InitStop, NextType, NextRPC, ProcessHub, HubNextInv, PTL DEF Spec, StopInv

\* The RPC server stays until the HTTP handlers have ended or their time is up.
THEOREM ServesWhileDraining == Spec => []ServedWhileDraining
<1>1. RPCInv /\ HTTPInv => ServedWhileDraining
  BY DEF HTTPInv, ServedWhileDraining
<1> QED BY <1>1, InitInv, InitStop, NextType, NextRPC, NextHTTP, ProcessHub, HubNextInv, PTL
        DEF Spec, StopInv
===============================================================================
