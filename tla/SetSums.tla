-------------------------------- MODULE SetSums --------------------------------
(***************************************************************************)
(* The sum of a function over a finite set, as the fold of the community   *)
(* modules computes it, element after element in the order CHOOSE gives.   *)
(* The fold is a recursive function on the subsets of the set.  What it    *)
(* computes is shown without an induction theorem: of the sets where it    *)
(* differed from what it should be, a smallest would contradict its        *)
(* recursive equation.                                                     *)
(***************************************************************************)
EXTENDS Integers, FiniteSetsExt, FiniteSetTheorems, WellFoundedInduction, TLAPS

SumOver(f, S) == MapThenSumSet(LAMBDA x : f[x], S)

Pick(s) == CHOOSE x \in s : TRUE

\* The recursive equation of the fold, for the subsets of S.
Adds(g, f, S) ==
  \A s \in SUBSET S : g[s] = IF s = {} THEN 0 ELSE f[Pick(s)] + g[s \ {Pick(s)}]

LEMMA PickIn ==
  ASSUME NEW s, s # {}
  PROVE  Pick(s) \in s
BY DEF Pick

\* Among some subsets of a finite set there is one of which no subset that lacks just
\* one of its elements is among them.
LEMMA SmallestOf ==
  ASSUME NEW U, IsFiniteSet(U), NEW W \in SUBSET SUBSET U, W # {}
  PROVE  \E w \in W : \A x \in w : w \ {x} \notin W
<1> DEFINE R == {Cardinality(w) : w \in W}
<1>1. \A w \in W : IsFiniteSet(w) /\ Cardinality(w) \in Nat
  BY FS_Subset, FS_CardinalityType
<1>2. R \subseteq Nat /\ R # {}
  BY <1>1
<1>3. PICK m \in R : \A y \in R : ~(<<y, m>> \in OpToRel(<, Nat))
  <2> HIDE DEF R
  <2> QED BY <1>2, NatLessThanWellFounded, WFMin
<1>4. PICK w \in W : m = Cardinality(w)
  OBVIOUS
<1>5. ASSUME NEW x \in w, w \ {x} \in W PROVE FALSE
  <2>1. Cardinality(w \ {x}) = Cardinality(w) - 1
    BY <1>1, FS_RemoveElement
  <2>2. Cardinality(w \ {x}) \in R /\ Cardinality(w \ {x}) \in Nat /\ Cardinality(w) \in Nat
    BY <1>1, <1>5
  <2>3. ~(Cardinality(w \ {x}) < m)
    BY <1>2, <1>3, <2>2 DEF OpToRel
  <2> QED BY <1>4, <2>1, <2>2, <2>3
<1> QED BY <1>5

LEMMA AddsUnique ==
  ASSUME NEW S, IsFiniteSet(S), NEW f, NEW g, NEW h, Adds(g, f, S), Adds(h, f, S)
  PROVE  \A s \in SUBSET S : g[s] = h[s]
<1> DEFINE W == {s \in SUBSET S : g[s] # h[s]}
<1>1. ASSUME W # {} PROVE FALSE
  <2>1. PICK w \in W : \A x \in w : w \ {x} \notin W
    <3> HIDE DEF W
    <3>1. W \in SUBSET SUBSET S
      BY DEF W
    <3> QED BY <1>1, <3>1, SmallestOf
  <2>2. w # {}
    BY DEF Adds
  <2>3. Pick(w) \in w
    BY <2>2, PickIn
  <2>4. w \ {Pick(w)} \in SUBSET S /\ w \ {Pick(w)} \notin W
    BY <2>1, <2>3
  <2>5. g[w \ {Pick(w)}] = h[w \ {Pick(w)}]
    BY <2>4
  <2>6. /\ g[w] = f[Pick(w)] + g[w \ {Pick(w)}]
        /\ h[w] = f[Pick(w)] + h[w \ {Pick(w)}]
    BY <2>2 DEF Adds
  <2> QED BY <2>5, <2>6
<1> QED BY <1>1

LEMMA AddsSubset ==
  ASSUME NEW S, NEW f, NEW g, Adds(g, f, S), NEW T \in SUBSET S
  PROVE  Adds(g, f, T)
BY DEF Adds

\* Of a smallest set without a solution, the sets that lack one of its elements have
\* one each; these agree, and together they are a solution for it.
LEMMA AddsExists ==
  ASSUME NEW S, IsFiniteSet(S), NEW f
  PROVE  \E g : Adds(g, f, S)
<1> DEFINE W == {s \in SUBSET S : ~\E g : Adds(g, f, s)}
<1>1. ASSUME W # {} PROVE FALSE
  <2>1. PICK w \in W : \A x \in w : w \ {x} \notin W
    <3> HIDE DEF W
    <3>1. W \in SUBSET SUBSET S
      BY DEF W
    <3> QED BY <1>1, <3>1, SmallestOf
  <2>2. w \in SUBSET S /\ ~\E g : Adds(g, f, w)
    OBVIOUS
  <2>3. \A x \in w : \E g : Adds(g, f, w \ {x})
    BY <2>1, <2>2
  <2> HIDE DEF W
  <2> DEFINE sol(x) == CHOOSE g : Adds(g, f, w \ {x})
             val == [r \in SUBSET w |-> sol(Pick(w \ r))[r]]
             G == [r \in SUBSET w |-> IF r = {} THEN 0
                                      ELSE IF r = w THEN f[Pick(w)] + val[w \ {Pick(w)}]
                                      ELSE val[r]]
  <2>4. \A x \in w : Adds(sol(x), f, w \ {x})
    BY <2>3
  <2> HIDE DEF sol
  <2>5. ASSUME NEW x \in w, NEW y \in w, NEW r \in SUBSET (w \ {x}), r \in SUBSET (w \ {y})
        PROVE  sol(x)[r] = sol(y)[r]
    <3>1. IsFiniteSet(r)
      BY <2>2, FS_Subset
    <3>2. Adds(sol(x), f, r) /\ Adds(sol(y), f, r)
      BY <2>4, <2>5, AddsSubset
    <3>3. r \in SUBSET r
      OBVIOUS
    <3> QED BY <3>1, <3>2, <3>3, AddsUnique
  <2>6. ASSUME NEW x \in w, NEW r \in SUBSET (w \ {x})
        PROVE  val[r] = sol(x)[r]
    <3>1. Pick(w \ r) \in w \ r
      BY PickIn
    <3>2. r \in SUBSET (w \ {Pick(w \ r)}) /\ Pick(w \ r) \in w
      BY <3>1
    <3> QED BY <2>5, <3>2
  <2> HIDE DEF val
  <2>7. ASSUME NEW s \in SUBSET w, s # {}
        PROVE  G[s] = f[Pick(s)] + G[s \ {Pick(s)}]
    <3> DEFINE rest == s \ {Pick(s)}
    <3>1. Pick(s) \in s /\ rest \in SUBSET w /\ rest # w
      BY <2>7, PickIn
    <3>2. G[rest] = val[rest]
      <4>1. CASE rest = {}
        <5>1. Adds(sol(Pick(s)), f, w \ {Pick(s)}) /\ {} \in SUBSET (w \ {Pick(s)})
          BY <2>4, <3>1
        <5>2. sol(Pick(s))[{}] = 0
          BY <5>1 DEF Adds
        <5>3. val[{}] = sol(Pick(s))[{}]
          BY <2>6, <3>1, <5>1
        <5> QED BY <4>1, <5>2, <5>3
      <4>2. CASE rest # {}
        BY <3>1, <4>2
      <4> QED BY <4>1, <4>2
    <3>3. CASE s = w
      BY <2>7, <3>2, <3>3
    <3>4. CASE s # w
      <4>1. PICK x \in w : x \notin s
        BY <3>4
      <4>2. s \in SUBSET (w \ {x}) /\ rest \in SUBSET (w \ {x})
        BY <4>1
      <4>3. sol(x)[s] = f[Pick(s)] + sol(x)[rest]
        BY <2>4, <2>7, <4>1, <4>2 DEF Adds
      <4>4. val[s] = sol(x)[s] /\ val[rest] = sol(x)[rest]
        BY <2>6, <4>2
      <4>5. G[s] = val[s]
        BY <2>7, <3>4
      <4> HIDE DEF G, rest
      <4> QED BY <3>2, <4>3, <4>4, <4>5 DEF rest
    <3> QED BY <3>3, <3>4
  <2>8. G[{}] = 0
    OBVIOUS
  <2> HIDE DEF G
  <2>9. Adds(G, f, w)
    BY <2>7, <2>8 DEF Adds
  <2> QED BY <2>2, <2>9
<1>2. S \in SUBSET S /\ S \notin W
  BY <1>1
<1> QED BY <1>2
-------------------------------------------------------------------------------
\* The fold is the value of any solution.
LEMMA SumIs ==
  ASSUME NEW S, IsFiniteSet(S), NEW f, NEW g, Adds(g, f, S)
  PROVE  SumOver(f, S) = g[S]
<1> DEFINE iter == CHOOSE h : h = [s \in SUBSET S |->
                                     IF s = {} THEN 0 ELSE f[Pick(s)] + h[s \ {Pick(s)}]]
           G == [s \in SUBSET S |-> g[s]]
<1>1. \A s \in SUBSET S : s # {} => s \ {Pick(s)} \in SUBSET S
  OBVIOUS
<1>2. G = [s \in SUBSET S |-> IF s = {} THEN 0 ELSE f[Pick(s)] + G[s \ {Pick(s)}]]
  BY <1>1 DEF Adds
<1>3. iter = [s \in SUBSET S |-> IF s = {} THEN 0 ELSE f[Pick(s)] + iter[s \ {Pick(s)}]]
  <2> HIDE DEF G
  <2> QED BY <1>2, Zenon
<1>4. SumOver(f, S) = iter[S]
  BY Zenon DEF SumOver, MapThenSumSet, MapThenFoldSet, Pick
<1> HIDE DEF iter
<1>5. Adds(iter, f, S)
  BY <1>3 DEF Adds
<1>6. S \in SUBSET S
  OBVIOUS
<1> QED BY <1>4, <1>5, <1>6, AddsUnique
-------------------------------------------------------------------------------
LEMMA AddsType ==
  ASSUME NEW S, IsFiniteSet(S), NEW f, \A x \in S : f[x] \in Int, NEW g, Adds(g, f, S)
  PROVE  \A s \in SUBSET S : g[s] \in Int
<1> DEFINE W == {s \in SUBSET S : g[s] \notin Int}
<1>1. ASSUME W # {} PROVE FALSE
  <2>1. PICK w \in W : \A x \in w : w \ {x} \notin W
    <3> HIDE DEF W
    <3>1. W \in SUBSET SUBSET S
      BY DEF W
    <3> QED BY <1>1, <3>1, SmallestOf
  <2>2. w \in SUBSET S /\ g[w] \notin Int
    OBVIOUS
  <2>3. w # {}
    <3>1. g[{}] = 0
      BY DEF Adds
    <3> QED BY <2>2, <3>1
  <2>4. Pick(w) \in w /\ w \ {Pick(w)} \in SUBSET S
    BY <2>2, <2>3, PickIn
  <2>5. g[w \ {Pick(w)}] \in Int
    BY <2>1, <2>4
  <2>6. g[w] = f[Pick(w)] + g[w \ {Pick(w)}]
    BY <2>2, <2>3 DEF Adds
  <2> QED BY <2>2, <2>4, <2>5, <2>6
<1> QED BY <1>1

\* Any element may come first.
LEMMA AddsAny ==
  ASSUME NEW S, IsFiniteSet(S), NEW f, \A x \in S : f[x] \in Int, NEW g, Adds(g, f, S)
  PROVE  \A s \in SUBSET S : \A c \in s : g[s] = f[c] + g[s \ {c}]
<1> DEFINE W == {s \in SUBSET S : \E c \in s : g[s] # f[c] + g[s \ {c}]}
<1>1. ASSUME W # {} PROVE FALSE
  <2>1. PICK w \in W : \A x \in w : w \ {x} \notin W
    <3> HIDE DEF W
    <3>1. W \in SUBSET SUBSET S
      BY DEF W
    <3> QED BY <1>1, <3>1, SmallestOf
  <2>2. PICK c \in w : g[w] # f[c] + g[w \ {c}]
    OBVIOUS
  <2> DEFINE p == Pick(w)
             rest == (w \ {p}) \ {c}
  <2>3. w \in SUBSET S /\ w # {} /\ p \in w
    BY PickIn
  <2>4. g[w] = f[p] + g[w \ {p}]
    BY <2>3 DEF Adds
  <2> HIDE DEF p
  <2>5. p # c
    BY <2>2, <2>4
  <2>6. c \in w \ {p} /\ p \in w \ {c} /\ rest = (w \ {c}) \ {p}
    BY <2>3, <2>5
  <2>7. w \ {p} \in SUBSET S /\ w \ {c} \in SUBSET S /\ w \ {p} \notin W /\ w \ {c} \notin W
    BY <2>1, <2>3
  <2>8. g[w \ {p}] = f[c] + g[rest]
    BY <2>6, <2>7
  <2>9. g[w \ {c}] = f[p] + g[rest]
    BY <2>6, <2>7
  <2>10. g[rest] \in Int /\ f[c] \in Int /\ f[p] \in Int
    BY <2>3, <2>7, AddsType
  <2> HIDE DEF rest
  <2> QED BY <2>2, <2>4, <2>8, <2>9, <2>10
<1> QED BY <1>1
-------------------------------------------------------------------------------
LEMMA SumEmpty ==
  ASSUME NEW f
  PROVE  SumOver(f, {}) = 0
<1>1. IsFiniteSet({}) /\ {} \in SUBSET {}
  BY FS_EmptySet
<1>2. PICK g : Adds(g, f, {})
  BY <1>1, AddsExists
<1>3. g[{}] = 0
  BY <1>1, <1>2 DEF Adds
<1> QED BY <1>1, <1>2, <1>3, SumIs

LEMMA SumType ==
  ASSUME NEW S, IsFiniteSet(S), NEW f, \A x \in S : f[x] \in Int
  PROVE  SumOver(f, S) \in Int
<1>1. PICK g : Adds(g, f, S)
  BY AddsExists
<1>2. S \in SUBSET S
  OBVIOUS
<1> QED BY <1>1, <1>2, AddsType, SumIs

\* The sum is that of the rest and any one element.
LEMMA SumRemove ==
  ASSUME NEW S, IsFiniteSet(S), NEW f, \A x \in S : f[x] \in Int, NEW c \in S
  PROVE  SumOver(f, S) = SumOver(f, S \ {c}) + f[c]
<1>1. PICK g : Adds(g, f, S)
  BY AddsExists
<1>2. S \in SUBSET S /\ S \ {c} \in SUBSET S /\ IsFiniteSet(S \ {c})
  BY FS_Subset
<1>3. g[S] = f[c] + g[S \ {c}] /\ g[S \ {c}] \in Int /\ f[c] \in Int
  BY <1>1, <1>2, AddsAny, AddsType
<1>4. SumOver(f, S) = g[S] /\ SumOver(f, S \ {c}) = g[S \ {c}]
  BY <1>1, <1>2, AddsSubset, SumIs
<1> QED BY <1>3, <1>4

\* Only the values on the set count.
LEMMA SumSame ==
  ASSUME NEW S, IsFiniteSet(S), NEW f, NEW h, \A x \in S : f[x] = h[x]
  PROVE  SumOver(f, S) = SumOver(h, S)
<1>1. PICK g : Adds(g, f, S)
  BY AddsExists
<1>2. Adds(g, h, S)
  <2> SUFFICES ASSUME NEW s \in SUBSET S, s # {} PROVE f[Pick(s)] = h[Pick(s)]
    BY <1>1 DEF Adds
  <2> QED BY PickIn
<1> QED BY <1>1, <1>2, SumIs

\* One more element, the values of the others unchanged.
LEMMA SumWith ==
  ASSUME NEW S, IsFiniteSet(S), NEW c, c \notin S, NEW f, NEW h, h[c] \in Int,
         \A x \in S : f[x] = h[x] /\ f[x] \in Int
  PROVE  SumOver(h, S \cup {c}) = SumOver(f, S) + h[c]
<1>1. IsFiniteSet(S \cup {c}) /\ (S \cup {c}) \ {c} = S
  BY FS_AddElement
<1>2. SumOver(h, S \cup {c}) = SumOver(h, (S \cup {c}) \ {c}) + h[c]
  BY <1>1, SumRemove
<1>3. SumOver(f, S) = SumOver(h, S)
  BY SumSame
<1> QED BY <1>1, <1>2, <1>3
===============================================================================
