------------------------- MODULE GitExchangeProofs -------------------------
(***************************************************************************)
(* Proofs about pushes, compactions and fetches of one repository, for     *)
(* every history of objects, every number of clients and refs, and every   *)
(* limit.                                                                  *)
(***************************************************************************)
EXTENDS GitExchange, FiniteSetTheorems, SequenceTheorems, WellFoundedInduction, TLAPS

-----------------------------------------------------------------------------
(* Iteration *)

\* Induction, about the set of numbers that have a property.
LEMMA NatSet ==
  ASSUME NEW S, 0 \in S, \A n \in Nat : n \in S => n + 1 \in S
  PROVE  Nat \subseteq S
<1>1. SUFFICES ASSUME Nat \ S # {} PROVE FALSE
  OBVIOUS
<1>2. PICK x \in Nat \ S : \A y \in Nat \ S : ~ (<<y, x>> \in OpToRel(<, Nat))
  BY <1>1, NatLessThanWellFounded, WFMin
<1>3. x \in Nat /\ x # 0
  BY <1>2
<1>4. x - 1 \in Nat /\ x - 1 < x /\ (x - 1) + 1 = x
  BY <1>3
<1>5. x - 1 \notin S
  BY <1>2, <1>4
<1>6. <<x - 1, x>> \in OpToRel(<, Nat)
  BY <1>3, <1>4 DEF OpToRel
<1> QED
  BY <1>2, <1>4, <1>5, <1>6

\* The recursive function that iterate is defined by exists.
LEMMA IterateFcn ==
  ASSUME NEW f, NEW x
  PROVE  \E at : at = [k \in Nat |-> IF k = 0 THEN x ELSE f[at[k - 1]]]
<1> DEFINE Upto(n, h) == h = [k \in 0..n |-> IF k = 0 THEN x ELSE f[h[k - 1]]]
<1>1. \A n \in Nat : \E h : Upto(n, h)
  <2> DEFINE S == {n \in Nat : \E h : Upto(n, h)}
  <2>1. 0 \in S
    <3> DEFINE h0 == [k \in 0..0 |-> x]
    <3>1. Upto(0, h0)
      OBVIOUS
    <3> QED
      BY <3>1
  <2>2. ASSUME NEW n \in Nat, n \in S PROVE n + 1 \in S
    <3>1. PICK h : Upto(n, h)
      BY <2>2
    <3> DEFINE g == [k \in 0..(n + 1) |-> IF k = n + 1 THEN f[h[n]] ELSE h[k]]
    <3>2. ASSUME NEW k \in 0..(n + 1) PROVE g[k] = IF k = 0 THEN x ELSE f[g[k - 1]]
      <4>1. CASE k = 0
        BY <3>1, <4>1
      <4>2. CASE k = n + 1
        <5>1. k - 1 = n /\ k # 0 /\ n \in 0..(n + 1) /\ n # n + 1
          BY <4>2
        <5> QED
          BY <4>2, <5>1
      <4>3. CASE k # 0 /\ k # n + 1
        <5>1. k \in 0..n /\ k - 1 \in 0..(n + 1) /\ k - 1 # n + 1
          BY <4>3
        <5>2. g[k] = h[k] /\ g[k - 1] = h[k - 1]
          BY <4>3, <5>1
        <5> QED
          BY <3>1, <4>3, <5>1, <5>2
      <4> QED
        BY <4>1, <4>2, <4>3
    <3>3. Upto(n + 1, g)
      BY <3>2
    <3>4. n + 1 \in Nat
      OBVIOUS
    <3> HIDE DEF g, Upto
    <3> QED
      BY <3>3, <3>4
  <2> QED
    BY <2>1, <2>2, NatSet
<1>2. ASSUME NEW m \in Nat, NEW n \in Nat, NEW g, NEW h, Upto(m, g), Upto(n, h)
      PROVE  \A k \in Nat : k \in 0..m /\ k \in 0..n => g[k] = h[k]
  <2> DEFINE S == {k \in Nat : k \in 0..m /\ k \in 0..n => g[k] = h[k]}
  <2>1. 0 \in S
    BY <1>2
  <2>2. ASSUME NEW k \in Nat, k \in S PROVE k + 1 \in S
    <3>1. SUFFICES ASSUME k + 1 \in 0..m, k + 1 \in 0..n PROVE g[k + 1] = h[k + 1]
      OBVIOUS
    <3>2. k \in 0..m /\ k \in 0..n /\ k + 1 # 0 /\ (k + 1) - 1 = k
      BY <3>1
    <3>3. g[k + 1] = f[g[(k + 1) - 1]]
      BY <1>2, <3>1, <3>2
    <3>4. h[k + 1] = f[h[(k + 1) - 1]]
      BY <1>2, <3>1, <3>2
    <3>5. g[k] = h[k]
      BY <2>2, <3>2
    <3> QED
      BY <3>2, <3>3, <3>4, <3>5
  <2> QED
    BY <2>1, <2>2, NatSet
<1> DEFINE some(n) == CHOOSE h : Upto(n, h)
           at == [k \in Nat |-> some(k)[k]]
<1>3. \A n \in Nat : Upto(n, some(n))
  BY <1>1
<1>4. ASSUME NEW k \in Nat PROVE at[k] = IF k = 0 THEN x ELSE f[at[k - 1]]
  <2> HIDE DEF some
  <2>1. CASE k = 0
    <3>1. Upto(0, some(0))
      BY <1>3
    <3>2. some(0)[0] = x
      BY <3>1
    <3> QED
      BY <2>1, <3>2
  <2>2. CASE k # 0
    <3>1. k - 1 \in Nat /\ k \in 0..k /\ k - 1 \in 0..k /\ k - 1 \in 0..(k - 1)
      BY <2>2
    <3>2. Upto(k, some(k)) /\ Upto(k - 1, some(k - 1))
      BY <1>3, <3>1
    <3>3. some(k)[k] = f[some(k)[k - 1]]
      BY <2>2, <3>1, <3>2
    <3>4. PICK g, h, j : g = some(k) /\ h = some(k - 1) /\ j = k - 1
      OBVIOUS
    <3>5. Upto(k, g) /\ Upto(j, h) /\ j \in Nat /\ j \in 0..k /\ j \in 0..j
      BY <3>1, <3>2, <3>4
    <3>6. g[j] = h[j]
      <4> HIDE DEF Upto
      <4>1. \A q \in Nat : q \in 0..k /\ q \in 0..j => g[q] = h[q]
        BY <1>2, <3>5
      <4> QED
        BY <3>5, <4>1
    <3>7. some(k)[k - 1] = some(k - 1)[k - 1]
      BY <3>4, <3>6
    <3> QED
      BY <2>2, <3>1, <3>3, <3>7
  <2> QED
    BY <2>1, <2>2
<1>5. at = [k \in Nat |-> IF k = 0 THEN x ELSE f[at[k - 1]]]
  <2> HIDE DEF some, Upto
  <2>1. at = [k \in Nat |-> at[k]]
    OBVIOUS
  <2> HIDE DEF at
  <2> QED
    BY <1>4, <2>1
<1> QED
  BY <1>5

LEMMA Iterate ==
  ASSUME NEW f, NEW x
  PROVE  /\ iterate(f, x, 0) = x
         /\ \A n \in Nat : iterate(f, x, n + 1) = f[iterate(f, x, n)]
<1> DEFINE at == CHOOSE h : h = [k \in Nat |-> IF k = 0 THEN x ELSE f[h[k - 1]]]
<1>1. at = [k \in Nat |-> IF k = 0 THEN x ELSE f[at[k - 1]]]
  BY IterateFcn
<1>2. \A n : iterate(f, x, n) = at[n]
  BY DEF iterate
<1> HIDE DEF at
<1>3. at[0] = x
  BY <1>1
<1>4. ASSUME NEW n \in Nat PROVE at[n + 1] = f[at[n]]
  <2>1. n + 1 \in Nat /\ n + 1 # 0 /\ (n + 1) - 1 = n
    OBVIOUS
  <2> QED
    BY <1>1, <2>1
<1> QED
  BY <1>2, <1>3, <1>4

\* What f keeps holds of every iterate.
LEMMA IterateStays ==
  ASSUME NEW f, NEW I, NEW x \in I, \A y \in I : f[y] \in I
  PROVE  \A n \in Nat : iterate(f, x, n) \in I
<1> DEFINE S == {n \in Nat : iterate(f, x, n) \in I}
<1>1. 0 \in S
  BY Iterate
<1>2. ASSUME NEW n \in Nat, n \in S PROVE n + 1 \in S
  <2>1. iterate(f, x, n + 1) = f[iterate(f, x, n)]
    BY Iterate
  <2> QED
    BY <1>2, <2>1
<1> QED
  BY <1>1, <1>2, NatSet

\* A set that f only adds to, within a finite set D, is closed under f after as
\* many rounds as D has elements.
LEMMA Saturates ==
  ASSUME NEW D, IsFiniteSet(D), NEW f, NEW X \in SUBSET D,
         \A S \in SUBSET D : S \subseteq f[S] /\ f[S] \subseteq D,
         NEW Y, Y = iterate(f, X, Cardinality(D))
  PROVE  Y \in SUBSET D /\ X \subseteq Y /\ f[Y] = Y
<1> DEFINE at(n) == iterate(f, X, n)
<1>1. \A n \in Nat : at(n) \in {S \in SUBSET D : X \subseteq S}
  <2> DEFINE I == {S \in SUBSET D : X \subseteq S}
  <2>1. X \in I /\ \A S \in I : f[S] \in I
    OBVIOUS
  <2> HIDE DEF I
  <2>2. \A n \in Nat : iterate(f, X, n) \in I
    BY <2>1, IterateStays
  <2> QED
    BY <2>2 DEF I
<1>2. \A n \in Nat : at(n + 1) = f[at(n)]
  BY Iterate
<1> HIDE DEF at
<1> DEFINE P == {n \in Nat : f[at(n)] = at(n) \/ Cardinality(at(n)) >= n}
<1>3. \A n \in Nat : IsFiniteSet(at(n)) /\ Cardinality(at(n)) \in Nat
  <2>1. ASSUME NEW n \in Nat PROVE IsFiniteSet(at(n)) /\ Cardinality(at(n)) \in Nat
    <3>1. at(n) \in SUBSET D
      BY <1>1
    <3>2. IsFiniteSet(at(n))
      BY <3>1, FS_Subset
    <3> QED
      BY <3>2, FS_CardinalityType
  <2> QED
    BY <2>1
<1>4. 0 \in P
  BY <1>3
<1>5. ASSUME NEW n \in Nat, n \in P PROVE n + 1 \in P
  <2>1. n + 1 \in Nat
    OBVIOUS
  <2>2. CASE f[at(n)] = at(n)
    <3>1. f[at(n + 1)] = at(n + 1)
      BY <1>2, <2>2
    <3> QED
      BY <2>1, <3>1
  <2>3. CASE f[at(n)] # at(n)
    <3>1. Cardinality(at(n)) >= n
      BY <1>5, <2>3
    <3>2. at(n) \in SUBSET at(n + 1) /\ at(n) # at(n + 1)
      BY <1>1, <1>2, <2>3
    <3>3. Cardinality(at(n)) <= Cardinality(at(n + 1))
          /\ Cardinality(at(n)) # Cardinality(at(n + 1))
      BY <1>3, <2>1, <3>2, FS_Subset
    <3>4. Cardinality(at(n + 1)) >= n + 1
      BY <1>3, <2>1, <3>1, <3>3
    <3> QED
      BY <2>1, <3>4
  <2> QED
    BY <2>2, <2>3
<1>6. Nat \subseteq P
  BY <1>4, <1>5, NatSet
<1>7. Cardinality(D) \in Nat
  BY FS_CardinalityType
<1>8. Y = at(Cardinality(D))
  BY DEF at
<1>9. Y \in SUBSET D /\ X \subseteq Y
  BY <1>1, <1>7, <1>8
<1>10. f[Y] = Y \/ Cardinality(Y) >= Cardinality(D)
  BY <1>6, <1>7, <1>8
<1>11. CASE Cardinality(Y) >= Cardinality(D)
  <2>1. Cardinality(Y) <= Cardinality(D) /\ Cardinality(Y) \in Nat
    BY <1>3, <1>7, <1>8, <1>9, FS_Subset
  <2>2. Cardinality(Y) = Cardinality(D)
    BY <1>7, <1>11, <2>1
  <2>3. Y = D
    BY <1>9, <2>2, FS_Subset
  <2> QED
    BY <1>9, <2>3
<1> QED
  BY <1>9, <1>10, <1>11

-----------------------------------------------------------------------------
(* What objects reach *)

linked(oid) == Range(Links[oid]) \ Gitlink

Closed(S) == \A oid \in S : linked(oid) \subseteq S

LEMMA LinkedAreOids == \A oid \in Oid : linked(oid) \subseteq Oid
BY GraphAssumption DEF linked, Range

LEMMA ReachIsLeast ==
  ASSUME NEW oid \in Oid
  PROVE  /\ Reach[oid] \in SUBSET Oid /\ oid \in Reach[oid] /\ Closed(Reach[oid])
         /\ \A S \in SUBSET Oid : oid \in S /\ Closed(S) => Reach[oid] \subseteq S
<1> DEFINE grow == [S \in SUBSET Oid |-> S \cup UNION {Range(Links[o]) \ Gitlink : o \in S}]
<1>1. Reach[oid] = iterate(grow, {oid}, Cardinality(Oid))
  BY DEF Reach
<1>2. \A S \in SUBSET Oid : grow[S] = S \cup UNION {linked(o) : o \in S}
  BY DEF linked
<1> HIDE DEF grow
<1>3. \A S \in SUBSET Oid : S \subseteq grow[S] /\ grow[S] \subseteq Oid
  BY <1>2, LinkedAreOids
<1>4. {oid} \in SUBSET Oid /\ IsFiniteSet(Oid)
  BY GraphAssumption
<1>5. /\ Reach[oid] \in SUBSET Oid /\ {oid} \subseteq Reach[oid]
      /\ grow[Reach[oid]] = Reach[oid]
  BY <1>1, <1>3, <1>4, Saturates
<1>6. Closed(Reach[oid])
  BY <1>2, <1>5 DEF Closed
<1>7. ASSUME NEW S \in SUBSET Oid, oid \in S, Closed(S) PROVE Reach[oid] \subseteq S
  <2>1. \A T \in SUBSET S : grow[T] \in SUBSET S
    BY <1>2, <1>7 DEF Closed
  <2>2. {oid} \in SUBSET S
    BY <1>7
  <2>3. \A n \in Nat : iterate(grow, {oid}, n) \in SUBSET S
    BY <2>1, <2>2, IterateStays
  <2> QED
    BY <1>1, <1>4, <2>3, FS_CardinalityType
<1> QED
  BY <1>5, <1>6, <1>7

LEMMA ClosureIsClosed ==
  ASSUME NEW S \in SUBSET Oid
  PROVE  Closure(S) \in SUBSET Oid /\ S \subseteq Closure(S) /\ Closed(Closure(S))
BY ReachIsLeast DEF Closure, Closed

LEMMA ClosureIsLeast ==
  ASSUME NEW S \in SUBSET Oid, NEW T \in SUBSET Oid, S \subseteq T, Closed(T)
  PROVE  Closure(S) \subseteq T
BY ReachIsLeast DEF Closure

-----------------------------------------------------------------------------
(* Chains of tags *)

hopIn(there) == [o \in Oid |-> IF o \in there /\ Kind[o] = "tag" THEN Links[o][1] ELSE o]

\* The object after n hops from oid.
chain(oid, there, n) == iterate(hopIn(there), oid, n)

LEMMA UnwrapsToLast ==
  ASSUME NEW oid, NEW there, NEW last, last = chain(oid, there, MaxTagDepth)
  PROVE  unwrapTag(oid, there) = IF last \in there /\ Kind[last] # "tag" THEN last ELSE NoOid
BY DEF unwrapTag, chain, hopIn

LEMMA TagTarget ==
  ASSUME NEW tag \in Oid, Kind[tag] = "tag"
  PROVE  Links[tag][1] \in Oid /\ linked(tag) = {Links[tag][1]}
<1>1. Links[tag] \in Seq(Oid \cup Gitlink) /\ Len(Links[tag]) = 1
      /\ Range(Links[tag]) \subseteq Oid
  BY GraphAssumption
<1>2. DOMAIN Links[tag] = {1}
  BY <1>1
<1>3. Range(Links[tag]) = {Links[tag][1]}
  BY <1>2 DEF Range
<1>4. Links[tag][1] \notin Gitlink
  BY <1>1, <1>3, GraphAssumption
<1> QED
  BY <1>1, <1>3, <1>4 DEF linked

LEMMA ChainSteps ==
  ASSUME NEW oid \in Oid, NEW there, NEW n \in Nat, NEW o, o = chain(oid, there, n)
  PROVE  /\ o \in Oid
         /\ chain(oid, there, n + 1) = IF o \in there /\ Kind[o] = "tag" THEN Links[o][1] ELSE o
<1>1. \A q \in Oid : hopIn(there)[q] \in Oid
  BY TagTarget DEF hopIn
<1>2. o \in Oid
  BY <1>1, IterateStays DEF chain
<1>3. chain(oid, there, n + 1) = hopIn(there)[o]
  BY Iterate DEF chain
<1> QED
  BY <1>2, <1>3 DEF hopIn

\* A chain that does not go on at n never goes on.
LEMMA ChainEnds ==
  ASSUME NEW oid \in Oid, NEW there, NEW n \in Nat, NEW m \in Nat, n <= m,
         NEW o, o = chain(oid, there, n), ~ (o \in there /\ Kind[o] = "tag")
  PROVE  chain(oid, there, m) = o
<1> DEFINE S == {k \in Nat : k >= n => chain(oid, there, k) = o}
<1>1. 0 \in S
  OBVIOUS
<1>2. ASSUME NEW k \in Nat, k \in S PROVE k + 1 \in S
  <2>1. SUFFICES ASSUME k + 1 >= n PROVE chain(oid, there, k + 1) = o
    OBVIOUS
  <2>2. CASE k + 1 = n
    BY <2>2
  <2>3. CASE k >= n
    <3>1. chain(oid, there, k) = o
      BY <1>2, <2>3
    <3> QED
      BY <3>1, ChainSteps
  <2> QED
    BY <2>1, <2>2, <2>3
<1>3. Nat \subseteq S
  BY <1>1, <1>2, NatSet
<1> QED
  BY <1>3

LEMMA ChainReaches ==
  ASSUME NEW oid \in Oid, NEW there, NEW n \in Nat, NEW m \in Nat, n <= m
  PROVE  chain(oid, there, m) \in Reach[chain(oid, there, n)]
<1> DEFINE o == chain(oid, there, n)
           S == {k \in Nat : k >= n => chain(oid, there, k) \in Reach[o]}
<1>1. o \in Oid
  BY ChainSteps
<1>2. o \in Reach[o] /\ Reach[o] \subseteq Oid /\ Closed(Reach[o])
  BY <1>1, ReachIsLeast
<1> HIDE DEF o
<1>3. 0 \in S
  BY <1>2 DEF o
<1>4. ASSUME NEW k \in Nat, k \in S PROVE k + 1 \in S
  <2>1. SUFFICES ASSUME k + 1 >= n PROVE chain(oid, there, k + 1) \in Reach[o]
    OBVIOUS
  <2>2. CASE k + 1 = n
    BY <1>2, <2>2 DEF o
  <2>3. CASE k >= n
    <3>1. PICK q : q = chain(oid, there, k)
      OBVIOUS
    <3>2. q \in Reach[o] /\ q \in Oid
      BY <1>2, <1>4, <2>3, <3>1
    <3>3. chain(oid, there, k + 1) = IF q \in there /\ Kind[q] = "tag" THEN Links[q][1] ELSE q
      BY <3>1, ChainSteps
    <3>4. Kind[q] = "tag" => Links[q][1] \in Reach[o]
      BY <1>2, <3>2, TagTarget DEF Closed
    <3> QED
      BY <3>2, <3>3, <3>4
  <2> QED
    BY <2>1, <2>2, <2>3
<1>5. Nat \subseteq S
  BY <1>3, <1>4, NatSet
<1> QED
  BY <1>5 DEF o

\* What the connectivity check has seen to be there.
seen(oid, there) ==
    \A q \in {oid} \cup {Links[tag][1] : tag \in tagsFrom(oid)} :
        /\ q \in there
        /\ Kind[q] = "commit" => Range(Links[q]) \subseteq there

LEMMA ConnectedIsSeen ==
  ASSUME NEW oid \in Oid, NEW there, connected(oid, there)
  PROVE  seen(oid, there)
<1> DEFINE last == chain(oid, there, MaxTagDepth)
           C == {chain(oid, there, n) : n \in 0..MaxTagDepth}
           T == C \cup {o \in Oid : Kind[o] # "tag"}
<1>1. MaxTagDepth \in Nat /\ NoOid \notin Oid
  BY LimitAssumption, GraphAssumption
<1>2. /\ last \in Oid /\ last \in there /\ Kind[last] # "tag"
      /\ Kind[last] = "commit" => Range(Links[last]) \subseteq there
  BY <1>1, UnwrapsToLast, ChainSteps DEF connected
<1> HIDE DEF last
<1>3. ASSUME NEW n \in 0..MaxTagDepth, NEW o, o = chain(oid, there, n)
      PROVE  /\ o \in Oid /\ o \in there
             /\ Kind[o] = "tag" => /\ n + 1 \in 0..MaxTagDepth
                                   /\ Links[o][1] = chain(oid, there, n + 1)
             /\ Kind[o] # "tag" => o = last
  <2>1. n \in Nat /\ n <= MaxTagDepth
    BY <1>1
  <2>2. o \in Oid
    BY <1>3, <2>1, ChainSteps
  <2>3. ~ (o \in there /\ Kind[o] = "tag") => o = last
    BY <1>1, <1>3, <2>1, ChainEnds DEF last
  <2>4. o \in there
    BY <1>2, <2>3
  <2>5. ASSUME Kind[o] = "tag"
        PROVE  n + 1 \in 0..MaxTagDepth /\ Links[o][1] = chain(oid, there, n + 1)
    <3>1. n # MaxTagDepth
      BY <1>2, <1>3, <2>5 DEF last
    <3>2. n + 1 \in 0..MaxTagDepth
      BY <1>1, <2>1, <3>1
    <3> QED
      BY <1>3, <2>1, <2>4, <2>5, <3>2, ChainSteps
  <2> QED
    BY <2>2, <2>3, <2>4, <2>5
<1>4. oid \in C
  <2>1. oid = chain(oid, there, 0)
    BY Iterate DEF chain
  <2> QED
    BY <1>1, <2>1
<1>5. C \subseteq Oid
  BY <1>3
<1>6. ASSUME NEW o \in T PROVE linked(o) \subseteq T
  <2>1. CASE Kind[o] = "tag"
    <3>1. PICK n \in 0..MaxTagDepth : o = chain(oid, there, n)
      BY <1>6, <2>1
    <3>2. linked(o) = {Links[o][1]}
      BY <1>3, <2>1, <3>1, TagTarget
    <3>3. Links[o][1] \in C
      BY <1>3, <2>1, <3>1
    <3> QED
      BY <3>2, <3>3
  <2>2. CASE Kind[o] # "tag"
    <3>1. o \in Oid
      BY <1>5, <1>6
    <3>2. \A q \in Range(Links[o]) \cap Oid : Kind[q] # "tag"
      BY <2>2, <3>1, GraphAssumption
    <3>3. linked(o) \subseteq Oid /\ linked(o) \subseteq Range(Links[o])
      BY <3>1, LinkedAreOids DEF linked
    <3> QED
      BY <3>2, <3>3
  <2> QED
    BY <2>1, <2>2
<1>7. Closure({oid}) \subseteq T
  <2>1. T \in SUBSET Oid /\ {oid} \in SUBSET Oid /\ {oid} \subseteq T /\ Closed(T)
    BY <1>4, <1>5, <1>6 DEF Closed
  <2> HIDE DEF T
  <2> QED
    BY <2>1, ClosureIsLeast
<1>8. ASSUME NEW tag \in tagsFrom(oid) PROVE Links[tag][1] \in C
  <2>1. Kind[tag] = "tag" /\ tag \in T
    BY <1>7 DEF tagsFrom
  <2>2. PICK n \in 0..MaxTagDepth : tag = chain(oid, there, n)
    BY <2>1
  <2> QED
    BY <1>3, <2>1, <2>2
<1>9. ASSUME NEW q \in C
      PROVE  q \in there /\ (Kind[q] = "commit" => Range(Links[q]) \subseteq there)
  <2>1. PICK n \in 0..MaxTagDepth : q = chain(oid, there, n)
    OBVIOUS
  <2>2. q \in there /\ (Kind[q] # "tag" => q = last)
    BY <1>3, <2>1
  <2> QED
    BY <1>2, <2>2
<1> HIDE DEF C
<1> QED
  BY <1>4, <1>8, <1>9 DEF seen

LEMMA WholeIsConnected ==
  ASSUME NEW oid \in Oid, NEW there, Closure({oid}) \subseteq there,
         Cardinality(tagsFrom(oid)) <= MaxTagDepth
  PROVE  connected(oid, there)
<1> DEFINE last == chain(oid, there, MaxTagDepth)
<1>1. MaxTagDepth \in Nat /\ NoOid \notin Oid
  BY LimitAssumption, GraphAssumption
<1>2. Closure({oid}) = Reach[oid] /\ Reach[oid] \subseteq Oid /\ Closed(Reach[oid])
  BY ReachIsLeast DEF Closure
<1>3. \A n \in Nat : chain(oid, there, n) \in Reach[oid]
  <2>1. chain(oid, there, 0) = oid
    BY Iterate DEF chain
  <2> QED
    BY <2>1, ChainReaches
<1>4. last \in there /\ last \in Reach[oid] /\ last \in Oid
  BY <1>1, <1>2, <1>3
<1>5. Kind[last] # "tag"
  <2>1. SUFFICES ASSUME Kind[last] = "tag" PROVE FALSE
    OBVIOUS
  <2>2. ASSUME NEW n \in 0..MaxTagDepth PROVE chain(oid, there, n) \in tagsFrom(oid)
    <3>1. n \in Nat /\ n <= MaxTagDepth
      BY <1>1
    <3>2. PICK o : o = chain(oid, there, n)
      OBVIOUS
    <3>3. o \in Closure({oid}) /\ o \in there
      BY <1>2, <1>3, <3>1, <3>2
    <3>4. Kind[o] = "tag"
      BY <1>1, <2>1, <3>1, <3>2, <3>3, ChainEnds
    <3> QED
      BY <3>2, <3>3, <3>4 DEF tagsFrom
  <2>3. IsFiniteSet(tagsFrom(oid)) /\ Cardinality(tagsFrom(oid)) \in Nat
    <3>1. tagsFrom(oid) \in SUBSET Oid
      BY <1>2 DEF tagsFrom
    <3>2. IsFiniteSet(Oid)
      BY GraphAssumption
    <3> QED
      BY <3>1, <3>2, FS_Subset, FS_CardinalityType
  <2>4. IsFiniteSet(0..MaxTagDepth) /\ Cardinality(0..MaxTagDepth) = MaxTagDepth + 1
    BY <1>1, FS_Interval
  <2>5. PICK f \in [0..MaxTagDepth -> tagsFrom(oid)] :
            \A n \in 0..MaxTagDepth : f[n] = chain(oid, there, n)
    <3> DEFINE g == [n \in 0..MaxTagDepth |-> chain(oid, there, n)]
    <3>1. g \in [0..MaxTagDepth -> tagsFrom(oid)]
      BY <2>2
    <3>2. \A n \in 0..MaxTagDepth : g[n] = chain(oid, there, n)
      OBVIOUS
    <3> HIDE DEF g
    <3> QED
      BY <3>1, <3>2
  <2>6. Cardinality(tagsFrom(oid)) < Cardinality(0..MaxTagDepth)
    BY <1>1, <2>3, <2>4
  <2>7. \E x, y \in 0..MaxTagDepth : x # y /\ f[x] = f[y]
    BY <2>3, <2>4, <2>6, FS_PigeonHole
  <2>8. PICK x, y \in 0..MaxTagDepth : x < y /\ chain(oid, there, x) = chain(oid, there, y)
    <3>1. PICK x, y \in 0..MaxTagDepth : x # y /\ f[x] = f[y]
      BY <2>7
    <3>2. chain(oid, there, x) = chain(oid, there, y)
      BY <2>5, <3>1
    <3>3. x < y \/ y < x
      BY <1>1, <3>1
    <3> QED
      BY <3>2, <3>3
  <2>9. PICK o : o = chain(oid, there, x)
    OBVIOUS
  <2>10. o \in tagsFrom(oid) /\ o \in Oid /\ o \in there /\ Kind[o] = "tag"
    BY <1>2, <2>2, <2>9 DEF tagsFrom
  <2>11. x \in Nat /\ y \in Nat /\ x + 1 \in Nat /\ x + 1 <= y
    BY <1>1, <2>8
  <2>12. chain(oid, there, x + 1) = Links[o][1]
    BY <2>9, <2>10, <2>11, ChainSteps
  <2>13. o \in Reach[Links[o][1]]
    BY <2>8, <2>9, <2>11, <2>12, ChainReaches
  <2>14. Links[o][1] \in Range(Links[o]) \cap Oid
    BY <2>10, TagTarget DEF linked
  <2> QED
    BY <2>10, <2>13, <2>14, HashAssumption
<1>6. unwrapTag(oid, there) = last
  BY <1>4, <1>5, UnwrapsToLast
<1>7. Kind[last] = "commit" => Range(Links[last]) \subseteq there
  <2>1. SUFFICES ASSUME Kind[last] = "commit" PROVE Range(Links[last]) \subseteq there
    OBVIOUS
  <2>2. Range(Links[last]) \subseteq Oid
    BY <1>4, <2>1, GraphAssumption
  <2>3. linked(last) = Range(Links[last])
    BY <2>2, GraphAssumption DEF linked
  <2> QED
    BY <1>2, <1>4, <2>3 DEF Closed
<1> HIDE DEF last
<1> QED
  BY <1>1, <1>4, <1>6, <1>7 DEF connected

-----------------------------------------------------------------------------
(* The plan of a fetch *)

LEMMA CommonHaves ==
  ASSUME NEW H \in SUBSET Oid, NEW haves \in Seq(H), NEW there
  PROVE  commonHaves(haves, there) \in Seq(H)
<1> DEFINE look == [w \in [kept : Seq(Oid), left : Seq(Oid)] |->
                      [kept |-> IF Head(w.left) \in there THEN Append(w.kept, Head(w.left)) ELSE w.kept,
                       left |-> Tail(w.left)]]
           at(n) == iterate(look, [kept |-> <<>>, left |-> haves], n)
           J == [kept : Seq(H), left : Seq(H)]
           S == {n \in Nat : n <= Len(haves) => at(n) \in J /\ Len(at(n).left) = Len(haves) - n}
<1>1. Len(haves) \in Nat /\ Seq(H) \subseteq Seq(Oid)
  OBVIOUS
<1>2. at(0) = [kept |-> <<>>, left |-> haves]
  BY Iterate
<1>3. \A n \in Nat : at(n + 1) = look[at(n)]
  <2>1. PICK f, x : f = look /\ x = [kept |-> <<>>, left |-> haves]
    OBVIOUS
  <2>2. \A n \in Nat : iterate(f, x, n + 1) = f[iterate(f, x, n)]
    BY Iterate
  <2> HIDE DEF look
  <2> QED
    BY <2>1, <2>2
<1>4. commonHaves(haves, there) = at(Len(haves)).kept
  BY DEF commonHaves
<1>5. ASSUME NEW w \in J, w.left # <<>>
      PROVE  look[w] \in J /\ Len(look[w].left) = Len(w.left) - 1
  <2>1. w \in [kept : Seq(Oid), left : Seq(Oid)]
    BY <1>1
  <2>2. Head(w.left) \in H /\ Tail(w.left) \in Seq(H) /\ Len(Tail(w.left)) = Len(w.left) - 1
    BY <1>5, HeadTailProperties
  <2>3. Append(w.kept, Head(w.left)) \in Seq(H)
    BY <2>2
  <2> QED
    BY <2>1, <2>2, <2>3
<1> HIDE DEF look, at
<1>6. 0 \in S
  <2>1. at(0) \in J
    <3>1. <<>> \in Seq(H)
      OBVIOUS
    <3>2. [kept |-> <<>>, left |-> haves] \in J
      BY <3>1
    <3> HIDE DEF J
    <3> QED
      BY <1>2, <3>2
  <2>2. Len(at(0).left) = Len(haves) - 0
    BY <1>1, <1>2
  <2> QED
    BY <2>1, <2>2
<1> HIDE DEF J
<1>7. ASSUME NEW n \in Nat, n \in S PROVE n + 1 \in S
  <2>1. SUFFICES ASSUME n + 1 <= Len(haves)
                 PROVE  at(n + 1) \in J /\ Len(at(n + 1).left) = Len(haves) - (n + 1)
    OBVIOUS
  <2>2. PICK w : w = at(n)
    OBVIOUS
  <2>3. w \in J /\ Len(w.left) = Len(haves) - n
    BY <1>1, <1>7, <2>1, <2>2
  <2>4. w.left # <<>>
    BY <1>1, <2>1, <2>3
  <2>5. look[w] \in J /\ Len(look[w].left) = Len(w.left) - 1
    BY <1>5, <2>3, <2>4
  <2> QED
    BY <1>1, <1>3, <2>2, <2>3, <2>5
<1>8. Nat \subseteq S
  BY <1>6, <1>7, NatSet
<1>9. at(Len(haves)) \in J
  BY <1>1, <1>8
<1> QED
  BY <1>4, <1>9 DEF J

\* The stop set is made of what its haves reach.
LEMMA StopSetIsHad ==
  ASSUME NEW H \in SUBSET Oid, Closed(H), NEW common \in Seq(H), NEW there, NEW pops \in Nat
  PROVE  stopSet(common, there, pops) \subseteq H
<1> DEFINE pop == [w \in [line : Seq(Oid), stop : SUBSET Oid, walked : Nat] |->
              LET oid == Head(w.line)
                  parent == Links[oid][2]
              IN  IF w.line = <<>> \/ w.walked = EnrichBudget THEN w
                  ELSE IF \/ Kind[oid] # "commit"
                          \/ Len(Links[oid]) < 2
                          \/ parent \in w.stop
                  THEN [w EXCEPT !.line = Tail(@)]
                  ELSE [line |-> Tail(w.line) \o (IF parent \in there THEN <<parent>> ELSE <<>>),
                        stop |-> w.stop \cup {parent},
                        walked |-> w.walked + 1]]
           start == [line |-> common, stop |-> Range(common), walked |-> 0]
           I == [line : Seq(H), stop : SUBSET H, walked : Nat]
<1>1. stopSet(common, there, pops) =
        IF Len(common) < EnrichBelow THEN iterate(pop, start, pops).stop ELSE Range(common)
  BY DEF stopSet
<1>2. Range(common) \subseteq H
  BY DEF Range
<1>3. start \in I
  BY <1>2
<1>4. ASSUME NEW w \in I PROVE pop[w] \in I
  <2>1. w \in [line : Seq(Oid), stop : SUBSET Oid, walked : Nat]
    OBVIOUS
  <2>2. CASE w.line = <<>> \/ w.walked = EnrichBudget
    BY <2>1, <2>2
  <2>3. CASE ~ (w.line = <<>> \/ w.walked = EnrichBudget)
    <3> DEFINE oid == Head(w.line)
               parent == Links[oid][2]
    <3>1. oid \in H /\ Tail(w.line) \in Seq(H)
      BY <2>3, HeadTailProperties
    <3>2. [w EXCEPT !.line = Tail(@)] \in I
      BY <3>1
    <3>3. ASSUME Kind[oid] = "commit", ~ (Len(Links[oid]) < 2) PROVE parent \in H
      <4>1. Links[oid] \in Seq(Oid \cup Gitlink) /\ Range(Links[oid]) \subseteq Oid
        BY <3>1, <3>3, GraphAssumption
      <4>2. parent \in Range(Links[oid])
        <5>1. Len(Links[oid]) \in Nat /\ DOMAIN Links[oid] = 1..Len(Links[oid])
          BY <4>1
        <5>2. 2 \in DOMAIN Links[oid]
          BY <3>3, <5>1
        <5> QED
          BY <5>2 DEF Range
      <4>3. parent \in linked(oid)
        BY <4>1, <4>2, GraphAssumption DEF linked
      <4> QED
        BY <3>1, <4>3 DEF Closed
    <3>4. ASSUME parent \in H
          PROVE  [line |-> Tail(w.line) \o (IF parent \in there THEN <<parent>> ELSE <<>>),
                  stop |-> w.stop \cup {parent},
                  walked |-> w.walked + 1] \in I
      <4>1. (IF parent \in there THEN <<parent>> ELSE <<>>) \in Seq(H)
        BY <3>4
      <4>2. Tail(w.line) \o (IF parent \in there THEN <<parent>> ELSE <<>>) \in Seq(H)
        BY <3>1, <4>1, ConcatProperties
      <4> QED
        BY <3>4, <4>2
    <3>5. pop[w] = IF \/ Kind[oid] # "commit"
                      \/ Len(Links[oid]) < 2
                      \/ parent \in w.stop
                   THEN [w EXCEPT !.line = Tail(@)]
                   ELSE [line |-> Tail(w.line) \o (IF parent \in there THEN <<parent>> ELSE <<>>),
                         stop |-> w.stop \cup {parent},
                         walked |-> w.walked + 1]
      BY <2>1, <2>3
    <3> HIDE DEF oid, parent, pop, I
    <3> QED
      BY <3>2, <3>3, <3>4, <3>5
  <2> QED
    BY <2>2, <2>3
<1> HIDE DEF pop, start, I
<1>5. iterate(pop, start, pops) \in I
  BY <1>3, <1>4, IterateStays
<1>6. iterate(pop, start, pops).stop \subseteq H
  BY <1>5 DEF I
<1> QED
  BY <1>1, <1>2, <1>6

\* What the plan reaches from the wants.
LEMMA PlanReaches ==
  ASSUME NEW wants \in SUBSET Oid, NEW stop, NEW there,
         NEW R, R = reachedFrom(wants, stop, there)
  PROVE  /\ R \in SUBSET Closure(wants)
         /\ wants \subseteq R
         /\ \A o \in (R \cap there) \ stop : linked(o) \subseteq R
<1> DEFINE visit == [S \in SUBSET (Oid \cup Gitlink) |->
                       S \cup UNION {packRefs(o) : o \in (S \cap there) \ stop}]
           N == iterate(visit, wants, Cardinality(Oid))
<1>1. R = N
  BY DEF reachedFrom
<1>2. \A S \in SUBSET Oid : visit[S] = S \cup UNION {linked(o) : o \in (S \cap there) \ stop}
  BY DEF packRefs, linked
<1> HIDE DEF visit
<1>3. \A S \in SUBSET Oid : S \subseteq visit[S] /\ visit[S] \subseteq Oid
  BY <1>2, LinkedAreOids
<1>4. IsFiniteSet(Oid) /\ Cardinality(Oid) \in Nat
  BY GraphAssumption, FS_CardinalityType
<1>5. N \in SUBSET Oid /\ wants \subseteq N /\ visit[N] = N
  BY <1>3, <1>4, Saturates
<1>6. \A S \in SUBSET Closure(wants) : visit[S] \in SUBSET Closure(wants)
  BY <1>2, ClosureIsClosed DEF Closed
<1>7. N \in SUBSET Closure(wants)
  BY <1>4, <1>6, ClosureIsClosed, IterateStays
<1>8. \A o \in (N \cap there) \ stop : linked(o) \subseteq N
  BY <1>2, <1>5
<1> HIDE DEF N
<1> QED
  BY <1>1, <1>5, <1>7, <1>8

LEMMA NeededIsReached ==
  ASSUME NEW wants \in SUBSET Oid, NEW stop, NEW there,
         NEW R, R = reachedFrom(wants, stop, there)
  PROVE  buildNeededOids(R, wants, stop, there) \subseteq Closure(wants)
BY PlanReaches, ClosureIsClosed DEF buildNeededOids

\* A plan whose objects are all there completes whoever has the stop set.
LEMMA NeededCompletes ==
  ASSUME NEW H \in SUBSET Oid, Closed(H), NEW wants \in SUBSET Oid, NEW stop \in SUBSET H,
         NEW there, NEW R, R = reachedFrom(wants, stop, there),
         NEW needed, needed = buildNeededOids(R, wants, stop, there),
         needed \subseteq there
  PROVE  Closure(wants) \subseteq H \cup needed
<1>1. /\ R \in SUBSET Closure(wants)
      /\ wants \subseteq R
      /\ \A o \in (R \cap there) \ stop : linked(o) \subseteq R
      /\ needed = (R \ stop) \cup (wants \ there)
  <2>1. needed = (R \ stop) \cup (wants \ there)
    BY DEF buildNeededOids
  <2> QED
    BY <2>1, PlanReaches
<1>2. R \subseteq H \cup needed /\ H \cup needed \in SUBSET Oid
  BY <1>1, ClosureIsClosed
<1>3. R \cup H \in SUBSET Oid /\ wants \subseteq R \cup H
  BY <1>1, <1>2
<1>4. Closed(R \cup H)
  <2>1. \A o \in H : linked(o) \subseteq H
    BY DEF Closed
  <2>2. ASSUME NEW o \in R, o \notin H PROVE linked(o) \subseteq R
    <3>1. o \in needed /\ o \notin stop /\ o \in there
      BY <1>1, <2>2
    <3> QED
      BY <1>1, <3>1
  <2> QED
    BY <2>1, <2>2 DEF Closed
<1> QED
  BY <1>2, <1>3, <1>4, ClosureIsLeast

-----------------------------------------------------------------------------
(***************************************************************************)
(* The inductive invariant.  A fetch keeps to what its client had, to      *)
(* packs that no step changes and to tips that were shown; while nothing   *)
(* was lost, all that was ever shown is stored, and so it was whenever a   *)
(* snapshot was taken.                                                     *)
(***************************************************************************)
Fetches == {NoFetch} \cup
    [phase : {"asking", "planning", "served", "fatal"}, wants : SUBSET Oid,
     haves : Seq(Oid), snapshot : SUBSET Nat, needed : SUBSET Oid]

Clone == [tips : SUBSET Oid, fetch : Fetches]

TypeOK ==
    /\ files \in Seq([objs : SUBSET Oid, refs : BOOLEAN])
    /\ catalog \in Seq(DOMAIN files)
    /\ refs \in [Ref -> Oid \cup {NoOid}]
    /\ shown \in SUBSET Oid
    /\ client \in [Client -> Clone]
    /\ spent \in [pushes : Nat, compactions : Nat, faults : Nat]

objsOf(packs, store) == UNION {store[p].objs : p \in packs}

\* A fetch of a client with these tips, when these packs were ever stored, these
\* tips were ever shown, and so many faults have happened.
Right(f, tips, store, ever, faults) ==
    f # NoFetch =>
        LET there == objsOf(f.snapshot, store)
        IN  /\ f.snapshot \subseteq DOMAIN store
            /\ Range(f.haves) \subseteq Closure(tips)
            /\ f.wants \subseteq ever
            /\ faults = 0 /\ f.phase # "asking" => Closure(f.wants) \subseteq there
            /\ f.phase = "served" =>
                  IF f.haves = <<>> THEN f.needed = there
                  ELSE Closure(f.wants) \subseteq Closure(tips) \cup f.needed
            /\ f.phase \in {"served", "fatal"} /\ ~ f.needed \subseteq there =>
                  ~ Closure(f.wants) \subseteq there

FetchesRight ==
    \A c \in Client : Right(client[c].fetch, client[c].tips, files, shown, spent.faults)

ShownWhole == spent.faults = 0 => Closure(shown) \subseteq Stored

IInv == TypeOK /\ TipsConnected /\ ShownWhole /\ FetchesRight

LEMMA ObjectsOfFiles == \A packs : objectsOf(packs) = objsOf(packs, files)
BY DEF objectsOf, objsOf

LEMMA PacksHoldOids ==
  ASSUME TypeOK
  PROVE  /\ \A packs \in SUBSET DOMAIN files : objectsOf(packs) \in SUBSET Oid
         /\ Range(catalog) \in SUBSET DOMAIN files
         /\ DOMAIN files \in SUBSET Nat
         /\ Stored \in SUBSET Oid
<1>1. files \in Seq([objs : SUBSET Oid, refs : BOOLEAN]) /\ catalog \in Seq(DOMAIN files)
  BY DEF TypeOK
<1>2. \A p \in DOMAIN files : files[p].objs \in SUBSET Oid /\ p \in Nat
  <2>1. DOMAIN files = 1..Len(files) /\ Len(files) \in Nat
    BY <1>1, LenProperties
  <2>2. ASSUME NEW p \in DOMAIN files PROVE files[p] \in [objs : SUBSET Oid, refs : BOOLEAN]
    BY <1>1, <2>1, ElementOfSeq
  <2> QED
    BY <2>1, <2>2
<1>3. Range(catalog) \in SUBSET DOMAIN files
  BY <1>1 DEF Range
<1>4. \A packs \in SUBSET DOMAIN files : objectsOf(packs) \in SUBSET Oid
  BY <1>2 DEF objectsOf
<1> QED
  BY <1>2, <1>3, <1>4 DEF Stored

-----------------------------------------------------------------------------
(* What the steps of clients keep *)

LEMMA RightKept ==
  ASSUME NEW f, NEW tips, NEW store, NEW later, NEW ever, NEW evermore, NEW faults, NEW more,
         Right(f, tips, store, ever, faults),
         DOMAIN store \subseteq DOMAIN later,
         \A p \in DOMAIN store : later[p].objs = store[p].objs,
         ever \subseteq evermore,
         more = 0 => faults = 0
  PROVE  Right(f, tips, later, evermore, more)
<1>1. CASE f = NoFetch
  BY <1>1 DEF Right
<1>2. CASE f # NoFetch
  <2>1. f.snapshot \subseteq DOMAIN store
    BY <1>2 DEF Right
  <2>2. objsOf(f.snapshot, later) = objsOf(f.snapshot, store)
    BY <2>1 DEF objsOf
  <2> QED
    BY <1>2, <2>1, <2>2 DEF Right
<1> QED
  BY <1>1, <1>2

LEMMA ClientMoves ==
  ASSUME client \in [Client -> Clone], FetchesRight, files' = files, shown' = shown,
         spent'.faults = 0 => spent.faults = 0,
         NEW c \in Client, NEW m \in Clone, client' = [client EXCEPT ![c] = m],
         Right(m.fetch, m.tips, files, shown, spent.faults)
  PROVE  client' \in [Client -> Clone] /\ FetchesRight'
<1>1. client' \in [Client -> Clone]
  BY Zenon
<1>2. client'[c] = m /\ \A d \in Client : d # c => client'[d] = client[d]
  OBVIOUS
<1>3. ASSUME NEW d \in Client
      PROVE  Right(client'[d].fetch, client'[d].tips, files', shown', spent'.faults)
  <2>1. PICK f, tips : f = client'[d].fetch /\ tips = client'[d].tips
    OBVIOUS
  <2>2. Right(f, tips, files, shown, spent.faults)
    BY <1>2, <2>1 DEF FetchesRight
  <2>3. Right(f, tips, files', shown', spent'.faults)
    BY <2>2, RightKept
  <2> QED
    BY <2>1, <2>3
<1> QED
  BY <1>1, <1>3 DEF FetchesRight

LEMMA FetchMoves ==
  ASSUME client \in [Client -> Clone], FetchesRight, files' = files, shown' = shown,
         spent'.faults = 0 => spent.faults = 0,
         NEW c \in Client, NEW f \in Fetches, client' = [client EXCEPT ![c].fetch = f],
         Right(f, client[c].tips, files, shown, spent.faults)
  PROVE  client' \in [Client -> Clone] /\ FetchesRight'
<1>1. client[c] \in Clone
  OBVIOUS
<1>2. PICK m : m = [client[c] EXCEPT !.fetch = f]
  OBVIOUS
<1>3. m \in Clone /\ m.fetch = f /\ m.tips = client[c].tips
  BY <1>1, <1>2 DEF Clone
<1>4. client' = [client EXCEPT ![c] = m]
  BY <1>2, Zenon
<1>5. Right(m.fetch, m.tips, files, shown, spent.faults)
  BY <1>3
<1> QED
  BY <1>3, <1>4, <1>5, ClientMoves

\* The fetch under way.
LEMMA UnderWay ==
  ASSUME TypeOK, NEW c \in Client, NEW f, f = client[c].fetch, f.phase # "none"
  PROVE  /\ f \in [phase : {"asking", "planning", "served", "fatal"}, wants : SUBSET Oid,
                   haves : Seq(Oid), snapshot : SUBSET Nat, needed : SUBSET Oid]
         /\ f # NoFetch
         /\ client[c].tips \in SUBSET Oid
<1>1. client[c] \in Clone
  BY DEF TypeOK
<1>2. f \in Fetches /\ client[c].tips \in SUBSET Oid
  BY <1>1 DEF Clone
<1>3. f # NoFetch
  BY DEF NoFetch
<1> QED
  BY <1>2, <1>3 DEF Fetches

LEMMA NegotiateRight ==
  ASSUME TypeOK, FetchesRight, NEW c \in Client, negotiate(c)
  PROVE  client' \in [Client -> Clone] /\ FetchesRight'
<1>1. PICK wants \in SUBSET (advertised \ Has(c)) \ {{}}, offer \in offers(c) :
        \E haves \in {offer, commonHaves(offer, Stored)} :
            client' = [client EXCEPT ![c].fetch =
                [phase |-> "asking", wants |-> wants, haves |-> haves,
                 snapshot |-> {}, needed |-> {}]]
  BY DEF negotiate
<1>2. PICK haves \in {offer, commonHaves(offer, Stored)} :
            client' = [client EXCEPT ![c].fetch =
                [phase |-> "asking", wants |-> wants, haves |-> haves,
                 snapshot |-> {}, needed |-> {}]]
  BY <1>1
<1>3. client[c] \in Clone /\ client[c].tips \in SUBSET Oid
  BY DEF TypeOK, Clone
<1>4. Has(c) \in SUBSET Oid
  BY <1>3, ClosureIsClosed DEF Has
<1>5. offer \in Seq(Has(c))
  <2>1. PICK m \in 0..HaveCap : offer \in [1..m -> Points \cap Has(c)]
    BY DEF offers, SeqOf
  <2>2. m \in Nat
    BY LimitAssumption
  <2> QED
    BY <2>1, <2>2
<1>6. haves \in Seq(Has(c))
  BY <1>2, <1>4, <1>5, CommonHaves
<1>7. Range(haves) \subseteq Has(c) /\ haves \in Seq(Oid)
  BY <1>4, <1>6 DEF Range
<1>8. wants \in SUBSET Oid /\ wants \subseteq shown
  BY DEF advertised, TypeOK
<1>9. PICK f : f = [phase |-> "asking", wants |-> wants, haves |-> haves,
                    snapshot |-> {}, needed |-> {}]
  OBVIOUS
<1>10. f \in Fetches
  BY <1>7, <1>8, <1>9 DEF Fetches
<1>11. Right(f, client[c].tips, files, shown, spent.faults)
  BY <1>7, <1>8, <1>9 DEF Right, Has
<1>12. UNCHANGED <<files, shown, spent>> /\ client' = [client EXCEPT ![c].fetch = f]
  BY <1>2, <1>9 DEF negotiate
<1> QED
  BY <1>10, <1>11, <1>12, FetchMoves DEF TypeOK

LEMMA LoadSnapshotRight ==
  ASSUME TypeOK, FetchesRight, ShownWhole, NEW c \in Client, loadUploadPackSnapshot(c)
  PROVE  client' \in [Client -> Clone] /\ FetchesRight'
<1>1. PICK f : f = client[c].fetch
  OBVIOUS
<1>2. PICK g : g = [f EXCEPT !.phase = "planning", !.snapshot = Range(catalog)]
  OBVIOUS
<1>3. /\ f.phase = "asking" /\ UNCHANGED <<files, shown, spent>>
      /\ client' = [client EXCEPT ![c].fetch = g]
  BY <1>1, <1>2 DEF loadUploadPackSnapshot
<1>4. /\ f \in [phase : {"asking", "planning", "served", "fatal"}, wants : SUBSET Oid,
                haves : Seq(Oid), snapshot : SUBSET Nat, needed : SUBSET Oid]
      /\ f # NoFetch
  BY <1>1, <1>3, UnderWay
<1>5. Range(catalog) \subseteq DOMAIN files /\ Range(catalog) \in SUBSET Nat
  BY PacksHoldOids
<1>6. /\ g \in Fetches /\ g.phase = "planning" /\ g.snapshot = Range(catalog)
      /\ g.haves = f.haves /\ g.wants = f.wants
  BY <1>2, <1>4, <1>5 DEF Fetches
<1>7. Range(f.haves) \subseteq Closure(client[c].tips) /\ f.wants \subseteq shown
  BY <1>1, <1>4 DEF FetchesRight, Right
<1>8. spent.faults = 0 => Closure(f.wants) \subseteq objsOf(g.snapshot, files)
  <2>1. Closure(f.wants) \subseteq Closure(shown)
    BY <1>7 DEF Closure
  <2>2. Stored = objsOf(g.snapshot, files)
    BY <1>6, ObjectsOfFiles DEF Stored
  <2> QED
    BY <2>1, <2>2 DEF ShownWhole
<1>9. Right(g, client[c].tips, files, shown, spent.faults)
  BY <1>5, <1>6, <1>7, <1>8 DEF Right
<1> QED
  BY <1>3, <1>6, <1>9, FetchMoves DEF TypeOK

\* The client is told to try again.
LEMMA RetryRight ==
  ASSUME TypeOK, FetchesRight, NEW c \in Client, NEW f, f = client[c].fetch,
         f.phase = "planning", files' = files, shown' = shown,
         spent'.faults = 0 => spent.faults = 0,
         client' = [client EXCEPT ![c].fetch = [f EXCEPT !.phase = "asking"]]
  PROVE  client' \in [Client -> Clone] /\ FetchesRight'
<1>1. PICK g : g = [f EXCEPT !.phase = "asking"]
  OBVIOUS
<1>2. /\ f \in [phase : {"asking", "planning", "served", "fatal"}, wants : SUBSET Oid,
                haves : Seq(Oid), snapshot : SUBSET Nat, needed : SUBSET Oid]
      /\ f # NoFetch
  BY UnderWay
<1>3. /\ g \in Fetches /\ g.phase = "asking"
      /\ g.snapshot = f.snapshot /\ g.haves = f.haves /\ g.wants = f.wants
  BY <1>1, <1>2 DEF Fetches
<1>4. /\ f.snapshot \subseteq DOMAIN files /\ Range(f.haves) \subseteq Closure(client[c].tips)
      /\ f.wants \subseteq shown
  BY <1>2 DEF FetchesRight, Right
<1>5. Right(g, client[c].tips, files, shown, spent.faults)
  BY <1>3, <1>4 DEF Right
<1> QED
  BY <1>1, <1>3, <1>5, FetchMoves DEF TypeOK

\* A plan is answered, if whatever it needs completes the client, or is wanted.
LEMMA AnsweredRight ==
  ASSUME TypeOK, FetchesRight, NEW c \in Client, NEW f, f = client[c].fetch,
         f.phase = "planning", files' = files, shown' = shown, spent' = spent,
         NEW needed \in SUBSET Oid,
         NEW g \in answered(f, needed),
         client' = [client EXCEPT ![c].fetch = g],
         IF f.haves = <<>> THEN needed = objectsOf(f.snapshot)
         ELSE /\ needed \subseteq objectsOf(f.snapshot) =>
                    Closure(f.wants) \subseteq Closure(client[c].tips) \cup needed
              /\ needed \subseteq Closure(f.wants)
  PROVE  client' \in [Client -> Clone] /\ FetchesRight'
<1>1. /\ f \in [phase : {"asking", "planning", "served", "fatal"}, wants : SUBSET Oid,
                haves : Seq(Oid), snapshot : SUBSET Nat, needed : SUBSET Oid]
      /\ f # NoFetch
  BY UnderWay
<1>2. /\ f.snapshot \subseteq DOMAIN files /\ Range(f.haves) \subseteq Closure(client[c].tips)
      /\ f.wants \subseteq shown
      /\ spent.faults = 0 => Closure(f.wants) \subseteq objsOf(f.snapshot, files)
  BY <1>1 DEF FetchesRight, Right
<1>3. \/ g = [f EXCEPT !.phase = "fatal", !.needed = needed]
      \/ /\ g = [f EXCEPT !.phase = "served", !.needed = needed]
         /\ needed \subseteq objectsOf(f.snapshot)
  BY DEF answered
<1>4. /\ g \in Fetches /\ g.needed = needed
      /\ g.snapshot = f.snapshot /\ g.haves = f.haves /\ g.wants = f.wants
      /\ g.phase \in {"served", "fatal"}
      /\ g.phase = "served" => needed \subseteq objectsOf(f.snapshot)
  BY <1>1, <1>3 DEF Fetches
<1>5. objectsOf(f.snapshot) = objsOf(f.snapshot, files)
  BY ObjectsOfFiles
<1>6. ~ needed \subseteq objsOf(f.snapshot, files) =>
          ~ Closure(f.wants) \subseteq objsOf(f.snapshot, files)
  BY <1>5
<1>7. g.phase = "served" =>
          IF f.haves = <<>> THEN needed = objsOf(f.snapshot, files)
          ELSE Closure(f.wants) \subseteq Closure(client[c].tips) \cup needed
  BY <1>4, <1>5
<1>8. Right(g, client[c].tips, files, shown, spent.faults)
  BY <1>2, <1>4, <1>6, <1>7 DEF Right
<1> QED
  BY <1>4, <1>8, FetchMoves DEF TypeOK

LEMMA CloneRight ==
  ASSUME TypeOK, FetchesRight, NEW c \in Client, buildInitialCloneNeeded(c)
  PROVE  client' \in [Client -> Clone] /\ FetchesRight'
<1>1. PICK f : f = client[c].fetch
  OBVIOUS
<1>2. /\ f.phase = "planning" /\ f.haves = <<>> /\ UNCHANGED <<files, shown, spent>>
      /\ \E g \in answered(f, objectsOf(f.snapshot)) : client' = [client EXCEPT ![c].fetch = g]
  BY <1>1 DEF buildInitialCloneNeeded
<1>3. f # NoFetch
  BY <1>1, <1>2, UnderWay
<1>4. f.snapshot \subseteq DOMAIN files
  BY <1>1, <1>3 DEF FetchesRight, Right
<1>5. objectsOf(f.snapshot) \in SUBSET Oid
  BY <1>4, PacksHoldOids
<1>6. PICK g \in answered(f, objectsOf(f.snapshot)) : client' = [client EXCEPT ![c].fetch = g]
  BY <1>2
<1> QED
  BY <1>1, <1>2, <1>5, <1>6, AnsweredRight

LEMMA PlanRight ==
  ASSUME TypeOK, FetchesRight, NEW c \in Client, planUploadPack(c)
  PROVE  client' \in [Client -> Clone] /\ FetchesRight'
<1> DEFINE f == client[c].fetch
           there == buildClosureIndex(f.snapshot)
           common == commonHaves(f.haves, there)
<1>1. f = client[c].fetch
  OBVIOUS
<1>2. there = buildClosureIndex(f.snapshot)
  OBVIOUS
<1>3. common = commonHaves(f.haves, there)
  OBVIOUS
<1>4. /\ f.phase = "planning" /\ f.haves # <<>> /\ UNCHANGED <<files, shown, spent>>
      /\ missingRefs(f.snapshot) = {}
      /\ \E stop \in {stopSet(common, there, n) : n \in 0 .. Len(common) + EnrichBudget} :
            \E g \in computeNeededFromPackRefs(f, stop, there) :
                client' = [client EXCEPT ![c].fetch = g]
  BY DEF planUploadPack
<1> HIDE DEF f, there, common
<1>5. /\ f \in [phase : {"asking", "planning", "served", "fatal"}, wants : SUBSET Oid,
                haves : Seq(Oid), snapshot : SUBSET Nat, needed : SUBSET Oid]
      /\ f # NoFetch
      /\ client[c].tips \in SUBSET Oid
  BY <1>1, <1>4, UnderWay
<1>6. PICK H : H = Closure(client[c].tips)
  OBVIOUS
<1>7. H \in SUBSET Oid /\ Closed(H)
  BY <1>5, <1>6, ClosureIsClosed
<1>8. f.snapshot \subseteq DOMAIN files /\ Range(f.haves) \subseteq H
  BY <1>1, <1>5, <1>6 DEF FetchesRight, Right
<1>9. there = objectsOf(f.snapshot)
  <2>1. {p \in f.snapshot : loadPackRefView(p)} = f.snapshot
    BY <1>4 DEF missingRefs
  <2> QED
    BY <1>2, <2>1 DEF buildClosureIndex
<1>10. f.haves \in Seq(H)
  BY <1>5, <1>8 DEF Range
<1>11. common \in Seq(H)
  BY <1>3, <1>7, <1>10, CommonHaves
<1>12. PICK n, stop, g :
            /\ n \in 0 .. Len(common) + EnrichBudget
            /\ stop = stopSet(common, there, n)
            /\ g \in computeNeededFromPackRefs(f, stop, there)
            /\ client' = [client EXCEPT ![c].fetch = g]
  BY <1>4
<1>13. stop \in SUBSET H
  <2>1. n \in Nat
    BY <1>11, <1>12, LimitAssumption
  <2> QED
    BY <1>7, <1>11, <1>12, <2>1, StopSetIsHad
<1>14. PICK R, needed : /\ R = reachedFrom(f.wants, stop, there)
                        /\ needed = buildNeededOids(R, f.wants, stop, there)
  OBVIOUS
<1>15. g = [f EXCEPT !.phase = "asking"] \/ g \in answered(f, needed)
  BY <1>12, <1>14 DEF computeNeededFromPackRefs
<1>16. needed \subseteq Closure(f.wants) /\ Closure(f.wants) \in SUBSET Oid
  BY <1>5, <1>14, NeededIsReached, ClosureIsClosed
<1>17. needed \subseteq there => Closure(f.wants) \subseteq H \cup needed
  BY <1>5, <1>7, <1>13, <1>14, NeededCompletes
<1>18. CASE g = [f EXCEPT !.phase = "asking"]
  BY <1>1, <1>4, <1>12, <1>18, RetryRight
<1>19. CASE g \in answered(f, needed)
  BY <1>1, <1>4, <1>6, <1>9, <1>12, <1>16, <1>17, <1>19, AnsweredRight
<1> QED
  BY <1>15, <1>18, <1>19

LEMMA ReceiveRight ==
  ASSUME TypeOK, FetchesRight, NEW c \in Client, receivePack(c)
  PROVE  client' \in [Client -> Clone] /\ FetchesRight'
<1>1. PICK f, tips : f = client[c].fetch /\ tips = client[c].tips
  OBVIOUS
<1>2. PICK m : m = [fetch |-> NoFetch,
                    tips  |-> IF f.phase = "served" /\ Closure(f.wants) \subseteq Has(c) \cup f.needed
                              THEN heads(tips \cup f.wants) ELSE tips]
  OBVIOUS
<1>3. /\ f.phase \in {"served", "fatal"} /\ UNCHANGED <<files, shown, spent>>
      /\ client' = [client EXCEPT ![c] = m]
  <2>1. f.phase \in {"served", "fatal"} /\ UNCHANGED <<files, shown, spent>>
    BY <1>1 DEF receivePack
  <2>2. client' = [client EXCEPT ![c] = m]
    BY <1>1, <1>2, Zenon DEF receivePack
  <2> QED
    BY <2>1, <2>2
<1>4. f.wants \in SUBSET Oid /\ tips \in SUBSET Oid
  BY <1>1, <1>3, UnderWay
<1>5. heads(tips \cup f.wants) \in SUBSET Oid
  BY <1>4 DEF heads
<1>6. m \in Clone /\ m.fetch = NoFetch
  BY <1>2, <1>4, <1>5 DEF Clone, Fetches
<1>7. Right(m.fetch, m.tips, files, shown, spent.faults)
  BY <1>6 DEF Right
<1> QED
  BY <1>3, <1>6, <1>7, ClientMoves DEF TypeOK

-----------------------------------------------------------------------------
(* What the steps of the store keep *)

StoreKept ==
    /\ DOMAIN files \subseteq DOMAIN files'
    /\ \A p \in DOMAIN files : files'[p].objs = files[p].objs

LEMMA FetchesKept ==
  ASSUME FetchesRight, StoreKept, client' = client, shown \subseteq shown',
         spent'.faults = 0 => spent.faults = 0
  PROVE  FetchesRight'
<1>1. ASSUME NEW c \in Client
      PROVE  Right(client[c].fetch, client[c].tips, files', shown', spent'.faults)
  <2>1. Right(client[c].fetch, client[c].tips, files, shown, spent.faults)
    BY DEF FetchesRight
  <2> QED
    BY <2>1, RightKept DEF StoreKept
<1> QED
  BY <1>1 DEF FetchesRight

LEMMA TipsAreSeen ==
  TipsConnected <=> \A r \in Ref : refs[r] # NoOid => seen(refs[r], Stored)
BY DEF TipsConnected, seen

LEMMA SeenGrows ==
  ASSUME NEW oid, NEW there, NEW more, seen(oid, there), there \subseteq more
  PROVE  seen(oid, more)
BY DEF seen

LEMMA WholeIsSeen ==
  ASSUME NEW oid \in Oid, NEW there, Closure({oid}) \subseteq there
  PROVE  seen(oid, there)
<1>1. /\ Closure({oid}) \in SUBSET Oid /\ oid \in Closure({oid})
      /\ \A o \in Closure({oid}) : linked(o) \subseteq Closure({oid})
  BY ClosureIsClosed DEF Closed
<1>2. ASSUME NEW tag \in tagsFrom(oid) PROVE Links[tag][1] \in Closure({oid})
  <2>1. tag \in Closure({oid}) /\ tag \in Oid /\ Kind[tag] = "tag"
    BY <1>1 DEF tagsFrom
  <2>2. linked(tag) = {Links[tag][1]}
    BY <2>1, TagTarget
  <2> QED
    BY <1>1, <2>1, <2>2
<1>3. ASSUME NEW q \in Closure({oid}), Kind[q] = "commit"
      PROVE  Range(Links[q]) \subseteq Closure({oid})
  <2>1. q \in Oid /\ Range(Links[q]) \subseteq Oid
    BY <1>1, <1>3, GraphAssumption
  <2>2. linked(q) = Range(Links[q])
    BY <2>1, GraphAssumption DEF linked
  <2> QED
    BY <1>1, <1>3, <2>2
<1> QED
  BY <1>1, <1>2, <1>3 DEF seen

LEMMA ClosureOfUnion == \A S, T : Closure(S \cup T) = Closure(S) \cup Closure(T)
BY DEF Closure

LEMMA RangeOfConcat ==
  ASSUME NEW S, NEW s \in Seq(S), NEW t \in Seq(S)
  PROVE  Range(s \o t) = Range(s) \cup Range(t)
<1>1. PICK m \in Nat, n \in Nat : m = Len(s) /\ n = Len(t) /\ DOMAIN s = 1..m /\ DOMAIN t = 1..n
  BY LenProperties
<1>2. PICK u : u = s \o t
  OBVIOUS
<1>3. DOMAIN u = 1..(m + n) /\ \A i \in 1..(m + n) : u[i] = IF i <= m THEN s[i] ELSE t[i - m]
  BY <1>1, <1>2, ConcatProperties, LenProperties
<1>4. ASSUME NEW i \in 1..(m + n) PROVE u[i] \in Range(s) \cup Range(t)
  <2>1. CASE i <= m
    BY <1>1, <1>3, <2>1 DEF Range
  <2>2. CASE ~ (i <= m)
    <3>1. i - m \in 1..n /\ u[i] = t[i - m]
      BY <1>3, <2>2
    <3> QED
      BY <1>1, <3>1 DEF Range
  <2> QED
    BY <2>1, <2>2
<1>5. ASSUME NEW i \in 1..m PROVE s[i] \in Range(u)
  <2>1. i \in 1..(m + n) /\ u[i] = s[i]
    BY <1>3
  <2> QED
    BY <1>3, <2>1 DEF Range
<1>6. ASSUME NEW i \in 1..n PROVE t[i] \in Range(u)
  <2>1. i + m \in 1..(m + n) /\ ~ (i + m <= m) /\ (i + m) - m = i
    OBVIOUS
  <2>2. u[i + m] = t[i]
    BY <1>3, <2>1
  <2> QED
    BY <1>3, <2>1, <2>2 DEF Range
<1>7. Range(u) \subseteq Range(s) \cup Range(t)
  BY <1>3, <1>4 DEF Range
<1>8. Range(s) \subseteq Range(u)
  BY <1>1, <1>5 DEF Range
<1>9. Range(t) \subseteq Range(u)
  BY <1>1, <1>6 DEF Range
<1> QED
  BY <1>2, <1>7, <1>8, <1>9

LEMMA RangeOfSubSeq ==
  ASSUME NEW S, NEW s \in Seq(S), NEW m \in Nat, NEW n \in Nat, 1 <= m, n <= Len(s)
  PROVE  /\ SubSeq(s, m, n) \in Seq(S)
         /\ Range(SubSeq(s, m, n)) = {s[i] : i \in m..n}
<1>1. Len(s) \in Nat
  BY LenProperties
<1>2. \A i \in m..n : s[i] \in S
  <2>1. ASSUME NEW i \in m..n PROVE s[i] \in S
    <3>1. i \in 1..Len(s)
      BY <1>1
    <3> QED
      BY <3>1, ElementOfSeq
  <2> QED
    BY <2>1
<1>3. PICK u : u = SubSeq(s, m, n)
  OBVIOUS
<1>4. /\ u \in Seq(S) /\ Len(u) = IF m <= n THEN n - m + 1 ELSE 0
      /\ \A i \in 1..(n - m + 1) : u[i] = s[m + i - 1]
  BY <1>2, <1>3, SubSeqProperties
<1>5. DOMAIN u = 1..Len(u)
  BY <1>4, LenProperties
<1>6. ASSUME NEW i \in DOMAIN u PROVE u[i] \in {s[j] : j \in m..n}
  <2>1. i \in 1..(n - m + 1) /\ m + i - 1 \in m..n
    BY <1>4, <1>5, <1>6
  <2> QED
    BY <1>4, <2>1
<1>7. ASSUME NEW j \in m..n PROVE s[j] \in Range(u)
  <2>1. (j - m) + 1 \in 1..(n - m + 1) /\ m + ((j - m) + 1) - 1 = j /\ (j - m) + 1 \in DOMAIN u
    BY <1>4, <1>5
  <2>2. u[(j - m) + 1] = s[j]
    BY <1>4, <2>1
  <2> QED
    BY <2>1, <2>2 DEF Range
<1>8. Range(u) \subseteq {s[j] : j \in m..n}
  BY <1>6 DEF Range
<1>9. {s[j] : j \in m..n} \subseteq Range(u)
  BY <1>7
<1> QED
  BY <1>3, <1>4, <1>8, <1>9

\* A pack is appended to the files and put before the catalog.
LEMMA PackStored ==
  ASSUME TypeOK, NEW objs \in SUBSET Oid,
         files' = Append(files, [objs |-> objs, refs |-> TRUE]),
         catalog' = <<Len(files')>> \o catalog
  PROVE  /\ files' \in Seq([objs : SUBSET Oid, refs : BOOLEAN])
         /\ catalog' \in Seq(DOMAIN files')
         /\ StoreKept
         /\ Stored' = Stored \cup objs
<1>1. /\ files \in Seq([objs : SUBSET Oid, refs : BOOLEAN])
      /\ catalog \in Seq(DOMAIN files)
  BY DEF TypeOK
<1>2. PICK pack : pack = [objs |-> objs, refs |-> TRUE]
  OBVIOUS
<1>3. pack \in [objs : SUBSET Oid, refs : BOOLEAN] /\ pack.objs = objs
  BY <1>2
<1>4. files' = Append(files, pack)
  BY <1>2
<1>5. PICK n \in Nat : n = Len(files) /\ DOMAIN files = 1..n
  BY <1>1, LenProperties
<1>6. /\ files' \in Seq([objs : SUBSET Oid, refs : BOOLEAN])
      /\ Len(files') = n + 1 /\ DOMAIN files' = 1..(n + 1)
      /\ files'[n + 1] = pack
      /\ \A p \in 1..n : files'[p] = files[p]
  BY <1>1, <1>3, <1>4, <1>5
<1>7. StoreKept
  BY <1>5, <1>6 DEF StoreKept
<1>8. <<n + 1>> \in Seq(DOMAIN files') /\ catalog \in Seq(DOMAIN files')
  <2>1. n + 1 \in DOMAIN files' /\ DOMAIN files \subseteq DOMAIN files'
    BY <1>5, <1>6
  <2> QED
    BY <1>1, <2>1, SeqMonotonic
<1>9. catalog' = <<n + 1>> \o catalog
  BY <1>6
<1>10. catalog' \in Seq(DOMAIN files')
  BY <1>8, <1>9, ConcatProperties
<1>11. Range(catalog') = {n + 1} \cup Range(catalog)
  <2>1. Range(<<n + 1>>) = {n + 1}
    BY DEF Range
  <2>2. PICK u, D : u = <<n + 1>> /\ D = DOMAIN files'
    OBVIOUS
  <2>3. u \in Seq(D) /\ catalog \in Seq(D)
    BY <1>8, <2>2
  <2>4. Range(u \o catalog) = Range(u) \cup Range(catalog)
    BY <2>3, RangeOfConcat
  <2> QED
    BY <1>9, <2>1, <2>2, <2>4
<1>12. Range(catalog) \in SUBSET (1..n)
  BY <1>5, PacksHoldOids
<1>13. Stored' = UNION {files'[p].objs : p \in {n + 1} \cup Range(catalog)}
  BY <1>11 DEF Stored, objectsOf
<1>14. Stored = UNION {files[p].objs : p \in Range(catalog)}
  BY DEF Stored, objectsOf
<1>15. Stored' = Stored \cup objs
  BY <1>3, <1>6, <1>12, <1>13, <1>14
<1> QED
  BY <1>6, <1>7, <1>10, <1>15

LEMMA CompactKeeps ==
  ASSUME TypeOK, compact
  PROVE  /\ files' \in Seq([objs : SUBSET Oid, refs : BOOLEAN])
         /\ catalog' \in Seq(DOMAIN files')
         /\ StoreKept
         /\ Stored \subseteq Stored'
<1>1. PICK lo, hi \in DOMAIN catalog :
        /\ lo < hi
        /\ files' = Append(files, [objs |-> objectsOf(Range(SubSeq(catalog, lo, hi))),
                                   refs |-> TRUE])
        /\ catalog' = SubSeq(catalog, 1, lo - 1) \o <<Len(files')>>
                        \o SubSeq(catalog, hi + 1, Len(catalog))
  BY DEF compact
<1>2. /\ files \in Seq([objs : SUBSET Oid, refs : BOOLEAN])
      /\ catalog \in Seq(DOMAIN files)
  BY DEF TypeOK
<1>3. PICK k \in Nat : k = Len(catalog) /\ DOMAIN catalog = 1..k
  BY <1>2, LenProperties
<1>4. PICK n \in Nat : n = Len(files) /\ DOMAIN files = 1..n
  BY <1>2, LenProperties
<1>5. /\ lo \in Nat /\ hi \in Nat /\ lo - 1 \in Nat /\ hi + 1 \in Nat
      /\ 1 <= lo /\ lo - 1 <= k /\ hi <= k /\ 1 <= hi + 1
  <2>1. lo \in 1..k /\ hi \in 1..k
    BY <1>3
  <2> QED
    BY <2>1
<1>6. PICK before, middle, after :
        /\ before = SubSeq(catalog, 1, lo - 1)
        /\ middle = SubSeq(catalog, lo, hi)
        /\ after = SubSeq(catalog, hi + 1, k)
  OBVIOUS
<1>7. before \in Seq(DOMAIN files) /\ Range(before) = {catalog[i] : i \in 1..(lo - 1)}
  <2>1. PICK m, j, D : m = 1 /\ j = lo - 1 /\ D = DOMAIN files
    OBVIOUS
  <2>2. m \in Nat /\ j \in Nat /\ 1 <= m /\ j <= Len(catalog) /\ catalog \in Seq(D)
    BY <1>2, <1>3, <1>5, <2>1
  <2>3. SubSeq(catalog, m, j) \in Seq(D)
        /\ Range(SubSeq(catalog, m, j)) = {catalog[i] : i \in m..j}
    BY <2>2, RangeOfSubSeq
  <2> QED
    BY <1>6, <2>1, <2>3
<1>8. middle \in Seq(DOMAIN files) /\ Range(middle) = {catalog[i] : i \in lo..hi}
  <2>1. PICK m, j, D : m = lo /\ j = hi /\ D = DOMAIN files
    OBVIOUS
  <2>2. m \in Nat /\ j \in Nat /\ 1 <= m /\ j <= Len(catalog) /\ catalog \in Seq(D)
    BY <1>2, <1>3, <1>5, <2>1
  <2>3. SubSeq(catalog, m, j) \in Seq(D)
        /\ Range(SubSeq(catalog, m, j)) = {catalog[i] : i \in m..j}
    BY <2>2, RangeOfSubSeq
  <2> QED
    BY <1>6, <2>1, <2>3
<1>9. after \in Seq(DOMAIN files) /\ Range(after) = {catalog[i] : i \in (hi + 1)..k}
  <2>1. PICK m, j, D : m = hi + 1 /\ j = k /\ D = DOMAIN files
    OBVIOUS
  <2>2. m \in Nat /\ j \in Nat /\ 1 <= m /\ j <= Len(catalog) /\ catalog \in Seq(D)
    BY <1>2, <1>3, <1>5, <2>1
  <2>3. SubSeq(catalog, m, j) \in Seq(D)
        /\ Range(SubSeq(catalog, m, j)) = {catalog[i] : i \in m..j}
    BY <2>2, RangeOfSubSeq
  <2> QED
    BY <1>6, <2>1, <2>3
<1>10. Range(catalog) \subseteq Range(before) \cup Range(middle) \cup Range(after)
  <2>1. ASSUME NEW i \in 1..k
        PROVE  catalog[i] \in Range(before) \cup Range(middle) \cup Range(after)
    <3>1. i \in 1..(lo - 1) \/ i \in lo..hi \/ i \in (hi + 1)..k
      BY <1>5
    <3> QED
      BY <1>7, <1>8, <1>9, <3>1
  <2> QED
    BY <1>3, <2>1 DEF Range
<1>11. PICK objs : objs = objectsOf(Range(middle))
  OBVIOUS
<1>12. Range(middle) \in SUBSET DOMAIN files
  BY <1>8 DEF Range
<1>13. objs \in SUBSET Oid
  BY <1>11, <1>12, PacksHoldOids
<1>14. PICK pack : pack = [objs |-> objs, refs |-> TRUE]
  OBVIOUS
<1>15. pack \in [objs : SUBSET Oid, refs : BOOLEAN] /\ pack.objs = objs
  BY <1>13, <1>14
<1>16. files' = Append(files, pack)
  BY <1>1, <1>6, <1>11, <1>14
<1>17. /\ files' \in Seq([objs : SUBSET Oid, refs : BOOLEAN])
       /\ Len(files') = n + 1 /\ DOMAIN files' = 1..(n + 1)
       /\ files'[n + 1] = pack
       /\ \A p \in 1..n : files'[p] = files[p]
  BY <1>2, <1>4, <1>15, <1>16
<1>18. StoreKept
  BY <1>4, <1>17 DEF StoreKept
<1>19. /\ <<n + 1>> \in Seq(DOMAIN files')
       /\ before \in Seq(DOMAIN files') /\ after \in Seq(DOMAIN files')
  <2>1. n + 1 \in DOMAIN files' /\ DOMAIN files \subseteq DOMAIN files'
    BY <1>4, <1>17
  <2> QED
    BY <1>7, <1>9, <2>1, SeqMonotonic
<1>20. catalog' = before \o <<n + 1>> \o after
  BY <1>1, <1>3, <1>6, <1>17
<1>21. before \o <<n + 1>> \in Seq(DOMAIN files')
       /\ Range(before \o <<n + 1>>) = Range(before) \cup Range(<<n + 1>>)
  <2>1. PICK u, D : u = <<n + 1>> /\ D = DOMAIN files'
    OBVIOUS
  <2>2. u \in Seq(D) /\ before \in Seq(D)
    BY <1>19, <2>1
  <2>3. before \o u \in Seq(D) /\ Range(before \o u) = Range(before) \cup Range(u)
    BY <2>2, ConcatProperties, RangeOfConcat
  <2> QED
    BY <2>1, <2>3
<1>22. catalog' \in Seq(DOMAIN files')
       /\ Range(catalog') = Range(before \o <<n + 1>>) \cup Range(after)
  <2>1. PICK u : u = before \o <<n + 1>>
    OBVIOUS
  <2>2. u \in Seq(DOMAIN files') /\ after \in Seq(DOMAIN files')
    BY <1>19, <1>21, <2>1
  <2>3. u \o after \in Seq(DOMAIN files')
    BY <2>2, ConcatProperties
  <2>4. Range(u \o after) = Range(u) \cup Range(after)
    BY <2>2, RangeOfConcat
  <2> QED
    BY <1>20, <2>1, <2>3, <2>4
<1>23. Range(<<n + 1>>) = {n + 1}
  BY DEF Range
<1>24. Range(before) \cup Range(after) \cup {n + 1} \subseteq Range(catalog')
  BY <1>21, <1>22, <1>23
<1>25. objectsOf(Range(middle)) \subseteq Stored'
  <2>1. objs \subseteq Stored'
    BY <1>15, <1>17, <1>24 DEF Stored, objectsOf
  <2> QED
    BY <1>11, <2>1
<1>26. ASSUME NEW p \in Range(before) \cup Range(after) PROVE files[p].objs \subseteq Stored'
  <2>1. p \in 1..n
    BY <1>4, <1>7, <1>9 DEF Range
  <2>2. files'[p] = files[p] /\ p \in Range(catalog')
    BY <1>17, <1>24, <2>1
  <2> QED
    BY <2>2 DEF Stored, objectsOf
<1>27. ASSUME NEW p \in Range(middle) PROVE files[p].objs \subseteq Stored'
  BY <1>25 DEF objectsOf
<1>28. Stored \subseteq Stored'
  BY <1>10, <1>26, <1>27 DEF Stored, objectsOf
<1> QED
  BY <1>17, <1>18, <1>22, <1>28

LEMMA BackfillKeeps ==
  ASSUME TypeOK, NEW p \in DOMAIN files, endBackfill(p)
  PROVE  /\ files' \in Seq([objs : SUBSET Oid, refs : BOOLEAN])
         /\ catalog' \in Seq(DOMAIN files')
         /\ StoreKept
         /\ Stored' = Stored
<1>1. /\ files \in Seq([objs : SUBSET Oid, refs : BOOLEAN])
      /\ catalog \in Seq(DOMAIN files) /\ catalog' = catalog
  BY DEF TypeOK, endBackfill
<1>2. PICK n \in Nat : n = Len(files) /\ DOMAIN files = 1..n
  BY <1>1, LenProperties
<1>3. files[p] \in [objs : SUBSET Oid, refs : BOOLEAN]
  BY <1>1, <1>2, ElementOfSeq
<1>4. PICK pack : pack = [files[p] EXCEPT !.refs = TRUE]
  OBVIOUS
<1>5. pack \in [objs : SUBSET Oid, refs : BOOLEAN] /\ pack.objs = files[p].objs
  BY <1>3, <1>4
<1>6. files' = [files EXCEPT ![p] = pack]
  BY <1>4, Zenon DEF endBackfill
<1>7. /\ files' \in Seq([objs : SUBSET Oid, refs : BOOLEAN]) /\ Len(files') = Len(files)
      /\ \A q \in 1..n : files'[q] = IF q = p THEN pack ELSE files[q]
  BY <1>1, <1>2, <1>5, <1>6, ExceptSeq
<1>8. DOMAIN files' = DOMAIN files
  BY <1>6
<1>9. \A q \in DOMAIN files : files'[q].objs = files[q].objs
  BY <1>2, <1>5, <1>7
<1>10. Range(catalog) \in SUBSET DOMAIN files
  BY PacksHoldOids
<1>11. Stored' = Stored
  BY <1>1, <1>9, <1>10 DEF Stored, objectsOf
<1> QED
  BY <1>1, <1>7, <1>8, <1>9, <1>11 DEF StoreKept

-----------------------------------------------------------------------------
(* The invariant holds *)

LEMMA InitInv == Init => IInv
<1>1. SUFFICES ASSUME Init PROVE IInv
  OBVIOUS
<1>2. /\ shown = Range(refs) \cap Oid
      /\ client \in [Client -> [tips : {{}} \cup {{o} : o \in Points}, fetch : {NoFetch}]]
      /\ spent = [pushes |-> 0, compactions |-> 0, faults |-> 0]
  BY <1>1, Zenon DEF Init
<1>3. Legacy \in Oid /\ NoOid \notin Oid /\ {Legacy} \in SUBSET Oid
  BY GraphAssumption
<1>4. Closure({Legacy}) \in SUBSET Oid
  BY <1>3, ClosureIsClosed
<1>5. client \in [Client -> Clone] /\ FetchesRight
  <2>1. client \in [Client -> [tips : {{}} \cup {{o} : o \in Points}, fetch : {NoFetch}]]
    BY <1>2
  <2>2. {{}} \cup {{o} : o \in Points} \subseteq SUBSET Oid
    BY DEF Points
  <2>3. [tips : {{}} \cup {{o} : o \in Points}, fetch : {NoFetch}] \subseteq Clone
    BY <2>2 DEF Clone, Fetches
  <2>4. client \in [Client -> Clone]
    BY <2>1, <2>3
  <2>5. \A c \in Client : client[c].fetch = NoFetch
    BY <2>1
  <2> QED
    BY <2>4, <2>5 DEF FetchesRight, Right
<1>6. spent \in [pushes : Nat, compactions : Nat, faults : Nat]
  BY <1>2
<1>7. CASE files = <<>> /\ catalog = <<>> /\ refs = Nowhere
  <2>1. files \in Seq([objs : SUBSET Oid, refs : BOOLEAN]) /\ catalog \in Seq(DOMAIN files)
    BY <1>7
  <2>2. refs \in [Ref -> Oid \cup {NoOid}] /\ \A r \in Ref : refs[r] = NoOid
    BY <1>7 DEF Nowhere
  <2>3. shown = {}
    BY <1>2, <1>3, <2>2 DEF Range
  <2>4. Closure(shown) = {}
    BY <2>3 DEF Closure
  <2>5. TypeOK
    BY <1>5, <1>6, <2>1, <2>2, <2>3 DEF TypeOK
  <2>6. TipsConnected /\ ShownWhole
    BY <2>2, <2>4 DEF TipsConnected, ShownWhole
  <2> QED
    BY <1>5, <2>5, <2>6 DEF IInv
<1>8. ASSUME files = <<[objs |-> Closure({Legacy}), refs |-> FALSE]>>, catalog = << 1 >>,
             NEW r \in Ref, refs = [Nowhere EXCEPT ![r] = Legacy]
      PROVE  IInv
  <2>1. PICK pack : pack = [objs |-> Closure({Legacy}), refs |-> FALSE]
    OBVIOUS
  <2>2. pack \in [objs : SUBSET Oid, refs : BOOLEAN] /\ pack.objs = Closure({Legacy})
    BY <1>4, <2>1
  <2>3. files = <<pack>>
    BY <1>8, <2>1
  <2>4. files \in Seq([objs : SUBSET Oid, refs : BOOLEAN]) /\ DOMAIN files = {1} /\ files[1] = pack
    BY <2>2, <2>3
  <2>5. catalog \in Seq(DOMAIN files) /\ Range(catalog) = {1}
    BY <1>8, <2>4 DEF Range
  <2>6. Stored = Closure({Legacy})
    BY <2>2, <2>4, <2>5 DEF Stored, objectsOf
  <2>7. refs \in [Ref -> {NoOid, Legacy}]
    BY <1>8 DEF Nowhere
  <2>8. shown \in SUBSET {Legacy}
    BY <1>2, <1>3, <2>7 DEF Range
  <2>9. refs \in [Ref -> Oid \cup {NoOid}] /\ shown \in SUBSET Oid
    BY <1>3, <2>7, <2>8
  <2>10. TypeOK
    BY <1>5, <1>6, <2>4, <2>5, <2>9 DEF TypeOK
  <2>11. seen(Legacy, Stored)
    BY <1>3, <2>6, WholeIsSeen
  <2>12. TipsConnected
    BY <2>7, <2>11, TipsAreSeen
  <2>13. Closure(shown) \subseteq Closure({Legacy})
    BY <2>8 DEF Closure
  <2>14. ShownWhole
    BY <2>6, <2>13 DEF ShownWhole
  <2> QED
    BY <1>5, <2>10, <2>12, <2>14 DEF IInv
<1> QED
  <2>1. CASE /\ files = <<[objs |-> Closure({Legacy}), refs |-> FALSE]>>
             /\ catalog = <<1>>
             /\ refs \in {[Nowhere EXCEPT ![r] = Legacy] : r \in Ref}
    BY <1>8, <2>1
  <2> QED
    BY <1>1, <1>7, <2>1, Zenon DEF Init

LEMMA PushInv ==
  ASSUME IInv, NEW r \in Ref, NEW new \in Oid, push(r, new)
  PROVE  IInv'
<1>a. PICK whole \in {Closure({new}) \ Closure(base) : base \in SUBSET shown} :
        \E lost \in IF spent.faults < MaxFaults THEN SUBSET (whole \ Stored) ELSE {{}} :
            /\ connected(new, (whole \ lost) \cup Stored)
            /\ files' = Append(files, [objs |-> whole \ lost, refs |-> TRUE])
            /\ spent' = [spent EXCEPT !.pushes = @ + 1,
                                      !.faults = @ + IF lost = {} THEN 0 ELSE 1]
  BY DEF push
<1>b. PICK base \in SUBSET shown : whole = Closure({new}) \ Closure(base)
  BY <1>a
<1>c. (IF spent.faults < MaxFaults THEN SUBSET (whole \ Stored) ELSE {{}}) \subseteq SUBSET whole
  OBVIOUS
<1>1. PICK lost \in SUBSET whole :
            /\ connected(new, (whole \ lost) \cup Stored)
            /\ files' = Append(files, [objs |-> whole \ lost, refs |-> TRUE])
            /\ spent' = [spent EXCEPT !.pushes = @ + 1,
                                      !.faults = @ + IF lost = {} THEN 0 ELSE 1]
  BY <1>a, <1>c, Zenon
<1>2. /\ catalog' = <<Len(files')>> \o catalog /\ refs' = [refs EXCEPT ![r] = new]
      /\ shown' = shown \cup {new} /\ client' = client
  BY DEF push
<1>3. TypeOK /\ TipsConnected /\ ShownWhole /\ FetchesRight
  BY DEF IInv
<1>4. /\ refs \in [Ref -> Oid \cup {NoOid}] /\ shown \in SUBSET Oid
      /\ client \in [Client -> Clone]
      /\ spent \in [pushes : Nat, compactions : Nat, faults : Nat]
  BY <1>3 DEF TypeOK
<1>5. Closure({new}) \in SUBSET Oid
  BY ClosureIsClosed
<1>6. PICK objs \in SUBSET Oid : objs = whole \ lost
  BY <1>b, <1>5
<1>7. /\ files' \in Seq([objs : SUBSET Oid, refs : BOOLEAN])
      /\ catalog' \in Seq(DOMAIN files')
      /\ StoreKept
      /\ Stored' = Stored \cup objs
  BY <1>1, <1>2, <1>3, <1>6, PackStored
<1>8. PICK k \in {0, 1} : k = IF lost = {} THEN 0 ELSE 1
  OBVIOUS
<1>9. /\ spent' \in [pushes : Nat, compactions : Nat, faults : Nat]
      /\ spent'.faults = spent.faults + k
  <2>1. PICK m \in Nat, n \in Nat : m = spent.pushes + 1 /\ n = spent.faults + k
    BY <1>4, <1>8
  <2>2. spent' = [spent EXCEPT !.pushes = m, !.faults = n]
    BY <1>1, <1>8, <2>1, Zenon
  <2>3. spent' \in [pushes : Nat, compactions : Nat, faults : Nat] /\ spent'.faults = n
    BY <1>4, <2>2
  <2> QED
    BY <2>1, <2>3
<1>10. refs' \in [Ref -> Oid \cup {NoOid}] /\ shown' \in SUBSET Oid
  BY <1>2, <1>4
<1>11. TypeOK'
  BY <1>2, <1>4, <1>7, <1>9, <1>10 DEF TypeOK
<1>12. TipsConnected'
  <2>1. seen(new, Stored')
    BY <1>1, <1>6, <1>7, ConnectedIsSeen
  <2>2. ASSUME NEW q \in Ref, refs'[q] # NoOid PROVE seen(refs'[q], Stored')
    <3>1. CASE q = r
      BY <1>2, <1>4, <2>1, <3>1
    <3>2. CASE q # r
      <4>1. refs'[q] = refs[q]
        BY <1>2, <1>4, <3>2
      <4>2. seen(refs[q], Stored)
        BY <1>3, <2>2, <4>1, TipsAreSeen
      <4> QED
        BY <1>7, <4>1, <4>2, SeenGrows
    <3> QED
      BY <3>1, <3>2
  <2> QED
    BY <2>2 DEF TipsConnected, seen
<1>13. ShownWhole'
  <2>1. SUFFICES ASSUME spent'.faults = 0 PROVE Closure(shown') \subseteq Stored'
    BY DEF ShownWhole
  <2>2. spent.faults = 0 /\ lost = {}
    BY <1>4, <1>8, <1>9, <2>1
  <2>3. Closure(base) \subseteq Closure(shown) /\ Closure(shown) \subseteq Stored
    BY <1>3, <2>2 DEF ShownWhole, Closure
  <2>4. Closure({new}) \subseteq Stored'
    BY <1>b, <1>6, <1>7, <2>2, <2>3
  <2>5. Closure(shown') = Closure(shown) \cup Closure({new})
    BY <1>2, ClosureOfUnion
  <2> QED
    BY <1>7, <2>3, <2>4, <2>5
<1>14. FetchesRight'
  <2>1. spent'.faults = 0 => spent.faults = 0
    BY <1>4, <1>8, <1>9
  <2> QED
    BY <1>2, <1>3, <1>7, <2>1, FetchesKept
<1> QED
  BY <1>11, <1>12, <1>13, <1>14 DEF IInv

\* A step that moves no ref to an object and shows none keeps what is connected.
LEMMA StoredInv ==
  ASSUME IInv, StoreKept, Stored \subseteq Stored', shown' = shown,
         files' \in Seq([objs : SUBSET Oid, refs : BOOLEAN]),
         catalog' \in Seq(DOMAIN files'),
         refs' \in [Ref -> Oid \cup {NoOid}],
         \A r \in Ref : refs'[r] \in {NoOid, refs[r]},
         spent' \in [pushes : Nat, compactions : Nat, faults : Nat],
         spent.faults <= spent'.faults,
         client' \in [Client -> Clone], FetchesRight'
  PROVE  IInv'
<1>1. TypeOK /\ TipsConnected /\ ShownWhole
  BY DEF IInv
<1>2. shown \in SUBSET Oid /\ spent \in [pushes : Nat, compactions : Nat, faults : Nat]
  BY <1>1 DEF TypeOK
<1>3. TypeOK'
  BY <1>2 DEF TypeOK
<1>4. ASSUME NEW r \in Ref, refs'[r] # NoOid PROVE seen(refs'[r], Stored')
  <2>1. refs'[r] = refs[r]
    BY <1>4
  <2>2. seen(refs[r], Stored)
    BY <1>1, <1>4, <2>1, TipsAreSeen
  <2> QED
    BY <2>1, <2>2, SeenGrows
<1>5. TipsConnected'
  BY <1>4 DEF TipsConnected, seen
<1>6. spent'.faults = 0 => spent.faults = 0
  BY <1>2
<1>7. ShownWhole'
  BY <1>1, <1>6 DEF ShownWhole
<1> QED
  BY <1>3, <1>5, <1>7 DEF IInv

\* Steps of clients leave the store alone.
LEMMA ClientInv ==
  ASSUME IInv, UNCHANGED <<files, catalog, refs, shown>>,
         spent' \in [pushes : Nat, compactions : Nat, faults : Nat],
         spent.faults <= spent'.faults,
         client' \in [Client -> Clone], FetchesRight'
  PROVE  IInv'
<1>1. StoreKept
  BY DEF StoreKept
<1>2. Stored' = Stored
  BY DEF Stored, objectsOf
<1>3. /\ files' \in Seq([objs : SUBSET Oid, refs : BOOLEAN])
      /\ catalog' \in Seq(DOMAIN files')
      /\ refs' \in [Ref -> Oid \cup {NoOid}]
      /\ \A r \in Ref : refs'[r] \in {NoOid, refs[r]}
  BY DEF IInv, TypeOK
<1> QED
  BY <1>1, <1>2, <1>3, StoredInv

LEMMA FetchStepInv ==
  ASSUME IInv, NEW c \in Client,
         negotiate(c) \/ Fetch(c) \/ closureBudgetExceeded(c)
  PROVE  IInv'
<1>1. TypeOK /\ FetchesRight /\ ShownWhole
  BY DEF IInv
<1>2. /\ spent \in [pushes : Nat, compactions : Nat, faults : Nat]
      /\ spent.faults \in Nat
  BY <1>1 DEF TypeOK
<1>3. ASSUME UNCHANGED <<files, catalog, refs, shown, queue, spent>>,
             client' \in [Client -> Clone] /\ FetchesRight'
      PROVE  IInv'
  <2>1. spent' = spent /\ spent.faults <= spent'.faults
    BY <1>2, <1>3
  <2> QED
    BY <1>2, <1>3, <2>1, ClientInv
<1>4. CASE negotiate(c)
  BY <1>1, <1>3, <1>4, NegotiateRight DEF negotiate
<1>5. CASE loadUploadPackSnapshot(c)
  BY <1>1, <1>3, <1>5, LoadSnapshotRight DEF loadUploadPackSnapshot
<1>6. CASE buildInitialCloneNeeded(c)
  BY <1>1, <1>3, <1>6, CloneRight DEF buildInitialCloneNeeded
<1>7. CASE planUploadPack(c)
  BY <1>1, <1>3, <1>7, PlanRight DEF planUploadPack
<1>8. CASE receivePack(c)
  BY <1>1, <1>3, <1>8, ReceiveRight DEF receivePack
<1>9. CASE missingRefIndex(c)
  <2>1. PICK f : f = client[c].fetch
    OBVIOUS
  <2>2. /\ f.phase = "planning" /\ UNCHANGED <<files, catalog, refs, shown>>
        /\ client' = [client EXCEPT ![c].fetch = [f EXCEPT !.phase = "asking"]]
        /\ \E sent \in SUBSET missingRefs(f.snapshot) :
              spent' = [spent EXCEPT !.faults = @ + Cardinality(missingRefs(f.snapshot) \ sent)]
    BY <1>9, <2>1 DEF missingRefIndex
  <2>4. f.snapshot \subseteq DOMAIN files
    <3>1. f # NoFetch
      BY <1>1, <2>1, <2>2, UnderWay
    <3> QED
      BY <1>1, <2>1, <3>1 DEF FetchesRight, Right
  <2>5. PICK unsent : /\ unsent \subseteq f.snapshot
                      /\ spent' = [spent EXCEPT !.faults = @ + Cardinality(unsent)]
    <3>1. PICK sent : spent' = [spent EXCEPT !.faults =
                                  @ + Cardinality(missingRefs(f.snapshot) \ sent)]
      BY <2>2
    <3>2. missingRefs(f.snapshot) \ sent \subseteq f.snapshot
      BY DEF missingRefs
    <3> QED
      BY <3>1, <3>2
  <2>6. Cardinality(unsent) \in Nat
    <3>1. files \in Seq([objs : SUBSET Oid, refs : BOOLEAN])
      BY <1>1 DEF TypeOK
    <3>2. DOMAIN files = 1..Len(files) /\ Len(files) \in Nat
      BY <3>1, LenProperties
    <3>3. IsFiniteSet(DOMAIN files)
      BY <3>2, FS_Interval
    <3>4. IsFiniteSet(unsent)
      BY <2>4, <2>5, <3>3, FS_Subset
    <3> QED
      BY <3>4, FS_CardinalityType
  <2>7. spent' \in [pushes : Nat, compactions : Nat, faults : Nat] /\ spent.faults <= spent'.faults
    <3>1. PICK n \in Nat : n = spent.faults + Cardinality(unsent)
      BY <1>2, <2>6
    <3>2. spent' = [spent EXCEPT !.faults = n]
      BY <2>5, <3>1
    <3> QED
      BY <1>2, <2>6, <3>1, <3>2
  <2>8. spent'.faults = 0 => spent.faults = 0
    BY <1>2, <2>7
  <2>9. client' \in [Client -> Clone] /\ FetchesRight'
    BY <1>1, <2>1, <2>2, <2>8, RetryRight
  <2> QED
    BY <2>2, <2>7, <2>9, ClientInv
<1>10. CASE closureBudgetExceeded(c)
  <2>1. PICK f : f = client[c].fetch
    OBVIOUS
  <2>2. /\ f.phase = "planning" /\ UNCHANGED <<files, catalog, refs, shown>>
        /\ client' = [client EXCEPT ![c].fetch = [f EXCEPT !.phase = "asking"]]
        /\ spent' = [spent EXCEPT !.faults = @ + 1]
    BY <1>10, <2>1 DEF closureBudgetExceeded
  <2>3. spent' \in [pushes : Nat, compactions : Nat, faults : Nat] /\ spent.faults <= spent'.faults
    BY <1>2, <2>2
  <2>4. client' \in [Client -> Clone] /\ FetchesRight'
    <3>1. spent'.faults = 0 => spent.faults = 0
      BY <1>2, <2>3
    <3> QED
      BY <1>1, <2>1, <2>2, <3>1, RetryRight
  <2> QED
    BY <2>2, <2>3, <2>4, ClientInv
<1> QED
  BY <1>4, <1>5, <1>6, <1>7, <1>8, <1>9, <1>10 DEF Fetch

LEMMA StoreStepInv ==
  ASSUME IInv, (\E r \in Ref : deleteRef(r)) \/ compact \/ Backfill
               \/ (\E p \in DOMAIN files : failBackfill(p))
  PROVE  IInv'
<1>1. TypeOK /\ FetchesRight
  BY DEF IInv
<1>2. /\ spent \in [pushes : Nat, compactions : Nat, faults : Nat]
      /\ refs \in [Ref -> Oid \cup {NoOid}]
      /\ client \in [Client -> Clone]
      /\ files \in Seq([objs : SUBSET Oid, refs : BOOLEAN]) /\ catalog \in Seq(DOMAIN files)
  BY <1>1 DEF TypeOK
<1>3. ASSUME NEW r \in Ref, deleteRef(r) PROVE IInv'
  <2>1. /\ refs' = [refs EXCEPT ![r] = NoOid] /\ UNCHANGED <<files, catalog, shown, client>>
        /\ spent' = [spent EXCEPT !.pushes = @ + 1]
    BY <1>3 DEF deleteRef
  <2>2. refs' \in [Ref -> Oid \cup {NoOid}] /\ \A q \in Ref : refs'[q] \in {NoOid, refs[q]}
    BY <1>2, <2>1
  <2>3. spent' \in [pushes : Nat, compactions : Nat, faults : Nat] /\ spent.faults <= spent'.faults
    BY <1>2, <2>1
  <2>4. StoreKept /\ Stored' = Stored
    BY <2>1 DEF StoreKept, Stored, objectsOf
  <2>5. FetchesRight'
    <3>1. spent'.faults = 0 => spent.faults = 0
      BY <1>2, <2>3
    <3> QED
      BY <1>1, <2>1, <2>4, <3>1, FetchesKept
  <2> QED
    BY <1>2, <2>1, <2>2, <2>3, <2>4, <2>5, StoredInv
<1>4. ASSUME compact PROVE IInv'
  <2>1. /\ UNCHANGED <<refs, shown, client>>
        /\ spent' = [spent EXCEPT !.compactions = @ + 1]
    BY <1>4 DEF compact
  <2>2. /\ files' \in Seq([objs : SUBSET Oid, refs : BOOLEAN])
        /\ catalog' \in Seq(DOMAIN files')
        /\ StoreKept
        /\ Stored \subseteq Stored'
    BY <1>1, <1>4, CompactKeeps
  <2>3. spent' \in [pushes : Nat, compactions : Nat, faults : Nat] /\ spent.faults <= spent'.faults
    <3>1. spent.compactions + 1 \in Nat /\ spent.faults \in Nat
      BY <1>2
    <3>2. PICK n \in Nat : n = spent.compactions + 1
      BY <3>1
    <3>3. spent' = [spent EXCEPT !.compactions = n]
      BY <2>1, <3>2
    <3> QED
      BY <1>2, <3>1, <3>3
  <2>4. FetchesRight'
    <3>1. spent'.faults = 0 => spent.faults = 0
      BY <1>2, <2>3
    <3> QED
      BY <1>1, <2>1, <2>2, <3>1, FetchesKept
  <2> QED
    BY <1>2, <2>1, <2>2, <2>3, <2>4, StoredInv
<1>5. ASSUME NEW p \in DOMAIN files, endBackfill(p) PROVE IInv'
  <2>1. UNCHANGED <<catalog, refs, shown, client, spent>>
    BY <1>5 DEF endBackfill
  <2>2. /\ files' \in Seq([objs : SUBSET Oid, refs : BOOLEAN])
        /\ catalog' \in Seq(DOMAIN files')
        /\ StoreKept
        /\ Stored' = Stored
    BY <1>1, <1>5, BackfillKeeps
  <2>3. spent' \in [pushes : Nat, compactions : Nat, faults : Nat] /\ spent.faults <= spent'.faults
    BY <1>2, <2>1
  <2>4. FetchesRight'
    <3>1. spent'.faults = 0 => spent.faults = 0
      BY <1>2, <2>3
    <3> QED
      BY <1>1, <2>1, <2>2, <3>1, FetchesKept
  <2> QED
    BY <1>2, <2>1, <2>2, <2>3, <2>4, StoredInv
<1>6. ASSUME NEW p \in DOMAIN files, beginBackfill(p) \/ failBackfill(p) PROVE IInv'
  <2>1. /\ UNCHANGED <<files, catalog, refs, shown, client>>
        /\ spent' = spent \/ spent' = [spent EXCEPT !.faults = @ + 1]
    BY <1>6 DEF beginBackfill, failBackfill
  <2>2. spent' \in [pushes : Nat, compactions : Nat, faults : Nat] /\ spent.faults <= spent'.faults
    BY <1>2, <2>1
  <2>3. StoreKept
    BY <2>1 DEF StoreKept
  <2>4. FetchesRight'
    <3>1. spent'.faults = 0 => spent.faults = 0
      BY <1>2, <2>2
    <3> QED
      BY <1>1, <2>1, <2>3, <3>1, FetchesKept
  <2> QED
    BY <1>2, <2>1, <2>2, <2>4, ClientInv
<1> QED
  BY <1>3, <1>4, <1>5, <1>6 DEF Backfill

LEMMA StepInv == IInv /\ [Next]_vars => IInv'
<1>1. SUFFICES ASSUME IInv, [Next]_vars PROVE IInv'
  OBVIOUS
<1>2. CASE Next
  <2>1. \/ \E c \in Client : negotiate(c) \/ Fetch(c) \/ closureBudgetExceeded(c)
        \/ \E r \in Ref, new \in Oid : push(r, new)
        \/ (\E r \in Ref : deleteRef(r)) \/ compact \/ Backfill
           \/ (\E p \in DOMAIN files : failBackfill(p))
    BY <1>2 DEF Next
  <2> QED
    BY <1>1, <2>1, FetchStepInv, PushInv, StoreStepInv
<1>3. CASE UNCHANGED vars
  <2>1. UNCHANGED <<files, catalog, refs, shown, client, spent>>
    BY <1>3 DEF vars
  <2>2. TypeOK /\ FetchesRight
    BY <1>1 DEF IInv
  <2>3. StoreKept
    BY <2>1 DEF StoreKept
  <2>4. FetchesRight'
    BY <2>1, <2>2, <2>3, FetchesKept
  <2>5. /\ spent \in [pushes : Nat, compactions : Nat, faults : Nat]
        /\ client \in [Client -> Clone] /\ spent.faults \in Nat
    BY <2>2 DEF TypeOK
  <2>6. spent' \in [pushes : Nat, compactions : Nat, faults : Nat] /\ spent.faults <= spent'.faults
    BY <2>1, <2>5
  <2> QED
    BY <1>1, <2>1, <2>4, <2>5, <2>6, ClientInv
<1> QED
  BY <1>1, <1>2, <1>3

LEMMA Inductive == Spec => []IInv
<1>1. Init => IInv
  BY InitInv
<1>2. IInv /\ [Next]_vars => IInv'
  BY StepInv
<1> QED
  BY <1>1, <1>2, PTL DEF Spec

-----------------------------------------------------------------------------
\* A ref, the tags it leads through and the tree and parents of their commit are
\* in the active packs, whatever clients push and the compaction rewrites.
THEOREM TipsStayConnected == Spec => []TipsConnected
<1>1. IInv => TipsConnected
  BY DEF IInv
<1> QED
  BY <1>1, Inductive, PTL

\* As long as nothing is lost on a client, no push of a whole pack is refused,
\* whatever was shown before that the client left out.
THEOREM WholePushesPass == Spec => []WholePushesConnect
<1>1. IInv => WholePushesConnect
  <2>1. SUFFICES ASSUME IInv, spent.faults = 0, NEW new \in Points,
                        Cardinality(tagsFrom(new)) <= MaxTagDepth
                 PROVE  connected(new, Stored \cup (Closure({new}) \ Closure(shown)))
    BY DEF WholePushesConnect
  <2>2. Closure(shown) \subseteq Stored
    BY <2>1 DEF IInv, ShownWhole
  <2>3. Closure({new}) \subseteq Stored \cup (Closure({new}) \ Closure(shown))
    BY <2>2
  <2>4. new \in Oid
    BY DEF Points
  <2> QED
    BY <2>1, <2>3, <2>4, WholeIsConnected
<1> QED
  BY <1>1, Inductive, PTL

\* A fetch that is served leaves its client with all that the refs it wanted
\* reach, but for a clone, which lacks only what the repository lacks.
THEOREM ServedFetchesComplete == Spec => []FetchCompletes
<1>1. IInv => FetchCompletes
  <2>1. SUFFICES ASSUME IInv, NEW c \in Client, NEW f, f = client[c].fetch, f.phase = "served",
                        NEW lacking, lacking = Closure(f.wants) \ (Has(c) \cup f.needed)
                 PROVE  IF f.haves = <<>> THEN lacking \cap objectsOf(f.snapshot) = {}
                        ELSE lacking = {}
    BY DEF FetchCompletes
  <2>2. f # NoFetch
    BY <2>1 DEF NoFetch
  <2>3. IF f.haves = <<>> THEN f.needed = objectsOf(f.snapshot)
        ELSE Closure(f.wants) \subseteq Closure(client[c].tips) \cup f.needed
    BY <2>1, <2>2, ObjectsOfFiles DEF IInv, FetchesRight, Right
  <2> QED
    BY <2>1, <2>3 DEF Has
<1> QED
  BY <1>1, Inductive, PTL

\* No plan asks the rewriter for an object that its snapshot lacks, unless a client
\* had lost objects and something that the wants reach is missing.
THEOREM PlansFindObjects == Spec => []PlansFindTheirObjects
<1>1. IInv => PlansFindTheirObjects
  <2>1. SUFFICES ASSUME IInv, NEW c \in Client, NEW f, f = client[c].fetch,
                        f.phase \in {"served", "fatal"},
                        ~ f.needed \subseteq objectsOf(f.snapshot)
                 PROVE  spent.faults > 0 /\ ~ Closure(f.wants) \subseteq objectsOf(f.snapshot)
    BY DEF PlansFindTheirObjects
  <2>2. f # NoFetch /\ f.phase # "asking"
    BY <2>1 DEF NoFetch
  <2>3. /\ ~ Closure(f.wants) \subseteq objectsOf(f.snapshot)
        /\ spent.faults = 0 => Closure(f.wants) \subseteq objectsOf(f.snapshot)
    BY <2>1, <2>2, ObjectsOfFiles DEF IInv, FetchesRight, Right
  <2>4. spent.faults \in Nat
    BY <2>1 DEF IInv, TypeOK
  <2> QED
    BY <2>3, <2>4
<1> QED
  BY <1>1, Inductive, PTL
=============================================================================
