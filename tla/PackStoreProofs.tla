------------------------- MODULE PackStoreProofs -------------------------
(***************************************************************************)
(* Proofs about what pushes, compactions, backfills, fetches and reads make *)
(* of a repository's packs, for every set of objects and every bound.      *)
(***************************************************************************)
EXTENDS PackStore, SequenceTheorems, WellFoundedInduction, TLAPS

-----------------------------------------------------------------------------
(* Numbers and positions *)

\* A set of numbers that is not empty has a least element.
LEMMA LeastNat ==
  ASSUME NEW S \in SUBSET Nat, S # {}
  PROVE  \E x \in S : \A y \in S : x <= y
<1>1. PICK x \in S : \A y \in S : ~ (<<y, x>> \in OpToRel(<, Nat))
  BY NatLessThanWellFounded, WFMin
<1>2. \A y \in S : x <= y
  <2> TAKE y \in S
  <2>1. y \in Nat /\ x \in Nat
    OBVIOUS
  <2>2. y < x => <<y, x>> \in OpToRel(<, Nat)
    BY <2>1 DEF OpToRel
  <2>3. ~(y < x)
    BY <1>1, <2>2
  <2> QED
    BY <2>1, <2>3
<1> QED
  BY <1>2

\* Induction, about the set of numbers that have a property.
LEMMA NatSet ==
  ASSUME NEW S, 0 \in S, \A n \in Nat : n \in S => n + 1 \in S
  PROVE  Nat \subseteq S
<1>1. SUFFICES ASSUME Nat \ S # {} PROVE FALSE
  OBVIOUS
<1>2. PICK x \in Nat \ S : \A y \in Nat \ S : x <= y
  BY <1>1, LeastNat
<1>3. x \in Nat /\ x # 0
  BY <1>2
<1>4. x - 1 \in Nat /\ x - 1 < x /\ (x - 1) + 1 = x
  BY <1>3
<1>5. x - 1 \in S
  BY <1>2, <1>4
<1> QED
  BY <1>2, <1>4, <1>5

\* A set of positions that is not empty has a first one, whatever it is called.
LEMMA FirstBy ==
  ASSUME NEW S, S # {}, NEW at, \A s \in S : at[s] \in Nat \X Nat
  PROVE  \E s \in S : \A r \in S : ~Before(at[r], at[s])
<1> DEFINE rank1 == {at[s][1] : s \in S}
<1>1. rank1 \in SUBSET Nat /\ rank1 # {}
  OBVIOUS
<1>2. PICK p \in rank1 : \A q \in rank1 : p <= q
  BY <1>1, LeastNat
<1> DEFINE front == {s \in S : at[s][1] = p}
           rank2 == {at[s][2] : s \in front}
<1>3. rank2 \in SUBSET Nat /\ rank2 # {}
  BY <1>2
<1>4. PICK i \in rank2 : \A j \in rank2 : i <= j
  BY <1>3, LeastNat
<1>5. PICK s \in front : at[s][2] = i
  BY <1>4
<1>6. ASSUME NEW r \in S PROVE ~Before(at[r], at[s])
  <2>1. at[r][1] \in Nat /\ at[r][2] \in Nat /\ at[s][1] = p /\ at[s][2] = i /\ p \in Nat /\ i \in Nat
    BY <1>1, <1>2, <1>3, <1>4, <1>5
  <2>2. p <= at[r][1]
    BY <1>2
  <2>3. at[r][1] = p => i <= at[r][2]
    BY <1>4
  <2> QED
    BY <2>1, <2>2, <2>3 DEF Before
<1> QED
  BY <1>5, <1>6

LEMMA FirstIn ==
  ASSUME NEW S, S # {}, S \subseteq Nat \X Nat
  PROVE  First(S) \in S
<1> DEFINE at == [s \in S |-> s]
<1>1. PICK s \in S : \A r \in S : ~Before(at[r], at[s])
  <2>1. \A s \in S : at[s] \in Nat \X Nat
    OBVIOUS
  <2> HIDE DEF at
  <2> QED
    BY <2>1, FirstBy
<1>2. ASSUME NEW r \in S \ {s} PROVE Before(s, r)
  <2>1. ~Before(r, s)
    BY <1>1
  <2>2. s \in Nat \X Nat /\ r \in Nat \X Nat /\ r # s
    OBVIOUS
  <2>3. s = <<s[1], s[2]>> /\ r = <<r[1], r[2]>> /\ s[1] \in Nat /\ s[2] \in Nat /\ r[1] \in Nat /\ r[2] \in Nat
    BY <2>2
  <2> QED
    BY <2>1, <2>2, <2>3 DEF Before
<1> QED
  BY <1>1, <1>2 DEF First

-----------------------------------------------------------------------------
(* Entries and what decodes *)

Entry == [oid : Oid, ofs : Nat, ref : Oid \cup {NoOid}]

\* An OFS_DELTA's base comes before it, and no entry is a delta of its own object.
SoundPack(pack) ==
    /\ pack \in Seq(Entry)
    /\ \A i \in DOMAIN pack : /\ pack[i].ofs < i
                              /\ pack[i].ofs = 0 \/ pack[i].ref = NoOid
                              /\ pack[i].ref # pack[i].oid

\* A pack that decodes when its thin bases are at hand.
GoodPack(pack) ==
    /\ SoundPack(pack)
    /\ \A i, j \in DOMAIN pack : pack[i].oid = pack[j].oid => i = j
    /\ grounded(pack) = DOMAIN pack

\* Beyond the m-th pack, thin bases are found in packs further on.
Standing(packs, m) ==
    \A p \in DOMAIN packs : p > m =>
        /\ GoodPack(packs[p])
        /\ \A i \in DOMAIN packs[p] :
              packs[p][i].ref \in {NoOid} \cup Oids(packs[p])
                                  \cup UNION {Oids(packs[q]) : q \in {r \in DOMAIN packs : r > p}}

LEMMA PositionIn ==
  ASSUME NEW packs, NEW p \in DOMAIN packs, NEW i \in DOMAIN packs[p]
  PROVE  <<p, i>> \in Positions(packs) /\ EntryAt(packs, <<p, i>>) = packs[p][i]
<1>1. <<p, i>> \in {p} \X DOMAIN packs[p]
  OBVIOUS
<1> QED
  BY <1>1 DEF Positions, EntryAt

LEMMA PositionParts ==
  ASSUME NEW packs \in Seq(Seq(Entry)), NEW pos \in Positions(packs)
  PROVE  /\ pos[1] \in DOMAIN packs /\ pos[2] \in DOMAIN packs[pos[1]]
         /\ pos = <<pos[1], pos[2]>>
         /\ pos[1] \in Nat \ {0} /\ pos[2] \in Nat \ {0}
         /\ pos \in Nat \X Nat /\ pos # NoPos
         /\ EntryAt(packs, pos) = packs[pos[1]][pos[2]]
         /\ EntryAt(packs, pos) \in Entry
<1>1. PICK p \in DOMAIN packs : pos \in {p} \X DOMAIN packs[p]
  BY DEF Positions
<1>2. pos[1] = p /\ pos[2] \in DOMAIN packs[p] /\ pos = <<pos[1], pos[2]>>
  BY <1>1
<1>3. packs[p] \in Seq(Entry) /\ p \in Nat \ {0}
  OBVIOUS
<1>4. pos[2] \in Nat \ {0} /\ packs[p][pos[2]] \in Entry
  BY <1>2, <1>3
<1>5. pos # NoPos
  BY <1>2, <1>3 DEF NoPos
<1> QED
  BY <1>2, <1>3, <1>4, <1>5 DEF EntryAt

LEMMA DecodableIn ==
  ASSUME NEW packs, NEW q \in Positions(packs),
         \A S \in SUBSET Positions(packs) : decodesFrom(packs, S) \subseteq S => q \in S
  PROVE  q \in Decodable(packs)
<1>1. decodesFrom(packs, Positions(packs)) \subseteq Positions(packs)
  BY DEF decodesFrom
<1> QED
  BY <1>1 DEF Decodable, Least

LEMMA DecodableOut ==
  ASSUME NEW packs, NEW S \in SUBSET Positions(packs), decodesFrom(packs, S) \subseteq S
  PROVE  Decodable(packs) \subseteq S
BY DEF Decodable, Least

LEMMA DecodableType ==
  ASSUME NEW packs
  PROVE  Decodable(packs) \subseteq Positions(packs)
BY DEF Decodable, Least

LEMMA GroundedOut ==
  ASSUME NEW pack, NEW S \in SUBSET DOMAIN pack, groundedFrom(pack, S) \subseteq S
  PROVE  grounded(pack) \subseteq S
BY DEF grounded, Least

LEMMA GroundedIn ==
  ASSUME NEW pack, NEW i \in DOMAIN pack,
         \A S \in SUBSET DOMAIN pack : groundedFrom(pack, S) \subseteq S => i \in S
  PROVE  i \in grounded(pack)
<1>1. groundedFrom(pack, DOMAIN pack) \subseteq DOMAIN pack
  BY DEF groundedFrom
<1> QED
  BY <1>1 DEF grounded, Least

\* Where thin bases are found further on, everything decodes.
LEMMA StandingDecodes ==
  ASSUME NEW packs \in Seq(Seq(Entry)), NEW m \in Nat, Standing(packs, m),
         NEW pos \in Positions(packs), pos[1] > m
  PROVE  pos \in Decodable(packs)
<1>1. SUFFICES ASSUME NEW S \in SUBSET Positions(packs), decodesFrom(packs, S) \subseteq S
               PROVE  pos \in S
  BY DecodableIn
<1> DEFINE have(p) == \A i \in DOMAIN packs[p] : <<p, i>> \in S
           last == Len(packs)
           D == {n \in Nat : \A p \in DOMAIN packs : p > m /\ p + n > last => have(p)}
<1>2. last \in Nat /\ DOMAIN packs = 1 .. last
  OBVIOUS
<1>3. 0 \in D
  BY <1>2
<1>4. ASSUME NEW n \in Nat, n \in D PROVE n + 1 \in D
  <2>1. SUFFICES ASSUME NEW p \in DOMAIN packs, p > m, p + (n + 1) > last PROVE have(p)
    OBVIOUS
  <2>2. \A q \in DOMAIN packs : q > p => have(q)
    <3>1. SUFFICES ASSUME NEW q \in DOMAIN packs, q > p PROVE have(q)
      OBVIOUS
    <3>2. q > m /\ q + n > last
      BY <2>1, <3>1, <1>2
    <3> QED
      BY <1>4, <3>2
  <2> DEFINE pack == packs[p]
             T == {i \in DOMAIN pack : <<p, i>> \in S}
  <2>3. GoodPack(pack)
    BY <2>1 DEF Standing
  <2>4. pack \in Seq(Entry)
    BY <2>3 DEF GoodPack, SoundPack
  <2>5. groundedFrom(pack, T) \subseteq T
    <3>1. SUFFICES ASSUME NEW i \in groundedFrom(pack, T) PROVE <<p, i>> \in decodesFrom(packs, S)
      BY <1>1 DEF groundedFrom
    <3>2. i \in DOMAIN pack
      BY DEF groundedFrom
    <3>3. <<p, i>> \in Positions(packs) /\ EntryAt(packs, <<p, i>>) = pack[i]
      BY <3>2, PositionIn
    <3>4. CASE kindOf(pack[i]) = "full"
      BY <3>3, <3>4 DEF decodesFrom
    <3>5. CASE kindOf(pack[i]) = "ofs"
      <4>1. pack[i].ofs \in T
        BY <3>5 DEF groundedFrom
      <4>2. <<p, pack[i].ofs>> \in S
        BY <4>1
      <4> QED
        BY <3>3, <3>5, <4>2 DEF decodesFrom
    <3>6. CASE kindOf(pack[i]) = "ref"
      <4>1. \E b \in S : EntryAt(packs, b).oid = pack[i].ref
        <5>1. CASE pack[i].ref \in Oids(pack)
          <6>1. PICK j \in T : pack[j].oid = pack[i].ref
            BY <3>6, <5>1 DEF groundedFrom
          <6>2. <<p, j>> \in S /\ EntryAt(packs, <<p, j>>) = pack[j]
            BY <6>1, PositionIn
          <6> QED
            BY <6>1, <6>2
        <5>2. CASE pack[i].ref \notin Oids(pack)
          <6>1. pack[i].ref # NoOid
            BY <3>6 DEF kindOf
          <6>2. PICK q \in DOMAIN packs : q > p /\ pack[i].ref \in Oids(packs[q])
            BY <2>1, <3>2, <5>2, <6>1 DEF Standing
          <6>3. PICK j \in DOMAIN packs[q] : packs[q][j].oid = pack[i].ref
            BY <6>2 DEF Oids
          <6>4. <<q, j>> \in S /\ EntryAt(packs, <<q, j>>) = packs[q][j]
            BY <2>2, <6>2, <6>3, PositionIn
          <6> QED
            BY <6>3, <6>4
        <5> QED
          BY <5>1, <5>2
      <4> QED
        BY <3>3, <3>6, <4>1 DEF decodesFrom
    <3> QED
      BY <3>4, <3>5, <3>6 DEF groundedFrom
  <2>6. grounded(pack) \subseteq T
    BY <2>5, GroundedOut
  <2> QED
    BY <2>3, <2>6 DEF GoodPack
<1>5. Nat \subseteq D
  <2> HIDE DEF D
  <2> QED
    BY <1>3, <1>4, NatSet
<1>6. pos[1] \in DOMAIN packs /\ pos[2] \in DOMAIN packs[pos[1]] /\ pos = <<pos[1], pos[2]>>
  BY PositionParts
<1>7. last \in D /\ pos[1] + last > last
  BY <1>2, <1>5, <1>6
<1> QED
  BY <1>6, <1>7

LEMMA StandingStored ==
  ASSUME NEW packs \in Seq(Seq(Entry)), Standing(packs, 0)
  PROVE  Decodable(packs) = Positions(packs) /\ DecodableOids(packs) = StoredOids(packs)
<1>1. ASSUME NEW pos \in Positions(packs) PROVE pos \in Decodable(packs)
  <2>1. pos[1] > 0 /\ 0 \in Nat
    BY PositionParts
  <2> QED
    BY <2>1, StandingDecodes
<1>2. Decodable(packs) = Positions(packs)
  BY <1>1, DecodableType
<1> QED
  BY <1>2 DEF DecodableOids, StoredOids

\* The order of the packs does not matter to what decodes.
LEMMA ReorderedDecodes ==
  ASSUME NEW packs \in Seq(Seq(Entry)), Decodable(packs) = Positions(packs), NEW all \in Seq(Seq(Entry)),
         \A i \in DOMAIN all : \E p \in DOMAIN packs : all[i] = packs[p],
         \A p \in DOMAIN packs : \E i \in DOMAIN all : all[i] = packs[p]
  PROVE  StoredOids(all) \subseteq DecodableOids(all)
<1> DEFINE S == {q \in Positions(packs) : \A i \in DOMAIN all : all[i] = packs[q[1]] => <<i, q[2]>> \in Decodable(all)}
<1>1. ASSUME NEW q \in decodesFrom(packs, S), NEW i \in DOMAIN all, all[i] = packs[q[1]],
             NEW T \in SUBSET Positions(all), decodesFrom(all, T) \subseteq T
      PROVE  <<i, q[2]>> \in T
  <2>1. q \in Positions(packs)
    BY DEF decodesFrom
  <2>2. PICK e, pos : e = EntryAt(packs, q) /\ pos = <<i, q[2]>>
    OBVIOUS
  <2>3. q[2] \in DOMAIN all[i] /\ all[i][q[2]] = e
    BY <1>1, <2>1, <2>2, PositionParts
  <2>4. pos \in Positions(all) /\ EntryAt(all, pos) = e /\ pos[1] = i
    BY <2>2, <2>3, PositionIn
  <2>5. Decodable(all) \subseteq T
    BY <1>1, DecodableOut
  <2>6. SUFFICES pos \in decodesFrom(all, T)
    BY <1>1, <2>2
  <2>7. CASE kindOf(e) = "full"
    BY <2>4, <2>7 DEF decodesFrom
  <2>8. CASE kindOf(e) = "ofs"
    <3>1. <<q[1], e.ofs>> \in S
      BY <2>2, <2>8 DEF decodesFrom
    <3>2. PICK b : b = <<q[1], e.ofs>>
      OBVIOUS
    <3>3. b \in S /\ b[1] = q[1] /\ b[2] = e.ofs
      BY <3>1, <3>2
    <3>4. <<i, e.ofs>> \in Decodable(all)
      BY <1>1, <3>3
    <3> QED
      BY <2>4, <2>5, <2>8, <3>4 DEF decodesFrom
  <2>9. CASE kindOf(e) = "ref"
    <3>1. PICK b \in S : EntryAt(packs, b).oid = e.ref
      BY <2>2, <2>9 DEF decodesFrom
    <3>2. b \in Positions(packs)
      OBVIOUS
    <3>3. b[1] \in DOMAIN packs /\ b[2] \in DOMAIN packs[b[1]] /\ EntryAt(packs, b) = packs[b[1]][b[2]]
      BY <3>2, PositionParts
    <3>4. PICK k \in DOMAIN all : all[k] = packs[b[1]]
      BY <3>3
    <3>5. <<k, b[2]>> \in Decodable(all)
      BY <3>4
    <3>6. EntryAt(all, <<k, b[2]>>) = EntryAt(packs, b)
      <4>0. PICK j : j = b[2]
        OBVIOUS
      <4>1. j \in DOMAIN all[k] /\ all[k][j] = EntryAt(packs, b)
        BY <3>3, <3>4, <4>0
      <4>2. EntryAt(all, <<k, j>>) = all[k][j]
        <5> HIDE DEF S
        <5> QED
          BY <4>1, PositionIn
      <4> QED
        BY <4>0, <4>1, <4>2
    <3> QED
      BY <2>4, <2>5, <2>9, <3>1, <3>5, <3>6 DEF decodesFrom
  <2> QED
    BY <2>7, <2>8, <2>9 DEF kindOf
<1>2. decodesFrom(packs, S) \subseteq S
  <2>1. SUFFICES ASSUME NEW q \in decodesFrom(packs, S), NEW i \in DOMAIN all, all[i] = packs[q[1]]
                 PROVE  <<i, q[2]>> \in Decodable(all)
    BY DEF decodesFrom
  <2>2. q \in Positions(packs)
    BY DEF decodesFrom
  <2>3. q[2] \in DOMAIN all[i]
    BY <2>1, <2>2, PositionParts
  <2>4. PICK pos : pos = <<i, q[2]>>
    OBVIOUS
  <2>5. pos \in Positions(all)
    BY <2>3, <2>4, PositionIn
  <2>6. \A T \in SUBSET Positions(all) : decodesFrom(all, T) \subseteq T => pos \in T
    BY <1>1, <2>1, <2>4
  <2> QED
    BY <2>4, <2>5, <2>6, DecodableIn
<1>3. Positions(packs) \subseteq S
  <2>1. S \in SUBSET Positions(packs)
    OBVIOUS
  <2> HIDE DEF S
  <2> QED
    BY <1>2, <2>1, DecodableOut
<1>4. ASSUME NEW pos \in Positions(all) PROVE pos \in Decodable(all)
  <2>1. pos[1] \in DOMAIN all /\ pos[2] \in DOMAIN all[pos[1]] /\ pos = <<pos[1], pos[2]>>
    BY PositionParts
  <2>2. PICK p \in DOMAIN packs : all[pos[1]] = packs[p]
    BY <2>1
  <2>3. PICK q : q = <<p, pos[2]>>
    OBVIOUS
  <2>4. q \in Positions(packs) /\ q[1] = p /\ q[2] = pos[2]
    BY <2>1, <2>2, <2>3, PositionIn
  <2>5. q \in S
    BY <1>3, <2>4
  <2> QED
    BY <2>1, <2>2, <2>4, <2>5
<1> QED
  BY <1>4 DEF StoredOids, DecodableOids

LEMMA StoredIn ==
  ASSUME NEW packs, NEW p \in DOMAIN packs
  PROVE  Oids(packs[p]) \subseteq StoredOids(packs)
<1>1. ASSUME NEW i \in DOMAIN packs[p] PROVE packs[p][i].oid \in StoredOids(packs)
  <2>1. PICK q : q = <<p, i>>
    OBVIOUS
  <2>2. q \in Positions(packs) /\ EntryAt(packs, q) = packs[p][i]
    BY <2>1, PositionIn
  <2> QED
    BY <2>2 DEF StoredOids
<1> QED
  BY <1>1 DEF Oids

-----------------------------------------------------------------------------
(* The passes of the indexer *)

IndexRec == [phase : {"main", "deferred", "indexed", "failed"}, pack : Seq(Entry), slot : Nat,
             resolved : SUBSET Nat, base : UNION {[S -> Nat] : S \in SUBSET Nat},
             waiting : SUBSET Nat, registered : SUBSET Nat, ready : SUBSET Nat, at : Nat]

\* What resolveEntry does to a pass, field by field.
LEMMA ResolveEntryFields ==
  ASSUME NEW x \in IndexRec, NEW i \in Nat, NEW y, y = resolveEntry(x, i)
  PROVE  /\ y.phase = x.phase /\ y.pack = x.pack /\ y.slot = x.slot /\ y.at = x.at
         /\ y.resolved = x.resolved \cup {i}
         /\ y.base = [j \in DOMAIN x.base |->
                        IF j \in x.waiting /\ x.pack[j].ref = x.pack[i].oid /\ x.base[j] = 0
                        THEN i ELSE x.base[j]]
         /\ y.waiting = {j \in x.waiting : x.pack[j].ref # x.pack[i].oid}
         /\ y.registered = {j \in x.registered : y.base[j] # i}
         /\ y.ready = x.ready \cup {j \in {k \in x.waiting : x.pack[k].ref = x.pack[i].oid}
                                          \cup {k \in x.registered : y.base[k] = i} : isReady(y, j)}
         /\ y \in IndexRec
<1> DEFINE W == {j \in x.waiting : x.pack[j].ref = x.pack[i].oid}
           B == [j \in DOMAIN x.base |-> IF j \in W /\ x.base[j] = 0 THEN i ELSE x.base[j]]
           R == x.resolved \cup {i}
           y1 == [x EXCEPT !.resolved = R]
           y2 == adopt(y1, W, i)
           y3 == enqueueReadyDeferred(y2, W)
           V == {j \in x.registered : B[j] = i}
           y4 == [y3 EXCEPT !.registered = @ \ V]
           y5 == enqueueReadyDeferred(y4, V)
           on(S) == {j \in S : j \notin R /\ B[j] # 0 /\ B[j] \in R}
<1>0. B \in UNION {[S -> Nat] : S \in SUBSET Nat} /\ R \in SUBSET Nat
  <2>1. PICK S \in SUBSET Nat : x.base \in [S -> Nat]
    BY DEF IndexRec
  <2>2. B \in [S -> Nat]
    BY <2>1
  <2>3. x.resolved \in SUBSET Nat
    BY DEF IndexRec
  <2> HIDE DEF B
  <2> QED
    BY <2>2, <2>3
<1>1. PICK r, b : r = R /\ b = B
  OBVIOUS
<1>2. /\ y1 \in IndexRec /\ y1.phase = x.phase /\ y1.pack = x.pack /\ y1.slot = x.slot /\ y1.at = x.at
      /\ y1.resolved = R /\ y1.base = x.base /\ y1.waiting = x.waiting
      /\ y1.registered = x.registered /\ y1.ready = x.ready
  <2>1. y1 = [x EXCEPT !.resolved = r]
    BY <1>1
  <2>2. r \in SUBSET Nat
    BY <1>0, <1>1
  <2> HIDE DEF y1, R
  <2> QED
    BY <1>1, <2>1, <2>2 DEF IndexRec
<1>3. /\ y2 \in IndexRec /\ y2.phase = x.phase /\ y2.pack = x.pack /\ y2.slot = x.slot /\ y2.at = x.at
      /\ y2.resolved = R /\ y2.base = B /\ y2.waiting = x.waiting \ W
      /\ y2.registered = x.registered /\ y2.ready = x.ready
  <2>1. PICK w : w = x.waiting \ W
    OBVIOUS
  <2>2. B = [j \in DOMAIN y1.base |-> IF j \in W /\ y1.base[j] = 0 THEN i ELSE y1.base[j]]
    <3> HIDE DEF y1
    <3> QED
      BY <1>2
  <2>3. y2 = [y1 EXCEPT !.waiting = w, !.base = b]
    <3> HIDE DEF y1, W, B
    <3> QED
      BY <1>1, <1>2, <2>1, <2>2 DEF adopt
  <2>4. b \in UNION {[S -> Nat] : S \in SUBSET Nat} /\ w \in SUBSET Nat
    <3>1. x.waiting \in SUBSET Nat
      BY DEF IndexRec
    <3> QED
      BY <1>0, <1>1, <2>1, <3>1
  <2> HIDE DEF y1, y2, W, B, R
  <2> QED
    BY <1>1, <1>2, <2>1, <2>3, <2>4 DEF IndexRec
<1>4. /\ y3 \in IndexRec /\ y3.phase = x.phase /\ y3.pack = x.pack /\ y3.slot = x.slot /\ y3.at = x.at
      /\ y3.resolved = R /\ y3.base = B /\ y3.waiting = x.waiting \ W
      /\ y3.registered = x.registered /\ y3.ready = x.ready \cup on(W)
  <2>1. PICK q : q = x.ready \cup on(W)
    OBVIOUS
  <2>2. {j \in W : isReady(y2, j)} = on(W)
    <3> HIDE DEF y2, W, B, R
    <3> QED
      BY <1>3 DEF isReady
  <2>3. y3 = [y2 EXCEPT !.ready = q]
    <3> HIDE DEF y2, W, B, R, on
    <3> QED
      BY <1>3, <2>1, <2>2 DEF enqueueReadyDeferred
  <2>4. q \in SUBSET Nat
    BY <2>1 DEF IndexRec
  <2> HIDE DEF y2, y3, W, B, R, on
  <2> QED
    BY <1>3, <2>1, <2>3, <2>4 DEF IndexRec
<1>5. /\ y4 \in IndexRec /\ y4.phase = x.phase /\ y4.pack = x.pack /\ y4.slot = x.slot /\ y4.at = x.at
      /\ y4.resolved = R /\ y4.base = B /\ y4.waiting = x.waiting \ W
      /\ y4.registered = x.registered \ V /\ y4.ready = x.ready \cup on(W)
  <2>1. PICK q : q = x.registered \ V
    OBVIOUS
  <2>2. q \in SUBSET Nat
    BY <2>1 DEF IndexRec
  <2>3. y4 = [y3 EXCEPT !.registered = q]
    <3> HIDE DEF y3, V, W, B, R, on
    <3> QED
      BY <1>4, <2>1
  <2> HIDE DEF y3, y4, W, V, B, R, on
  <2> QED
    BY <1>4, <2>1, <2>3, <2>2 DEF IndexRec
<1>6. /\ y5 \in IndexRec /\ y5.phase = x.phase /\ y5.pack = x.pack /\ y5.slot = x.slot /\ y5.at = x.at
      /\ y5.resolved = R /\ y5.base = B /\ y5.waiting = x.waiting \ W
      /\ y5.registered = x.registered \ V /\ y5.ready = x.ready \cup on(W) \cup on(V)
  <2>1. PICK q : q = x.ready \cup on(W) \cup on(V)
    OBVIOUS
  <2>2. {j \in V : isReady(y4, j)} = on(V)
    <3> HIDE DEF y4, V, W, B, R
    <3> QED
      BY <1>5 DEF isReady
  <2>3. y5 = [y4 EXCEPT !.ready = q]
    <3> HIDE DEF y4, V, W, B, R, on
    <3> QED
      BY <1>5, <2>1, <2>2 DEF enqueueReadyDeferred
  <2>4. q \in SUBSET Nat
    BY <2>1 DEF IndexRec
  <2> HIDE DEF y4, y5, W, V, B, R, on
  <2> QED
    BY <1>5, <2>1, <2>3, <2>4 DEF IndexRec
<1>7. y = y5
  <2>1. y3 = promoteWaitingRefDeltas(y1, i)
    <3>1. W = {j \in y1.waiting : y1.pack[j].ref = y1.pack[i].oid}
      <4> HIDE DEF y1
      <4> QED
        BY <1>2
    <3> HIDE DEF y1, W
    <3> QED
      BY <3>1 DEF promoteWaitingRefDeltas
  <2>2. y5 = promoteReadyInPackDependents(y3, i)
    <3>1. V = {j \in y3.registered : y3.base[j] = i}
      <4> HIDE DEF y3, B
      <4> QED
        BY <1>4
    <3> HIDE DEF y3, V
    <3> QED
      BY <3>1 DEF promoteReadyInPackDependents
  <2> HIDE DEF y3, y5
  <2> QED
    BY <2>1, <2>2 DEF resolveEntry
<1>8. on(W) \cup on(V) = {j \in W \cup V : isReady(y5, j)}
  <2> HIDE DEF y5, W, V, B, R
  <2> QED
    BY <1>6 DEF isReady
<1>9. y.registered = {j \in x.registered : y.base[j] # i} /\ V = {j \in x.registered : y.base[j] = i}
  <2> HIDE DEF y5, B
  <2> QED
    BY <1>6, <1>7
<1>10. y.waiting = {j \in x.waiting : x.pack[j].ref # x.pack[i].oid}
  <2> HIDE DEF y5
  <2> QED
    BY <1>6, <1>7
<1>11. y.ready = x.ready \cup {j \in {k \in x.waiting : x.pack[k].ref = x.pack[i].oid}
                                   \cup {k \in x.registered : y.base[k] = i} : isReady(y, j)}
  <2>1. y.ready = x.ready \cup {j \in W \cup V : isReady(y, j)}
    <3> HIDE DEF y5, W, V, on
    <3> QED
      BY <1>6, <1>7, <1>8
  <2>2. W \cup V = {k \in x.waiting : x.pack[k].ref = x.pack[i].oid} \cup {k \in x.registered : y.base[k] = i}
    BY <1>9
  <2> HIDE DEF W, V
  <2> QED
    BY <2>1, <2>2
<1>12. y.base = [j \in DOMAIN x.base |->
                   IF j \in x.waiting /\ x.pack[j].ref = x.pack[i].oid /\ x.base[j] = 0
                   THEN i ELSE x.base[j]]
  <2>1. B = [j \in DOMAIN x.base |->
                   IF j \in x.waiting /\ x.pack[j].ref = x.pack[i].oid /\ x.base[j] = 0
                   THEN i ELSE x.base[j]]
    OBVIOUS
  <2> HIDE DEF y5, B
  <2> QED
    BY <1>6, <1>7, <2>1
<1> HIDE DEF y5, on, W, V, B
<1> QED
  BY <1>6, <1>7, <1>9, <1>10, <1>11, <1>12

LEMMA ResolveEntryFrame ==
  ASSUME NEW x \in IndexRec, NEW i \in Nat
  PROVE  resolveEntry(x, i).pack = x.pack /\ resolveEntry(x, i).slot = x.slot
<1>1. PICK y : y = resolveEntry(x, i)
  OBVIOUS
<1>2. /\ y.phase = x.phase /\ y.pack = x.pack /\ y.slot = x.slot /\ y.at = x.at
      /\ y.resolved = x.resolved \cup {i}
      /\ y.base = [j \in DOMAIN x.base |->
                     IF j \in x.waiting /\ x.pack[j].ref = x.pack[i].oid /\ x.base[j] = 0
                     THEN i ELSE x.base[j]]
      /\ y.waiting = {j \in x.waiting : x.pack[j].ref # x.pack[i].oid}
      /\ y.registered = {j \in x.registered : y.base[j] # i}
      /\ y.ready = x.ready \cup {j \in {k \in x.waiting : x.pack[k].ref = x.pack[i].oid}
                                       \cup {k \in x.registered : y.base[k] = i} : isReady(y, j)}
      /\ y \in IndexRec
  BY <1>1, ResolveEntryFields
<1> QED
  BY <1>1, <1>2

\* The shape of a pass over a pack.
IndexShape(x) ==
    /\ x \in IndexRec
    /\ x.base \in [DOMAIN x.pack -> Nat]
    /\ x.resolved \subseteq DOMAIN x.pack
    /\ x.waiting \subseteq DOMAIN x.pack
    /\ x.registered \subseteq DOMAIN x.pack
    /\ x.ready \subseteq DOMAIN x.pack
    /\ x.at \in 1 .. (Len(x.pack) + 1)

\* Base edges lead to the base of an entry, and an entry has one unless its
\* base is not in the pack or has not turned up.
EdgesRight(x) ==
    \A i \in DOMAIN x.pack :
        /\ kindOf(x.pack[i]) = "full" => i \in x.resolved /\ x.base[i] = 0
        /\ kindOf(x.pack[i]) = "ofs" => x.base[i] = x.pack[i].ofs
        /\ kindOf(x.pack[i]) = "ref" /\ x.base[i] # 0 =>
              /\ x.base[i] \in DOMAIN x.pack
              /\ x.pack[x.base[i]].oid = x.pack[i].ref
              /\ x.slot = 0 => x.base[i] \in x.resolved

\* Nothing that can be resolved is forgotten: an entry that is put off waits for
\* its base object, is registered at its base entry, or is to be visited.
NoneForgotten(x, done) ==
    /\ \A i \in x.waiting : /\ kindOf(x.pack[i]) = "ref"
                            /\ \A k \in x.resolved : x.pack[k].oid # x.pack[i].ref
    /\ \A i \in DOMAIN x.pack \ x.resolved :
        /\ x.base[i] = 0 => i \in x.waiting
        /\ x.base[i] # 0 /\ x.base[i] \notin x.resolved => i \in x.registered
        /\ i \notin done /\ x.base[i] # 0 /\ x.base[i] \in x.resolved =>
              i \in x.ready \/ (x.phase = "main" /\ i >= x.at)

\* ext: the objects that the active packs can give.
ExternalRight(x, ext, done) ==
    \A i \in DOMAIN x.pack : kindOf(x.pack[i]) = "ref" /\ x.base[i] = 0 =>
        /\ i \in x.resolved => x.pack[i].ref \in ext
        /\ i \notin x.resolved \cup done /\ x.phase # "main" /\ i < x.at => x.pack[i].ref \notin ext

PassEnded(x) ==
    x.phase \in {"indexed", "failed"} =>
        /\ x.ready = {} /\ x.at \notin DOMAIN x.pack
        /\ x.phase = "indexed" <=> x.resolved = DOMAIN x.pack

IndexInv(x, ext) ==
    IndexShape(x) /\ EdgesRight(x) /\ NoneForgotten(x, {}) /\ ExternalRight(x, ext, {}) /\ PassEnded(x)

\* Resolving an entry whose base is at hand keeps all that.
LEMMA ResolveEntryKeeps ==
  ASSUME NEW x, NEW ext, NEW i \in DOMAIN x.pack, NEW y, y = resolveEntry(x, i),
         IndexShape(x), EdgesRight(x), NoneForgotten(x, {i}), ExternalRight(x, ext, {i}),
         i \notin x.resolved,
         \/ x.base[i] # 0
         \/ kindOf(x.pack[i]) = "ref" /\ x.pack[i].ref \in ext,
         x.phase \in {"main", "deferred"}
  PROVE  IndexInv(y, ext)
<1> DEFINE D == DOMAIN x.pack
           take(j) == j \in x.waiting /\ x.pack[j].ref = x.pack[i].oid /\ x.base[j] = 0
<1>1. x \in IndexRec /\ x.pack \in Seq(Entry) /\ D \subseteq Nat \ {0} /\ i \in Nat \ {0}
  BY DEF IndexShape, IndexRec
<1>2. /\ y.phase = x.phase /\ y.pack = x.pack /\ y.slot = x.slot /\ y.at = x.at
      /\ y.resolved = x.resolved \cup {i}
      /\ y.base = [j \in DOMAIN x.base |-> IF take(j) THEN i ELSE x.base[j]]
      /\ y.waiting = {j \in x.waiting : x.pack[j].ref # x.pack[i].oid}
      /\ y.registered = {j \in x.registered : y.base[j] # i}
      /\ y.ready = x.ready \cup {j \in {k \in x.waiting : x.pack[k].ref = x.pack[i].oid}
                                       \cup {k \in x.registered : y.base[k] = i} : isReady(y, j)}
      /\ y \in IndexRec
  <2>1. i \in Nat
    BY <1>1
  <2> QED
    BY <1>1, <2>1, ResolveEntryFields
<1>3. DOMAIN x.base = D /\ x.base \in [D -> Nat]
  BY DEF IndexShape
<1>4. \A j \in D : y.base[j] = IF take(j) THEN i ELSE x.base[j]
  BY <1>2, <1>3
<1>5. IndexShape(y)
  <2>1. y.base \in [D -> Nat]
    <3>1. \A j \in D : (IF take(j) THEN i ELSE x.base[j]) \in Nat
      BY <1>1, <1>3
    <3> HIDE DEF take
    <3> QED
      BY <1>2, <1>3, <3>1
  <2>2. y.ready \subseteq D
    BY <1>2 DEF IndexShape
  <2> QED
    BY <1>2, <2>1, <2>2 DEF IndexShape
<1>6. EdgesRight(y)
  <2>1. SUFFICES ASSUME NEW j \in D
                 PROVE  /\ kindOf(x.pack[j]) = "full" => j \in y.resolved /\ y.base[j] = 0
                        /\ kindOf(x.pack[j]) = "ofs" => y.base[j] = x.pack[j].ofs
                        /\ kindOf(x.pack[j]) = "ref" /\ y.base[j] # 0 =>
                              /\ y.base[j] \in D
                              /\ x.pack[y.base[j]].oid = x.pack[j].ref
                              /\ x.slot = 0 => y.base[j] \in y.resolved
    <3>1. y.pack = x.pack /\ y.slot = x.slot
      BY <1>2
    <3> HIDE DEF take
    <3> QED
      BY <3>1 DEF EdgesRight
  <2>2. take(j) => kindOf(x.pack[j]) = "ref"
    BY DEF NoneForgotten
  <2>3. CASE take(j)
    <3>1. y.base[j] = i /\ i \in y.resolved /\ x.pack[i].oid = x.pack[j].ref
      BY <1>2, <1>4, <2>3
    <3> QED
      BY <2>2, <2>3, <3>1
  <2>4. CASE ~take(j)
    <3>1. y.base[j] = x.base[j]
      BY <1>4, <2>4
    <3> HIDE DEF take
    <3> QED
      BY <1>2, <3>1 DEF EdgesRight
  <2> QED
    BY <2>3, <2>4
<1>7. NoneForgotten(y, {})
  <2>1. ASSUME NEW j \in y.waiting
        PROVE  kindOf(y.pack[j]) = "ref" /\ \A k \in y.resolved : y.pack[k].oid # y.pack[j].ref
    BY <1>2 DEF NoneForgotten
  <2>2. ASSUME NEW j \in D \ y.resolved
        PROVE  /\ y.base[j] = 0 => j \in y.waiting
               /\ y.base[j] # 0 /\ y.base[j] \notin y.resolved => j \in y.registered
               /\ y.base[j] # 0 /\ y.base[j] \in y.resolved =>
                     j \in y.ready \/ (y.phase = "main" /\ j >= y.at)
    <3>1. j \in D \ x.resolved /\ j # i
      BY <1>2
    <3>2. y.base[j] = 0 => j \in y.waiting
      <4>1. SUFFICES ASSUME y.base[j] = 0 PROVE j \in y.waiting
        OBVIOUS
      <4>2. ~take(j) /\ x.base[j] = 0
        BY <1>1, <1>4, <3>1, <4>1
      <4>3. j \in x.waiting
        BY <3>1, <4>2 DEF NoneForgotten
      <4> QED
        BY <1>2, <4>2, <4>3
    <3>3. y.base[j] # 0 /\ y.base[j] \notin y.resolved => j \in y.registered
      <4>1. SUFFICES ASSUME y.base[j] # 0, y.base[j] \notin y.resolved PROVE j \in y.registered
        OBVIOUS
      <4>2. y.base[j] # i /\ y.base[j] = x.base[j] /\ x.base[j] \notin x.resolved
        BY <1>2, <1>4, <3>1, <4>1
      <4>3. j \in x.registered
        BY <3>1, <4>1, <4>2 DEF NoneForgotten
      <4> QED
        BY <1>2, <4>2, <4>3
    <3>4. y.base[j] # 0 /\ y.base[j] \in y.resolved => j \in y.ready \/ (y.phase = "main" /\ j >= y.at)
      <4>1. SUFFICES ASSUME y.base[j] # 0, y.base[j] \in y.resolved
                     PROVE  j \in y.ready \/ (y.phase = "main" /\ j >= y.at)
        OBVIOUS
      <4>2. isReady(y, j)
        BY <2>2, <4>1 DEF isReady
      <4>3. CASE take(j)
        BY <1>2, <4>2, <4>3
      <4>4. CASE ~take(j) /\ x.base[j] = i
        <5>1. y.base[j] = i
          BY <1>4, <3>1, <4>4
        <5>2. j \in x.registered
          BY <3>1, <4>1, <5>1, <4>4 DEF NoneForgotten
        <5> QED
          BY <1>2, <4>2, <5>1, <5>2
      <4>5. CASE ~take(j) /\ x.base[j] # i
        <5>1. x.base[j] # 0 /\ x.base[j] \in x.resolved
          BY <1>2, <1>4, <3>1, <4>1, <4>5
        <5>2. j \in x.ready \/ (x.phase = "main" /\ j >= x.at)
          BY <3>1, <5>1 DEF NoneForgotten
        <5> QED
          BY <1>2, <5>2
      <4> QED
        BY <4>3, <4>4, <4>5
    <3> QED
      BY <3>2, <3>3, <3>4
  <2>3. DOMAIN y.pack = D
    BY <1>2
  <2> QED
    BY <2>1, <2>2, <2>3 DEF NoneForgotten
<1>8. ExternalRight(y, ext, {})
  <2>1. SUFFICES ASSUME NEW j \in D, kindOf(x.pack[j]) = "ref", y.base[j] = 0
                 PROVE  /\ j \in y.resolved => x.pack[j].ref \in ext
                        /\ j \notin y.resolved /\ x.phase # "main" /\ j < x.at => x.pack[j].ref \notin ext
    BY <1>2 DEF ExternalRight
  <2>2. x.base[j] = 0
    BY <1>1, <1>4, <2>1
  <2> QED
    BY <1>2, <2>1, <2>2 DEF ExternalRight
<1>9. PassEnded(y)
  BY <1>2 DEF PassEnded
<1> QED
  BY <1>5, <1>6, <1>7, <1>8, <1>9 DEF IndexInv

\* A step of a pass that only moves on to another entry, or queues some that are ready.
LEMMA MoveOnKeeps ==
  ASSUME NEW x, NEW ext, NEW y, IndexShape(x), EdgesRight(x),
         y \in IndexRec, y.pack = x.pack, y.slot = x.slot, y.resolved = x.resolved, y.base = x.base,
         y.waiting = x.waiting, y.registered = x.registered,
         y.ready \subseteq DOMAIN x.pack, y.at \in 1 .. (Len(x.pack) + 1)
  PROVE  IndexShape(y) /\ EdgesRight(y)
<1>1. IndexShape(y)
  BY DEF IndexShape
<1>2. EdgesRight(y)
  BY DEF EdgesRight
<1> QED
  BY <1>1, <1>2

LEMMA MainPassKeeps ==
  ASSUME NEW ext, IndexInv(index, ext), mainPass
  PROVE  IndexInv(index', ext) /\ index'.pack = index.pack /\ index'.slot = index.slot
<1> DEFINE i == index.at
           next == [index EXCEPT !.at = @ + 1]
<1>1. /\ IndexShape(index) /\ EdgesRight(index) /\ NoneForgotten(index, {}) /\ ExternalRight(index, ext, {})
      /\ index.phase = "main" /\ i \in DOMAIN index.pack /\ index \in IndexRec
  BY DEF IndexInv, IndexShape, mainPass, Entries
<1>2. i \in Nat /\ i + 1 \in Nat /\ i + 1 \in 1 .. (Len(index.pack) + 1)
  <2>1. index.pack \in Seq(Entry)
    BY <1>1 DEF IndexRec
  <2> QED
    BY <1>1, <2>1
<1>3. /\ next \in IndexRec /\ next.at = i + 1 /\ next.phase = "main" /\ next.pack = index.pack
      /\ next.slot = index.slot /\ next.resolved = index.resolved /\ next.base = index.base
      /\ next.waiting = index.waiting /\ next.registered = index.registered /\ next.ready = index.ready
  <2>1. PICK n : n = i + 1
    OBVIOUS
  <2>2. next = [index EXCEPT !.at = n]
    BY <2>1
  <2>3. n \in Nat
    BY <1>2, <2>1
  <2> HIDE DEF next
  <2> QED
    BY <1>1, <2>1, <2>2, <2>3 DEF IndexRec
<1>4. index' = IF isReady(index, i) THEN resolveEntry(next, i) ELSE next
  BY DEF mainPass
<1> HIDE DEF next
<1>5. IndexShape(next) /\ EdgesRight(next)
  <2>1. next.ready \subseteq DOMAIN index.pack
    BY <1>1, <1>3 DEF IndexShape
  <2> QED
    BY <1>1, <1>2, <1>3, <2>1, MoveOnKeeps
<1>6. NoneForgotten(next, {i})
  <2>1. ASSUME NEW j \in DOMAIN index.pack, j # i, j >= i PROVE j >= i + 1
    <3>1. j \in Nat
      BY <1>1, <2>1 DEF IndexRec
    <3> QED
      BY <1>2, <2>1, <3>1
  <2> QED
    BY <1>1, <1>3, <2>1 DEF NoneForgotten
<1>7. ExternalRight(next, ext, {})
  BY <1>1, <1>3 DEF ExternalRight
<1>8. CASE isReady(index, i)
  <2>1. index' = resolveEntry(next, i) /\ i \notin next.resolved /\ next.base[i] # 0
    BY <1>3, <1>4, <1>8 DEF isReady
  <2>2. ExternalRight(next, ext, {i})
    BY <1>7 DEF ExternalRight
  <2>4. IndexInv(index', ext)
    BY <1>1, <1>3, <1>5, <1>6, <2>1, <2>2, ResolveEntryKeeps
  <2>3. index'.pack = next.pack /\ index'.slot = next.slot
    BY <1>2, <1>3, <2>1, ResolveEntryFrame
  <2> QED
    BY <1>3, <2>3, <2>4
<1>9. CASE ~isReady(index, i)
  <2>1. NoneForgotten(next, {})
    BY <1>3, <1>6, <1>9 DEF NoneForgotten, isReady
  <2>2. PassEnded(next)
    BY <1>3 DEF PassEnded
  <2> QED
    BY <1>3, <1>4, <1>5, <1>7, <1>9, <2>1, <2>2 DEF IndexInv
<1> QED
  BY <1>8, <1>9

LEMMA EndMainPassKeeps ==
  ASSUME NEW ext, IndexInv(index, ext), endMainPass
  PROVE  IndexInv(index', ext) /\ index'.pack = index.pack /\ index'.slot = index.slot
<1>1. /\ IndexShape(index) /\ EdgesRight(index) /\ NoneForgotten(index, {}) /\ ExternalRight(index, ext, {})
      /\ index.phase = "main" /\ index \in IndexRec
  BY DEF IndexInv, IndexShape, endMainPass
<1> DEFINE q == index.ready \cup {i \in DOMAIN index.pack : isReady(index, i)}
<1>2. PICK y : y = [index EXCEPT !.ready = q]
  OBVIOUS
<1>3. q \in SUBSET DOMAIN index.pack /\ q \in SUBSET Nat
  <2>1. index.pack \in Seq(Entry)
    BY <1>1 DEF IndexRec
  <2> QED
    BY <1>1, <2>1 DEF IndexShape
<1>4. y \in IndexRec /\ y.ready = q
  <2> HIDE DEF q
  <2> QED
    BY <1>1, <1>2, <1>3 DEF IndexRec
<1>5. index' = [y EXCEPT !.phase = "deferred", !.at = 1]
  BY <1>2 DEF endMainPass, enqueueReadyDeferred, Entries
<1>6. /\ index' \in IndexRec /\ index'.at = 1 /\ index'.phase = "deferred" /\ index'.pack = index.pack
      /\ index'.slot = index.slot /\ index'.resolved = index.resolved /\ index'.base = index.base
      /\ index'.waiting = index.waiting /\ index'.registered = index.registered /\ index'.ready = q
  <2> HIDE DEF q
  <2>1. /\ y.pack = index.pack
        /\ y.slot = index.slot /\ y.resolved = index.resolved /\ y.base = index.base
        /\ y.waiting = index.waiting /\ y.registered = index.registered
    BY <1>1, <1>2, <1>4 DEF IndexRec
  <2> QED
    BY <1>4, <1>5, <2>1 DEF IndexRec
<1>7. IndexShape(index') /\ EdgesRight(index')
  <2>1. 1 \in 1 .. (Len(index.pack) + 1)
    BY <1>1 DEF IndexRec
  <2> HIDE DEF q
  <2> QED
    BY <1>1, <1>3, <1>6, <2>1, MoveOnKeeps
<1>8. NoneForgotten(index', {})
  BY <1>1, <1>6 DEF NoneForgotten, isReady
<1>9. ExternalRight(index', ext, {})
  <2>1. \A i \in DOMAIN index.pack : ~(i < 1)
    BY <1>1 DEF IndexRec
  <2> HIDE DEF q
  <2> QED
    BY <1>1, <1>6, <2>1 DEF ExternalRight
<1> HIDE DEF q
<1> QED
  BY <1>6, <1>7, <1>8, <1>9 DEF IndexInv, PassEnded

LEMMA DrainKeeps ==
  ASSUME NEW ext, IndexInv(index, ext), drainReadyDeferred
  PROVE  IndexInv(index', ext) /\ index'.pack = index.pack /\ index'.slot = index.slot
<1>1. PICK i \in index.ready :
        LET rest == [index EXCEPT !.ready = @ \ {i}]
        IN  index' = IF isReady(index, i) THEN resolveEntry(rest, i) ELSE rest
  BY DEF drainReadyDeferred
<1>2. PICK q : q = index.ready \ {i}
  OBVIOUS
<1>3. PICK rest : rest = [index EXCEPT !.ready = q]
  OBVIOUS
<1>4. index' = IF isReady(index, i) THEN resolveEntry(rest, i) ELSE rest
  BY <1>1, <1>2, <1>3
<1>5. /\ IndexShape(index) /\ EdgesRight(index) /\ NoneForgotten(index, {}) /\ ExternalRight(index, ext, {})
      /\ index.phase = "deferred" /\ index \in IndexRec /\ i \in DOMAIN index.pack
  BY DEF IndexInv, IndexShape, drainReadyDeferred
<1>6. /\ rest \in IndexRec /\ rest.at = index.at /\ rest.phase = "deferred" /\ rest.pack = index.pack
      /\ rest.slot = index.slot /\ rest.resolved = index.resolved /\ rest.base = index.base
      /\ rest.waiting = index.waiting /\ rest.registered = index.registered /\ rest.ready = q
  <2>1. q \in SUBSET Nat
    BY <1>2, <1>5 DEF IndexRec
  <2> QED
    BY <1>3, <1>5, <2>1 DEF IndexRec
<1>7. IndexShape(rest) /\ EdgesRight(rest)
  <2>1. q \subseteq DOMAIN index.pack /\ index.at \in 1 .. (Len(index.pack) + 1)
    BY <1>2, <1>5 DEF IndexShape
  <2> QED
    BY <1>5, <1>6, <2>1, MoveOnKeeps
<1>8. NoneForgotten(rest, {i})
  BY <1>2, <1>5, <1>6 DEF NoneForgotten
<1>9. ExternalRight(rest, ext, {})
  BY <1>5, <1>6 DEF ExternalRight
<1>10. i \in Nat
  BY <1>5 DEF IndexRec
<1>11. CASE isReady(index, i)
  <2>1. index' = resolveEntry(rest, i) /\ i \notin rest.resolved /\ rest.base[i] # 0
    BY <1>4, <1>6, <1>11 DEF isReady
  <2>2. ExternalRight(rest, ext, {i})
    BY <1>9 DEF ExternalRight
  <2>4. IndexInv(index', ext)
    BY <1>5, <1>6, <1>7, <1>8, <2>1, <2>2, ResolveEntryKeeps
  <2>3. index'.pack = rest.pack /\ index'.slot = rest.slot
    BY <1>6, <1>10, <2>1, ResolveEntryFrame
  <2> QED
    BY <1>6, <2>3, <2>4
<1>12. CASE ~isReady(index, i)
  <2>1. NoneForgotten(rest, {})
    BY <1>6, <1>8, <1>12 DEF NoneForgotten, isReady
  <2>2. PassEnded(rest)
    BY <1>6 DEF PassEnded
  <2> QED
    BY <1>4, <1>6, <1>7, <1>9, <1>12, <2>1, <2>2 DEF IndexInv
<1> QED
  BY <1>11, <1>12

LEMMA ExternalFallbackKeeps ==
  ASSUME NEW ext, ext = DecodableOids(externalPacks), IndexInv(index, ext), externalFallback
  PROVE  IndexInv(index', ext) /\ index'.pack = index.pack /\ index'.slot = index.slot
<1> DEFINE i == index.at
           next == [index EXCEPT !.at = @ + 1]
<1>1. /\ IndexShape(index) /\ EdgesRight(index) /\ NoneForgotten(index, {}) /\ ExternalRight(index, ext, {})
      /\ index.phase = "deferred" /\ i \in DOMAIN index.pack /\ index \in IndexRec
      /\ index.ready = {}
  BY DEF IndexInv, IndexShape, externalFallback, Entries
<1>2. i \in Nat /\ i + 1 \in Nat /\ i + 1 \in 1 .. (Len(index.pack) + 1) /\ index.pack \in Seq(Entry)
  <2>1. index.pack \in Seq(Entry)
    BY <1>1 DEF IndexRec
  <2> QED
    BY <1>1, <2>1
<1>3. /\ next \in IndexRec /\ next.at = i + 1 /\ next.phase = "deferred" /\ next.pack = index.pack
      /\ next.slot = index.slot /\ next.resolved = index.resolved /\ next.base = index.base
      /\ next.waiting = index.waiting /\ next.registered = index.registered /\ next.ready = {}
  <2>1. PICK n : n = i + 1
    OBVIOUS
  <2>2. next = [index EXCEPT !.at = n]
    BY <2>1
  <2>3. n \in Nat
    BY <1>2, <2>1
  <2> HIDE DEF next
  <2> QED
    BY <1>1, <2>1, <2>2, <2>3 DEF IndexRec
<1>4. index' = IF i \in index.resolved THEN next
               ELSE IF index.base[i] # 0 THEN enqueueReadyDeferred(next, {i})
               ELSE IF readExternalBaseObject(index.pack[i].ref) THEN resolveEntry(next, i)
               ELSE next
  BY DEF externalFallback
<1> HIDE DEF next
<1>5. IndexShape(next) /\ EdgesRight(next) /\ NoneForgotten(next, {})
  <2>1. NoneForgotten(next, {})
    BY <1>1, <1>3 DEF NoneForgotten
  <2> QED
    BY <1>1, <1>2, <1>3, <2>1, MoveOnKeeps
<1>6. \A j \in DOMAIN index.pack : j < i + 1 => j < i \/ j = i
  BY <1>2
<1>7. CASE i \in index.resolved \/ index.base[i] # 0 \/ ~readExternalBaseObject(index.pack[i].ref)
  <2>1. index.base[i] # 0 /\ i \notin index.resolved => enqueueReadyDeferred(next, {i}) = next
    <3>1. SUFFICES ASSUME index.base[i] # 0, i \notin index.resolved
                   PROVE  {j \in {i} : isReady(next, j)} = {}
      <4>1. \A Q : Q = {} => [next EXCEPT !.ready = next.ready \cup Q] = next
        BY <1>3 DEF IndexRec
      <4> QED
        BY <4>1, <1>3 DEF enqueueReadyDeferred
    <3>2. index.base[i] \notin index.resolved
      BY <1>1, <3>1 DEF NoneForgotten
    <3> QED
      BY <1>3, <3>2 DEF isReady
  <2>2. index' = next
    BY <1>4, <1>7, <2>1
  <2>3. ExternalRight(next, ext, {})
    <3>1. SUFFICES ASSUME NEW j \in DOMAIN index.pack, kindOf(index.pack[j]) = "ref", index.base[j] = 0
                   PROVE  /\ j \in index.resolved => index.pack[j].ref \in ext
                          /\ j \notin index.resolved /\ j < i + 1 => index.pack[j].ref \notin ext
      BY <1>3 DEF ExternalRight
    <3>2. j < i /\ j \notin index.resolved => index.pack[j].ref \notin ext
      BY <1>1, <3>1 DEF ExternalRight
    <3>3. j = i /\ j \notin index.resolved => index.pack[j].ref \notin ext
      BY <1>7, <3>1 DEF readExternalBaseObject
    <3> QED
      BY <1>1, <1>6, <3>1, <3>2, <3>3 DEF ExternalRight
  <2> QED
    BY <1>3, <1>5, <2>2, <2>3 DEF IndexInv, PassEnded
<1>8. CASE i \notin index.resolved /\ index.base[i] = 0 /\ readExternalBaseObject(index.pack[i].ref)
  <2>1. index' = resolveEntry(next, i)
    BY <1>4, <1>8
  <2>2. i \in index.waiting
    BY <1>1, <1>8 DEF NoneForgotten
  <2>3. kindOf(index.pack[i]) = "ref" /\ index.pack[i].ref \in ext
    BY <1>1, <1>8, <2>2 DEF NoneForgotten, readExternalBaseObject
  <2>4. NoneForgotten(next, {i})
    BY <1>5 DEF NoneForgotten
  <2>5. index'.pack = next.pack /\ index'.slot = next.slot
    BY <1>2, <1>3, <2>1, ResolveEntryFrame
  <2>6. ExternalRight(next, ext, {i})
    <3>1. \A j \in DOMAIN index.pack : j # i /\ j < i + 1 => j < i
      BY <1>6
    <3> QED
      BY <1>1, <1>3, <3>1 DEF ExternalRight
  <2>7. IndexInv(index', ext)
    BY <1>1, <1>3, <1>5, <1>8, <2>1, <2>3, <2>4, <2>6, ResolveEntryKeeps
  <2> QED
    BY <1>3, <2>5, <2>7
<1> QED
  BY <1>7, <1>8

LEMMA EndIndexKeeps ==
  ASSUME NEW ext, IndexInv(index, ext), endIndex
  PROVE  IndexInv(index', ext) /\ index'.pack = index.pack /\ index'.slot = index.slot
<1>1. /\ IndexShape(index) /\ EdgesRight(index) /\ NoneForgotten(index, {}) /\ ExternalRight(index, ext, {})
      /\ index.phase = "deferred" /\ index.at \notin DOMAIN index.pack /\ index \in IndexRec
      /\ index.ready = {}
  BY DEF IndexInv, IndexShape, endIndex, Entries
<1>2. PICK ph : ph = IF index.resolved = DOMAIN index.pack THEN "indexed" ELSE "failed"
  OBVIOUS
<1>3. index' = [index EXCEPT !.phase = ph]
  BY <1>2 DEF endIndex, Entries
<1>4. /\ index' \in IndexRec /\ index'.at = index.at /\ index'.phase = ph /\ index'.pack = index.pack
      /\ index'.slot = index.slot /\ index'.resolved = index.resolved /\ index'.base = index.base
      /\ index'.waiting = index.waiting /\ index'.registered = index.registered /\ index'.ready = {}
  <2>1. ph \in {"indexed", "failed"}
    BY <1>2
  <2> QED
    BY <1>1, <1>3, <2>1 DEF IndexRec
<1>5. IndexShape(index') /\ EdgesRight(index')
  <2>1. index.at \in 1 .. (Len(index.pack) + 1)
    BY <1>1 DEF IndexShape
  <2> QED
    BY <1>1, <1>4, <2>1, MoveOnKeeps
<1>6. NoneForgotten(index', {})
  BY <1>1, <1>4 DEF NoneForgotten
<1>7. ExternalRight(index', ext, {})
  BY <1>1, <1>4 DEF ExternalRight
<1>8. PassEnded(index')
  BY <1>1, <1>2, <1>4 DEF PassEnded
<1> QED
  BY <1>4, <1>5, <1>6, <1>7, <1>8 DEF IndexInv

LEMMA IndexStepKeeps ==
  ASSUME NEW ext, ext = DecodableOids(externalPacks), IndexInv(index, ext), IndexStep
  PROVE  IndexInv(index', ext) /\ index'.pack = index.pack /\ index'.slot = index.slot
BY MainPassKeeps, EndMainPassKeeps, DrainKeeps, ExternalFallbackKeeps, EndIndexKeeps DEF IndexStep

\* Where an object is stored once in a pack, its base entry is the one that is found.
LEMMA BeginIndexStarts ==
  ASSUME NEW pack, GoodPack(pack), NEW slot \in Nat, NEW ext, beginIndex(pack, slot)
  PROVE  IndexInv(index', ext) /\ index'.pack = pack /\ index'.slot = slot
<1> DEFINE D == DOMAIN pack
           base == buildMixedDependencies(pack, slot # 0)
           full == scanPack(pack)
           W == {i \in D : kindOf(pack[i]) = "ref" /\ base[i] = 0}
           R == {i \in D : base[i] # 0 /\ base[i] \notin full}
<1>1. pack \in Seq(Entry) /\ D = 1 .. Len(pack) /\ D \subseteq Nat \ {0}
  BY DEF GoodPack, SoundPack
<1>2. ASSUME NEW oid PROVE \A i, j \in D : pack[i].oid = oid /\ pack[j].oid = oid => i = j
  BY DEF GoodPack
<1>3. ASSUME NEW i \in D
      PROVE  /\ getResolvedBaseEntry(pack, i) # 0 =>
                   /\ getResolvedBaseEntry(pack, i) \in full
                   /\ pack[getResolvedBaseEntry(pack, i)].oid = pack[i].ref
             /\ getResolvedBaseEntry(pack, i) = 0 =>
                   \A k \in full : pack[k].oid # pack[i].ref
             /\ getResolvedBaseEntry(pack, i) \in Nat
  <2> DEFINE F == {j \in D : pack[j].oid = pack[i].ref /\ kindOf(pack[j]) = "full"}
  <2>1. getResolvedBaseEntry(pack, i) = IF F = {} THEN 0 ELSE Max(F)
    BY DEF getResolvedBaseEntry
  <2>2. CASE F = {}
    BY <2>1, <2>2 DEF scanPack
  <2>3. CASE F # {}
    <3>1. PICK k \in F : TRUE
      BY <2>3
    <3>2. F = {k}
      BY <1>2, <3>1
    <3>3. Max(F) \in F
      <4>1. \E x \in {k} : \A y \in {k} : x >= y
        BY <1>1, <3>1
      <4> HIDE DEF F
      <4> QED
        BY <3>2, <4>1 DEF Max
    <3>4. Max(F) = k
      BY <3>2, <3>3
    <3> QED
      BY <1>1, <2>1, <2>3, <3>1, <3>4 DEF scanPack
  <2> QED
    BY <2>2, <2>3
<1>4. ASSUME NEW i \in D
      PROVE  /\ findSamePackRefBaseEntry(pack, i) \in Nat
             /\ findSamePackRefBaseEntry(pack, i) # 0 =>
                   /\ findSamePackRefBaseEntry(pack, i) \in D
                   /\ pack[findSamePackRefBaseEntry(pack, i)].oid = pack[i].ref
  <2> DEFINE run == {j \in D : pack[j].oid = pack[i].ref}
             F == {j \in run \ {i} : kindOf(pack[j]) = "full"}
  <2>1. findSamePackRefBaseEntry(pack, i) =
          IF F # {} THEN Min(F) ELSE IF run = {} \/ i \in run THEN 0 ELSE Min(run)
    BY DEF findSamePackRefBaseEntry
  <2>2. ASSUME NEW S \in SUBSET run, S # {} PROVE Min(S) \in S
    <3>1. S \in SUBSET Nat
      BY <1>1
    <3>2. \E x \in S : \A y \in S : x <= y
      BY <2>2, <3>1, LeastNat
    <3> QED
      BY <3>2 DEF Min
  <2>3. F \in SUBSET run /\ run \in SUBSET run
    OBVIOUS
  <2>4. findSamePackRefBaseEntry(pack, i) \in run \cup {0}
    <3> HIDE DEF F, run
    <3> QED
      BY <2>1, <2>2, <2>3
  <2> QED
    BY <1>1, <2>4
<1>5. ASSUME NEW i \in D
      PROVE  /\ base[i] \in Nat
             /\ kindOf(pack[i]) = "full" => base[i] = 0
             /\ kindOf(pack[i]) = "ofs" => base[i] = pack[i].ofs
             /\ kindOf(pack[i]) = "ref" =>
                   /\ base[i] # 0 => base[i] \in D /\ pack[base[i]].oid = pack[i].ref
                   /\ base[i] # 0 /\ slot = 0 => base[i] \in full
                   /\ base[i] = 0 => \A k \in full : pack[k].oid # pack[i].ref
  <2> DEFINE same == IF slot # 0 THEN findSamePackRefBaseEntry(pack, i) ELSE 0
  <2>1. base[i] = CASE kindOf(pack[i]) = "full" -> 0
                    [] kindOf(pack[i]) = "ofs"  -> pack[i].ofs
                    [] kindOf(pack[i]) = "ref"  ->
                         IF same # 0 THEN same ELSE getResolvedBaseEntry(pack, i)
    BY DEF buildMixedDependencies
  <2>2. pack[i] \in Entry
    BY <1>1
  <2>3. kindOf(pack[i]) = "full" \/ kindOf(pack[i]) = "ofs" \/ kindOf(pack[i]) = "ref"
    BY DEF kindOf
  <2>4. CASE kindOf(pack[i]) = "full"
    BY <2>1, <2>4
  <2>5. CASE kindOf(pack[i]) = "ofs"
    BY <2>1, <2>2, <2>5 DEF Entry
  <2>6. CASE kindOf(pack[i]) = "ref"
    <3>1. base[i] = IF same # 0 THEN same ELSE getResolvedBaseEntry(pack, i)
      <4> HIDE DEF base, same
      <4> QED
        BY <2>1, <2>6
    <3>2. full \subseteq D
      BY DEF scanPack
    <3> HIDE DEF base, full
    <3> QED
      BY <1>3, <1>4, <2>6, <3>1, <3>2
  <2> QED
    BY <2>3, <2>4, <2>5, <2>6
<1>6. index' = [phase |-> "main", pack |-> pack, slot |-> slot, resolved |-> full, base |-> base,
                waiting |-> W, registered |-> R, ready |-> {}, at |-> 1]
  BY DEF beginIndex
<1>7. full \subseteq D /\ W \subseteq D /\ R \subseteq D
  BY DEF scanPack
<1>8. DOMAIN base = D /\ base \in [D -> Nat]
  <2> DEFINE g(i) == CASE kindOf(pack[i]) = "full" -> 0
                       [] kindOf(pack[i]) = "ofs"  -> pack[i].ofs
                       [] kindOf(pack[i]) = "ref"  ->
                            LET same == IF slot # 0 THEN findSamePackRefBaseEntry(pack, i) ELSE 0
                            IN  IF same # 0 THEN same ELSE getResolvedBaseEntry(pack, i)
  <2>0. base = [i \in D |-> g(i)]
    BY DEF buildMixedDependencies
  <2>1. base = [i \in D |-> base[i]]
    <3> HIDE DEF g, base
    <3> QED
      BY <2>0
  <2> HIDE DEF base
  <2> QED
    BY <1>5, <2>1
<1>9. 1 \in 1 .. (Len(pack) + 1)
  BY <1>1
<1>10. \A i \in D : kindOf(pack[i]) = "full" <=> i \in full
  BY DEF scanPack
<1>11. W = {i \in D : kindOf(pack[i]) = "ref" /\ base[i] = 0}
       /\ R = {i \in D : base[i] # 0 /\ base[i] \notin full}
  OBVIOUS
<1> HIDE DEF base, full, W, R
<1>12. /\ index'.phase = "main" /\ index'.pack = pack /\ index'.slot = slot /\ index'.resolved = full
       /\ index'.base = base /\ index'.waiting = W /\ index'.registered = R /\ index'.ready = {}
       /\ index'.at = 1
  BY <1>6
<1>13. index' \in IndexRec
  <2>1. full \in SUBSET Nat /\ W \in SUBSET Nat /\ R \in SUBSET Nat /\ D \in SUBSET Nat
    BY <1>1, <1>7
  <2>2. base \in UNION {[S -> Nat] : S \in SUBSET Nat}
    BY <1>8, <2>1
  <2> QED
    BY <1>1, <1>6, <2>1, <2>2 DEF IndexRec
<1>14. IndexShape(index')
  BY <1>7, <1>8, <1>9, <1>12, <1>13 DEF IndexShape
<1>15. EdgesRight(index')
  BY <1>5, <1>10, <1>12 DEF EdgesRight
<1>16. NoneForgotten(index', {})
  <2>1. \A i \in D : i >= 1
    BY <1>1
  <2>2. ASSUME NEW i \in D \ full PROVE base[i] = 0 => i \in W
    <3>1. kindOf(pack[i]) = "ref" \/ kindOf(pack[i]) = "ofs"
      BY <1>10 DEF kindOf
    <3>2. kindOf(pack[i]) = "ofs" => pack[i].ofs # 0
      BY DEF kindOf
    <3> QED
      BY <1>5, <1>11, <3>1, <3>2
  <2> QED
    BY <1>5, <1>11, <1>12, <2>1, <2>2 DEF NoneForgotten
<1>17. ExternalRight(index', ext, {})
  BY <1>10, <1>12 DEF ExternalRight
<1> QED
  BY <1>12, <1>14, <1>15, <1>16, <1>17 DEF IndexInv, PassEnded


\* A pass over a good pack fails on nothing but a thin base that is not to be had.
LEMMA FailedLacksBase ==
  ASSUME NEW x, NEW ext, IndexInv(x, ext), GoodPack(x.pack), x.phase = "failed"
  PROVE  \E i \in DOMAIN x.pack : /\ kindOf(x.pack[i]) = "ref"
                                  /\ x.pack[i].ref \notin Oids(x.pack) \cup ext
<1> DEFINE D == DOMAIN x.pack
<1>1. SUFFICES ASSUME \A i \in D : kindOf(x.pack[i]) = "ref" => x.pack[i].ref \in Oids(x.pack) \cup ext
               PROVE  FALSE
  OBVIOUS
<1>2. /\ IndexShape(x) /\ EdgesRight(x) /\ NoneForgotten(x, {}) /\ ExternalRight(x, ext, {})
      /\ x.ready = {} /\ x.at \notin D /\ x.resolved # D /\ x.resolved \subseteq D
  BY DEF IndexInv, PassEnded, IndexShape
<1>3. \A i \in D : i < x.at
  <2>1. x.pack \in Seq(Entry) /\ x.at \in 1 .. (Len(x.pack) + 1)
    BY <1>2 DEF IndexShape, IndexRec
  <2>2. D = 1 .. Len(x.pack) /\ Len(x.pack) \in Nat
    BY <2>1
  <2> QED
    BY <1>2, <2>1, <2>2
<1>4. ASSUME NEW i \in D \ x.resolved, x.base[i] # 0 PROVE x.base[i] \notin x.resolved
  BY <1>2, <1>4 DEF NoneForgotten
<1>5. groundedFrom(x.pack, x.resolved) \subseteq x.resolved
  <2>1. SUFFICES ASSUME NEW i \in groundedFrom(x.pack, x.resolved), i \notin x.resolved PROVE FALSE
    OBVIOUS
  <2>2. i \in D
    BY DEF groundedFrom
  <2>3. CASE kindOf(x.pack[i]) = "full"
    BY <1>2, <2>1, <2>2, <2>3 DEF EdgesRight
  <2>4. CASE kindOf(x.pack[i]) = "ofs"
    <3>1. x.pack[i].ofs # 0
      BY <2>4 DEF kindOf
    <3>2. x.pack[i].ofs \in x.resolved
      BY <2>4 DEF groundedFrom
    <3>3. x.base[i] = x.pack[i].ofs
      BY <1>2, <2>2, <2>4 DEF EdgesRight
    <3> QED
      BY <1>4, <2>1, <2>2, <3>1, <3>2, <3>3
  <2>5. CASE kindOf(x.pack[i]) = "ref"
    <3>1. x.pack[i].ref \in Oids(x.pack) => \E j \in x.resolved : x.pack[j].oid = x.pack[i].ref
      BY <2>5 DEF groundedFrom
    <3>2. CASE x.base[i] = 0
      <4>1. \A k \in x.resolved : x.pack[k].oid # x.pack[i].ref
        BY <1>2, <2>1, <2>2, <3>2 DEF NoneForgotten
      <4>2. x.pack[i].ref \in ext
        BY <1>1, <2>2, <2>5, <3>1, <4>1
      <4>3. x.phase # "main"
        OBVIOUS
      <4> QED
        BY <1>2, <1>3, <2>1, <2>2, <2>5, <3>2, <4>2, <4>3 DEF ExternalRight
    <3>3. CASE x.base[i] # 0
      <4>1. x.base[i] \in D /\ x.pack[x.base[i]].oid = x.pack[i].ref
        BY <1>2, <2>2, <2>5, <3>3 DEF EdgesRight
      <4>2. PICK j \in x.resolved : x.pack[j].oid = x.pack[i].ref
        BY <3>1, <4>1 DEF Oids
      <4>3. j = x.base[i]
        BY <1>2, <4>1, <4>2 DEF GoodPack
      <4> QED
        BY <1>4, <2>1, <2>2, <3>3, <4>2, <4>3
    <3> QED
      BY <3>2, <3>3
  <2> QED
    BY <2>3, <2>4, <2>5 DEF kindOf
<1>6. grounded(x.pack) \subseteq x.resolved
  BY <1>2, <1>5, GroundedOut
<1> QED
  BY <1>2, <1>6 DEF GoodPack

\* A pass that ends well has found the thin bases in the active packs.
LEMMA IndexedHasBases ==
  ASSUME NEW x, NEW ext, IndexInv(x, ext), x.phase = "indexed", NEW i \in DOMAIN x.pack
  PROVE  x.pack[i].ref \in {NoOid} \cup Oids(x.pack) \cup ext
<1>1. SUFFICES ASSUME x.pack[i].ref # NoOid PROVE x.pack[i].ref \in Oids(x.pack) \cup ext
  OBVIOUS
<1>2. kindOf(x.pack[i]) = "ref"
  BY <1>1 DEF kindOf
<1>3. EdgesRight(x) /\ ExternalRight(x, ext, {}) /\ i \in x.resolved
  BY DEF IndexInv, PassEnded
<1>4. CASE x.base[i] = 0
  BY <1>2, <1>3, <1>4 DEF ExternalRight
<1>5. CASE x.base[i] # 0
  BY <1>2, <1>3, <1>5 DEF EdgesRight, Oids
<1> QED
  BY <1>4, <1>5

\* Base edges end in whole entries and external bases.
LEMMA EdgesRecomputable ==
  ASSUME NEW ext, IndexInv(index, ext), GoodPack(index.pack)
  PROVE  Materializable = Entries
<1> DEFINE next(S) == {i \in Entries : index.base[i] \in S \cup {0}}
<1>1. ASSUME NEW S \in SUBSET Entries, next(S) \subseteq S PROVE Entries \subseteq S
  <2>1. ASSUME NEW i \in groundedFrom(index.pack, S) PROVE i \in S
    <3>1. i \in Entries /\ EdgesRight(index)
      BY DEF groundedFrom, Entries, IndexInv
    <3>2. SUFFICES index.base[i] \in S \cup {0}
      BY <1>1, <3>1
    <3>3. CASE kindOf(index.pack[i]) = "full"
      BY <3>1, <3>3 DEF EdgesRight, Entries
    <3>4. CASE kindOf(index.pack[i]) = "ofs"
      BY <3>1, <3>4 DEF EdgesRight, Entries, groundedFrom
    <3>5. CASE kindOf(index.pack[i]) = "ref" /\ index.base[i] # 0
      <4>1. index.base[i] \in Entries /\ index.pack[index.base[i]].oid = index.pack[i].ref
        BY <3>1, <3>5 DEF EdgesRight, Entries
      <4>2. PICK j \in S : index.pack[j].oid = index.pack[i].ref
        BY <3>5, <4>1 DEF groundedFrom, Oids, Entries
      <4>3. j = index.base[i]
        BY <4>1, <4>2 DEF GoodPack, Entries
      <4> QED
        BY <4>2, <4>3
    <3> QED
      BY <3>3, <3>4, <3>5 DEF kindOf
  <2>2. grounded(index.pack) \subseteq S
    BY <2>1, GroundedOut DEF Entries
  <2> QED
    BY <2>2 DEF GoodPack, Entries
<1>2. next(Entries) \subseteq Entries
  OBVIOUS
<1> QED
  BY <1>1, <1>2 DEF Materializable, Least

-----------------------------------------------------------------------------
(* Catalogs *)

\* Every pack of the catalog is good, and its thin bases are in older packs.
CatalogInv(packs) == packs \in Seq(Seq(Entry)) /\ Standing(packs, 0)

LEMMA OidsIn ==
  ASSUME NEW packs \in Seq(Seq(Entry)), NEW oid \in StoredOids(packs)
  PROVE  \E p \in DOMAIN packs : oid \in Oids(packs[p])
<1>1. PICK pos \in Positions(packs) : EntryAt(packs, pos).oid = oid
  BY DEF StoredOids
<1>2. pos[1] \in DOMAIN packs /\ pos[2] \in DOMAIN packs[pos[1]]
      /\ EntryAt(packs, pos) = packs[pos[1]][pos[2]]
  BY PositionParts
<1> QED
  BY <1>1, <1>2 DEF Oids

\* A pack on top, whose thin bases are stored.
LEMMA PushedStands ==
  ASSUME NEW packs, CatalogInv(packs), NEW pack, GoodPack(pack),
         \A i \in DOMAIN pack : pack[i].ref \in {NoOid} \cup Oids(pack) \cup StoredOids(packs)
  PROVE  CatalogInv(<<pack>> \o packs)
<1>1. pack \in Seq(Entry) /\ packs \in Seq(Seq(Entry))
  BY DEF GoodPack, SoundPack, CatalogInv
<1> DEFINE all == <<pack>> \o packs
<1>2. /\ all \in Seq(Seq(Entry)) /\ Len(all) = Len(packs) + 1 /\ DOMAIN all = 1 .. (Len(packs) + 1)
      /\ DOMAIN packs = 1 .. Len(packs) /\ Len(packs) \in Nat
      /\ all[1] = pack /\ \A p \in DOMAIN packs : all[p + 1] = packs[p]
  BY <1>1
<1> HIDE DEF all
<1>3. ASSUME NEW p \in DOMAIN all
      PROVE  /\ GoodPack(all[p])
             /\ \A i \in DOMAIN all[p] :
                  all[p][i].ref \in {NoOid} \cup Oids(all[p])
                                    \cup UNION {Oids(all[q]) : q \in {r \in DOMAIN all : r > p}}
  <2>1. CASE p = 1
    <3>1. StoredOids(packs) \subseteq UNION {Oids(all[q]) : q \in {r \in DOMAIN all : r > 1}}
      <4>1. SUFFICES ASSUME NEW oid \in StoredOids(packs)
                     PROVE  \E r \in DOMAIN all : r > 1 /\ oid \in Oids(all[r])
        OBVIOUS
      <4>2. PICK q \in DOMAIN packs : oid \in Oids(packs[q])
        BY <1>1, OidsIn
      <4>3. q + 1 \in DOMAIN all /\ q + 1 > 1 /\ all[q + 1] = packs[q]
        BY <1>2
      <4> QED
        BY <4>2, <4>3
    <3> QED
      BY <1>2, <2>1, <3>1
  <2>2. CASE p # 1
    <3>1. p - 1 \in DOMAIN packs /\ all[p] = packs[p - 1] /\ p \in Nat
      <4>1. p - 1 \in DOMAIN packs /\ p = (p - 1) + 1
        BY <1>2, <2>2
      <4> QED
        BY <1>2, <4>1
    <3>2. \A q \in DOMAIN packs : q > p - 1 =>
             q + 1 \in DOMAIN all /\ q + 1 > p /\ all[q + 1] = packs[q]
      BY <1>2, <3>1
    <3>3. /\ GoodPack(packs[p - 1])
          /\ \A i \in DOMAIN packs[p - 1] :
               packs[p - 1][i].ref \in {NoOid} \cup Oids(packs[p - 1])
                  \cup UNION {Oids(packs[q]) : q \in {r \in DOMAIN packs : r > p - 1}}
      <4>1. p - 1 > 0
        BY <1>2, <3>1
      <4> QED
        BY <3>1, <4>1 DEF CatalogInv, Standing
    <3>4. UNION {Oids(packs[q]) : q \in {r \in DOMAIN packs : r > p - 1}}
            \subseteq UNION {Oids(all[q]) : q \in {r \in DOMAIN all : r > p}}
      <4>1. SUFFICES ASSUME NEW q \in DOMAIN packs, q > p - 1, NEW oid \in Oids(packs[q])
                     PROVE  \E r \in DOMAIN all : r > p /\ oid \in Oids(all[r])
        OBVIOUS
      <4> QED
        BY <3>2, <4>1
    <3> QED
      BY <3>1, <3>3, <3>4
  <2> QED
    BY <2>1, <2>2
<1> QED
  BY <1>2, <1>3 DEF CatalogInv, Standing, all

LEMMA SubSeqParts ==
  ASSUME NEW S, NEW s \in Seq(S), NEW m \in 1 .. Len(s) + 1, NEW n \in m - 1 .. Len(s)
  PROVE  /\ SubSeq(s, m, n) \in Seq(S)
         /\ Len(SubSeq(s, m, n)) = n - m + 1
         /\ DOMAIN SubSeq(s, m, n) = 1 .. n - m + 1
         /\ \A i \in 1 .. n - m + 1 : SubSeq(s, m, n)[i] = s[m + i - 1]
<1>1. Len(s) \in Nat /\ m \in Int /\ n \in Int
  OBVIOUS
<1>2. \A i \in m .. n : s[i] \in S
  BY <1>1
<1> QED
  BY <1>1, <1>2

LEMMA ConcatParts ==
  ASSUME NEW S, NEW s1 \in Seq(S), NEW s2 \in Seq(S), NEW a \in Nat, a = Len(s1), NEW b \in Nat, b = Len(s2)
  PROVE  /\ s1 \o s2 \in Seq(S)
         /\ Len(s1 \o s2) = a + b
         /\ DOMAIN (s1 \o s2) = 1 .. a + b
         /\ \A i \in 1 .. a + b : (s1 \o s2)[i] = IF i <= a THEN s1[i] ELSE s2[i - a]
BY ConcatProperties

\* A sequence without its k-th element.
LEMMA WithoutParts ==
  ASSUME NEW S, NEW s \in Seq(S), NEW n \in Nat, n = Len(s), NEW k \in 1 .. n
  PROVE  /\ RemoveAt(s, k) \in Seq(S)
         /\ DOMAIN RemoveAt(s, k) = 1 .. n - 1
         /\ \A q \in k + 1 .. n : RemoveAt(s, k)[q - 1] = s[q]
<1>1. PICK k0, k1 : k0 = k - 1 /\ k1 = k + 1
  OBVIOUS
<1>2. /\ 1 \in 1 .. n + 1 /\ k0 \in 1 - 1 .. n /\ k1 \in 1 .. n + 1 /\ n \in k1 - 1 .. n
      /\ k0 - 1 + 1 = k0 /\ n - k1 + 1 = n - k /\ k0 \in Nat /\ n - k \in Nat /\ k0 + (n - k) = n - 1
  BY <1>1
<1> DEFINE front == SubSeq(s, 1, k0)
           back == SubSeq(s, k1, n)
<1>3. front \in Seq(S) /\ Len(front) = k0
  BY <1>2, SubSeqParts
<1>4. back \in Seq(S) /\ Len(back) = n - k /\ \A q \in 1 .. n - k : back[q] = s[k1 + q - 1]
  <2>1. /\ back \in Seq(S) /\ Len(back) = n - k1 + 1
        /\ \A q \in 1 .. n - k1 + 1 : back[q] = s[k1 + q - 1]
    BY <1>2, SubSeqParts
  <2> HIDE DEF back
  <2> QED
    BY <1>2, <2>1
<1>5. RemoveAt(s, k) = front \o back
  BY <1>1 DEF RemoveAt
<1> HIDE DEF front, back
<1>6. /\ front \o back \in Seq(S) /\ DOMAIN (front \o back) = 1 .. k0 + (n - k)
      /\ \A q \in 1 .. k0 + (n - k) : (front \o back)[q] = IF q <= k0 THEN front[q] ELSE back[q - k0]
  <2>1. PICK b \in Nat : b = n - k
    BY <1>2
  <2>2. k0 \in Nat /\ k0 = Len(front) /\ b = Len(back) /\ front \in Seq(S) /\ back \in Seq(S)
    BY <1>2, <1>3, <1>4, <2>1
  <2>3. /\ front \o back \in Seq(S)
        /\ DOMAIN (front \o back) = 1 .. k0 + b
        /\ \A q \in 1 .. k0 + b : (front \o back)[q] = IF q <= k0 THEN front[q] ELSE back[q - k0]
    BY <2>2, ConcatParts
  <2> QED
    BY <2>1, <2>3
<1>7. ASSUME NEW q \in k + 1 .. n PROVE (front \o back)[q - 1] = s[q]
  <2>1. q - 1 \in 1 .. k0 + (n - k) /\ ~(q - 1 <= k0) /\ (q - 1) - k0 = q - k
        /\ q - k \in 1 .. n - k /\ k1 + (q - k) - 1 = q
    BY <1>1, <1>7
  <2> QED
    BY <1>4, <1>6, <2>1
<1> QED
  BY <1>2, <1>5, <1>6, <1>7

\* A sequence whose elements from lo to hi give way to one.
Spliced(s, lo, hi, e) == SubSeq(s, 1, lo - 1) \o <<e>> \o SubSeq(s, hi + 1, Len(s))

IsSpliced(new, s, n, lo, hi, e) ==
    /\ DOMAIN new = 1 .. n - (hi - lo)
    /\ \A q \in 1 .. lo - 1 : new[q] = s[q]
    /\ new[lo] = e
    /\ \A q \in hi + 1 .. n : new[q - (hi - lo)] = s[q]

LEMMA SplicedParts ==
  ASSUME NEW S, NEW s \in Seq(S), NEW n \in Nat, n = Len(s), NEW e \in S,
         NEW lo \in 1 .. n, NEW hi \in lo .. n
  PROVE  /\ Spliced(s, lo, hi, e) \in Seq(S)
         /\ IsSpliced(Spliced(s, lo, hi, e), s, n, lo, hi, e)
<1> DEFINE new == Spliced(s, lo, hi, e)
<1>1. PICK k0, k1 : k0 = lo - 1 /\ k1 = hi + 1
  OBVIOUS
<1>2. /\ 1 \in 1 .. n + 1 /\ k0 \in 1 - 1 .. n /\ k1 \in 1 .. n + 1 /\ n \in k1 - 1 .. n
      /\ k0 - 1 + 1 = k0 /\ n - k1 + 1 = n - hi /\ k0 \in Nat /\ n - hi \in Nat /\ k0 + 1 = lo
      /\ lo + (n - hi) = n - (hi - lo)
  BY <1>1
<1> DEFINE front == SubSeq(s, 1, k0)
           back == SubSeq(s, k1, n)
           begin == front \o <<e>>
<1>3. front \in Seq(S) /\ Len(front) = k0 /\ \A q \in 1 .. k0 : front[q] = s[1 + q - 1]
  <2>1. /\ front \in Seq(S) /\ Len(front) = k0 - 1 + 1
        /\ \A q \in 1 .. k0 - 1 + 1 : front[q] = s[1 + q - 1]
    BY <1>2, SubSeqParts
  <2> HIDE DEF front
  <2> QED
    BY <1>2, <2>1
<1>4. back \in Seq(S) /\ Len(back) = n - hi /\ \A q \in 1 .. n - hi : back[q] = s[k1 + q - 1]
  <2>1. /\ back \in Seq(S) /\ Len(back) = n - k1 + 1
        /\ \A q \in 1 .. n - k1 + 1 : back[q] = s[k1 + q - 1]
    BY <1>2, SubSeqParts
  <2> HIDE DEF back
  <2> QED
    BY <1>2, <2>1
<1>5. new = begin \o back
  BY <1>1 DEF Spliced
<1> HIDE DEF new
<1> HIDE DEF front, back
<1>6. begin \in Seq(S) /\ Len(begin) = lo /\ begin[lo] = e /\ \A q \in 1 .. k0 : begin[q] = s[q]
  <2>1. <<e>> \in Seq(S) /\ Len(<<e>>) = 1 /\ <<e>>[1] = e
    OBVIOUS
  <2>2. /\ begin \in Seq(S) /\ Len(begin) = k0 + 1
        /\ \A q \in 1 .. k0 + 1 : begin[q] = IF q <= k0 THEN front[q] ELSE <<e>>[q - k0]
    <3>1. k0 \in Nat /\ k0 = Len(front) /\ 1 = Len(<<e>>) /\ front \in Seq(S) /\ 1 \in Nat
      BY <1>2, <1>3
    <3>2. /\ begin \in Seq(S) /\ Len(begin) = k0 + 1
          /\ DOMAIN begin = 1 .. k0 + 1
          /\ \A q \in 1 .. k0 + 1 : begin[q] = IF q <= k0 THEN front[q] ELSE <<e>>[q - k0]
      BY <2>1, <3>1, ConcatParts
    <3> QED
      BY <3>2
  <2>3. lo \in 1 .. k0 + 1 /\ ~(lo <= k0) /\ lo - k0 = 1
    BY <1>1
  <2>4. \A q \in 1 .. k0 : q \in 1 .. k0 + 1 /\ q <= k0 /\ 1 + q - 1 = q
    BY <1>2
  <2> QED
    BY <1>2, <1>3, <2>1, <2>2, <2>3, <2>4
<1> HIDE DEF begin
<1>7. /\ begin \o back \in Seq(S) /\ DOMAIN (begin \o back) = 1 .. lo + (n - hi)
      /\ \A q \in 1 .. lo + (n - hi) : (begin \o back)[q] = IF q <= lo THEN begin[q] ELSE back[q - lo]
  <2>1. PICK b \in Nat : b = n - hi
    BY <1>2
  <2>2. lo \in Nat /\ lo = Len(begin) /\ b = Len(back) /\ begin \in Seq(S) /\ back \in Seq(S)
    BY <1>2, <1>4, <1>6, <2>1
  <2>3. /\ begin \o back \in Seq(S)
        /\ DOMAIN (begin \o back) = 1 .. lo + b
        /\ \A q \in 1 .. lo + b : (begin \o back)[q] = IF q <= lo THEN begin[q] ELSE back[q - lo]
    BY <2>2, ConcatParts
  <2> QED
    BY <2>1, <2>3
<1>8. ASSUME NEW q \in hi + 1 .. n PROVE new[q - (hi - lo)] = s[q]
  <2>1. q - (hi - lo) \in 1 .. lo + (n - hi) /\ ~(q - (hi - lo) <= lo) /\ q - (hi - lo) - lo = q - hi
        /\ q - hi \in 1 .. n - hi /\ k1 + (q - hi) - 1 = q
    BY <1>1, <1>8
  <2> QED
    BY <1>4, <1>5, <1>7, <2>1
<1>9. ASSUME NEW q \in 1 .. lo PROVE new[q] = begin[q]
  <2>1. q \in 1 .. lo + (n - hi) /\ q <= lo
    BY <1>2
  <2> QED
    BY <1>5, <1>7, <2>1
<1>10. lo \in 1 .. lo /\ \A q \in 1 .. lo - 1 : q \in 1 .. lo /\ q \in 1 .. k0
  BY <1>1
<1>11. new \in Seq(S) /\ DOMAIN new = 1 .. n - (hi - lo)
  BY <1>2, <1>5, <1>7
<1> QED
  BY <1>6, <1>8, <1>9, <1>10, <1>11 DEF new, IsSpliced

LEMMA StoredMonotone ==
  ASSUME NEW packs, NEW p \in DOMAIN packs, NEW oid \in Oids(packs[p])
  PROVE  oid \in StoredOids(packs)
BY StoredIn

\* A pack of the catalog finds its thin bases among the other packs.
LEMMA BackfillHasBases ==
  ASSUME NEW packs, CatalogInv(packs), NEW slot \in DOMAIN packs, NEW i \in DOMAIN packs[slot]
  PROVE  packs[slot][i].ref \in {NoOid} \cup Oids(packs[slot]) \cup DecodableOids(RemoveAt(packs, slot))
<1> DEFINE later(s, p) == UNION {Oids(s[q]) : q \in {r \in DOMAIN s : r > p}}
<1>1. PICK rest : rest = RemoveAt(packs, slot)
  OBVIOUS
<1>2. PICK n \in Nat : n = Len(packs) /\ DOMAIN packs = 1 .. n
  BY DEF CatalogInv
<1>0. packs \in Seq(Seq(Entry))
  BY DEF CatalogInv
<1>4. slot \in Nat /\ slot \in 1 .. n /\ slot - 1 \in Nat
  BY <1>2
<1>3. /\ rest \in Seq(Seq(Entry)) /\ DOMAIN rest = 1 .. n - 1
      /\ \A q \in slot + 1 .. n : rest[q - 1] = packs[q]
  <2>1. PICK T : T = Seq(Entry)
    OBVIOUS
  <2>2. packs \in Seq(T) /\ n = Len(packs) /\ slot \in 1 .. n
    BY <1>0, <1>2, <1>4, <2>1
  <2>3. /\ RemoveAt(packs, slot) \in Seq(T)
        /\ DOMAIN RemoveAt(packs, slot) = 1 .. n - 1
        /\ \A q \in slot + 1 .. n : RemoveAt(packs, slot)[q - 1] = packs[q]
    BY <2>2, WithoutParts
  <2> QED
    BY <1>1, <2>1, <2>3
<1>5. ASSUME NEW p \in DOMAIN packs
      PROVE  /\ GoodPack(packs[p])
             /\ \A k \in DOMAIN packs[p] : packs[p][k].ref \in {NoOid} \cup Oids(packs[p]) \cup later(packs, p)
  <2>1. p > 0
    BY <1>2
  <2> QED
    BY <2>1 DEF CatalogInv, Standing
<1>6. ASSUME NEW q \in DOMAIN packs, q > slot
      PROVE  q - 1 \in DOMAIN rest /\ q - 1 > slot - 1 /\ rest[q - 1] = packs[q]
  <2>1. q \in slot + 1 .. n /\ q - 1 \in 1 .. n - 1 /\ q - 1 > slot - 1
    BY <1>2, <1>4, <1>6
  <2> QED
    BY <1>3, <2>1
<1>7. Standing(rest, slot - 1)
  <2>1. SUFFICES ASSUME NEW p \in DOMAIN rest, p > slot - 1
                 PROVE  /\ GoodPack(rest[p])
                        /\ \A k \in DOMAIN rest[p] :
                             rest[p][k].ref \in {NoOid} \cup Oids(rest[p]) \cup later(rest, p)
    BY DEF Standing
  <2>2. PICK was : was = p + 1
    OBVIOUS
  <2>3. was \in slot + 1 .. n /\ was \in DOMAIN packs /\ was - 1 = p
    <3>1. p \in 1 .. n - 1
      BY <1>3
    <3>2. was \in slot + 1 .. n /\ was \in 1 .. n /\ was - 1 = p
      BY <1>4, <2>1, <2>2, <3>1
    <3> QED
      BY <1>2, <3>2
  <2>4. rest[p] = packs[was]
    BY <1>3, <2>3
  <2>5. later(packs, was) \subseteq later(rest, p)
    <3>1. SUFFICES ASSUME NEW q \in DOMAIN packs, q > was, NEW oid \in Oids(packs[q])
                   PROVE  \E r \in DOMAIN rest : r > p /\ oid \in Oids(rest[r])
      OBVIOUS
    <3>2. q > slot /\ q - 1 > p
      BY <1>2, <1>4, <2>3, <3>1
    <3> QED
      BY <1>6, <3>1, <3>2
  <2> QED
    BY <1>5, <2>3, <2>4, <2>5
<1>8. ASSUME NEW q \in DOMAIN packs, q > slot, NEW oid \in Oids(packs[q])
      PROVE  oid \in DecodableOids(rest)
  <2>1. PICK k \in DOMAIN packs[q] : packs[q][k].oid = oid
    BY <1>8 DEF Oids
  <2>2. PICK p : p = q - 1
    OBVIOUS
  <2>3. p \in DOMAIN rest /\ p > slot - 1 /\ rest[p] = packs[q]
    BY <1>6, <1>8, <2>2
  <2>4. <<p, k>> \in Positions(rest) /\ EntryAt(rest, <<p, k>>) = packs[q][k] /\ <<p, k>>[1] > slot - 1
    BY <2>1, <2>3, PositionIn
  <2>5. <<p, k>> \in Decodable(rest)
    BY <1>3, <1>4, <1>7, <2>4, StandingDecodes
  <2> QED
    BY <2>1, <2>4, <2>5 DEF DecodableOids
<1>9. later(packs, slot) \subseteq DecodableOids(rest)
  BY <1>8
<1> QED
  BY <1>1, <1>5, <1>9

\* A pack that stands alone and has all their objects, in place of some packs.
LEMMA ReplacedStands ==
  ASSUME NEW packs, CatalogInv(packs), NEW lo \in DOMAIN packs, NEW hi \in DOMAIN packs, lo < hi,
         NEW out, GoodPack(out), \A i \in DOMAIN out : out[i].ref \in {NoOid} \cup Oids(out),
         StoredOids(SubSeq(packs, lo, hi)) \subseteq Oids(out)
  PROVE  CatalogInv(SubSeq(packs, 1, lo - 1) \o <<out>> \o SubSeq(packs, hi + 1, Len(packs)))
<1> DEFINE later(s, p) == UNION {Oids(s[q]) : q \in {r \in DOMAIN s : r > p}}
           right(s, p) == /\ GoodPack(s[p])
                          /\ \A i \in DOMAIN s[p] : s[p][i].ref \in {NoOid} \cup Oids(s[p]) \cup later(s, p)
<1>1. PICK new : new = Spliced(packs, lo, hi, out)
  OBVIOUS
<1>2. PICK n \in Nat : n = Len(packs) /\ DOMAIN packs = 1 .. n
  BY DEF CatalogInv
<1>3. lo \in 1 .. n /\ hi \in lo .. n
  BY <1>2
<1>4. PICK cut : cut = hi - lo
  OBVIOUS
<1>5. cut \in Nat /\ n - cut \in Nat /\ lo \in 1 .. n - cut
  BY <1>3, <1>4
<1>6. /\ new \in Seq(Seq(Entry)) /\ DOMAIN new = 1 .. n - cut
      /\ \A q \in 1 .. lo - 1 : new[q] = packs[q]
      /\ new[lo] = out
      /\ \A q \in hi + 1 .. n : new[q - cut] = packs[q]
  <2>1. packs \in Seq(Seq(Entry)) /\ out \in Seq(Entry)
    BY DEF CatalogInv, GoodPack, SoundPack
  <2>2. /\ new \in Seq(Seq(Entry)) /\ DOMAIN new = 1 .. n - (hi - lo)
        /\ \A q \in 1 .. lo - 1 : new[q] = packs[q]
        /\ new[lo] = out
        /\ \A q \in hi + 1 .. n : new[q - (hi - lo)] = packs[q]
    <3>1. PICK T : T = Seq(Entry)
      OBVIOUS
    <3>2. packs \in Seq(T) /\ out \in T /\ n \in Nat /\ n = Len(packs) /\ lo \in 1 .. n /\ hi \in lo .. n
      BY <1>2, <1>3, <2>1, <3>1
    <3>3. new \in Seq(T) /\ IsSpliced(new, packs, n, lo, hi, out)
      BY <1>1, <3>2, SplicedParts
    <3> QED
      BY <3>1, <3>3 DEF IsSpliced
  <2> QED
    BY <1>4, <2>2
<1>7. ASSUME NEW p \in DOMAIN packs PROVE right(packs, p)
  <2>1. p > 0
    BY <1>2
  <2> QED
    BY <2>1 DEF CatalogInv, Standing
<1>8. ASSUME NEW q \in lo .. hi, NEW oid \in Oids(packs[q]) PROVE oid \in Oids(new[lo])
  <2>1. PICK k : k = q - lo + 1
    OBVIOUS
  <2>2. k \in 1 .. hi - lo + 1 /\ lo + k - 1 = q /\ lo \in 1 .. n + 1 /\ hi \in lo - 1 .. n
    BY <1>3, <1>8, <2>1
  <2> DEFINE gone == SubSeq(packs, lo, hi)
  <2>3. DOMAIN gone = 1 .. hi - lo + 1 /\ \A j \in 1 .. hi - lo + 1 : gone[j] = packs[lo + j - 1]
    <3>1. packs \in Seq(Seq(Entry))
      BY DEF CatalogInv
    <3>2. PICK T : T = Seq(Entry)
      OBVIOUS
    <3>3. packs \in Seq(T) /\ lo \in 1 .. Len(packs) + 1 /\ hi \in lo - 1 .. Len(packs)
      BY <1>2, <2>2, <3>1, <3>2
    <3> QED
      BY <3>3, SubSeqParts
  <2> HIDE DEF gone
  <2>4. k \in DOMAIN gone /\ gone[k] = packs[q]
    BY <2>2, <2>3
  <2>5. oid \in StoredOids(gone)
    BY <1>8, <2>4, StoredMonotone
  <2> QED
    BY <1>6, <2>5 DEF gone
<1>9. ASSUME NEW p \in 1 .. lo - 1 PROVE right(new, p)
  <2>1. p \in 1 .. n /\ lo > p /\ p \in 1 .. n - cut
    BY <1>3, <1>5, <1>9
  <2>2. p \in DOMAIN packs /\ new[p] = packs[p] /\ lo \in DOMAIN new /\ p \in DOMAIN new
    BY <1>2, <1>5, <1>6, <1>9, <2>1
  <2>3. ASSUME NEW q \in DOMAIN packs, q > p, NEW oid \in Oids(packs[q])
        PROVE  \E r \in DOMAIN new : r > p /\ oid \in Oids(new[r])
    <3>1. q \in 1 .. n
      BY <1>2, <2>3
    <3>2. CASE q < lo
      <4>1. q \in 1 .. lo - 1 /\ q \in 1 .. n - cut
        BY <1>3, <1>5, <3>1, <3>2
      <4> QED
        BY <1>6, <2>3, <4>1
    <3>3. CASE q \in lo .. hi
      BY <1>8, <2>1, <2>2, <2>3, <3>3
    <3>4. CASE q > hi
      <4>1. q \in hi + 1 .. n /\ q - cut \in 1 .. n - cut /\ q - cut > p
        BY <1>3, <1>4, <1>5, <1>9, <3>1, <3>4
      <4> QED
        BY <1>6, <2>3, <4>1
    <3>5. q < lo \/ q \in lo .. hi \/ q > hi
      BY <1>3, <3>1
    <3> QED
      BY <3>2, <3>3, <3>4, <3>5
  <2>4. later(packs, p) \subseteq later(new, p)
    BY <2>3
  <2> QED
    BY <1>7, <2>2, <2>4
<1>10. right(new, lo)
  BY <1>6
<1>11. ASSUME NEW p \in lo + 1 .. n - cut PROVE right(new, p)
  <2>1. PICK was : was = p + cut
    OBVIOUS
  <2>2. was \in hi + 1 .. n /\ was \in 1 .. n /\ was - cut = p /\ p \in 1 .. n - cut
    BY <1>3, <1>4, <1>5, <1>11, <2>1
  <2>3. new[p] = packs[was] /\ was \in DOMAIN packs
    BY <1>2, <1>6, <2>2
  <2>4. ASSUME NEW q \in DOMAIN packs, q > was, NEW oid \in Oids(packs[q])
        PROVE  \E r \in DOMAIN new : r > p /\ oid \in Oids(new[r])
    <3>1. q \in 1 .. n
      BY <1>2, <2>4
    <3>2. q \in hi + 1 .. n /\ q - cut \in 1 .. n - cut /\ q - cut > p
      BY <1>3, <1>4, <1>5, <2>2, <2>4, <3>1
    <3> QED
      BY <1>6, <2>4, <3>2
  <2>5. later(packs, was) \subseteq later(new, p)
    BY <2>4
  <2> QED
    BY <1>7, <2>3, <2>5
<1>12. ASSUME NEW p \in DOMAIN new PROVE right(new, p)
  <2>1. p \in 1 .. n - cut
    BY <1>6
  <2>2. p \in 1 .. lo - 1 \/ p = lo \/ p \in lo + 1 .. n - cut
    BY <1>5, <2>1
  <2> QED
    BY <1>9, <1>10, <1>11, <2>2
<1>13. Standing(new, 0)
  BY <1>12 DEF Standing
<1> QED
  BY <1>1, <1>6, <1>13 DEF CatalogInv, Spliced

-----------------------------------------------------------------------------
(* The table of a rewrite *)

Pos(t) == Positions(t.packs)

oidAt(t, s) == EntryAt(t.packs, s).oid

added(t, s) == t.rows[s].kind # "none"

ownerOf(t, s) == t.owner[oidAt(t, s)]

\* Whatever a snapshot holds decodes, and one that may be passed through stands
\* alone.
Snapshot(packs) ==
    /\ packs \in Seq(Seq(Entry))
    /\ \A p \in DOMAIN packs : SoundPack(packs[p])
    /\ \A p \in DOMAIN packs : \A i, j \in DOMAIN packs[p] : packs[p][i].oid = packs[p][j].oid => i = j
    /\ Len(packs) = 1 => Standing(packs, 0)
    /\ StoredOids(packs) \subseteq DecodableOids(packs)

\* A row keeps its object, whatever entry it is sent from, and so does the
\* row that an entry is mapped to.
Named(t) ==
    /\ \A s \in Pos(t) : oidOf(t, s) = oidAt(t, s)
    /\ \A s \in Pos(t) : t.dedup[s] # NoPos => added(t, t.dedup[s]) /\ oidAt(t, t.dedup[s]) = oidAt(t, s)
    /\ \A s \in Pos(t) : added(t, s) => t.dedup[s] # NoPos
    /\ \A oid \in t.needed : \E s \in Pos(t) : added(t, s) /\ oidAt(t, s) = oid

Owned(t) ==
    \A oid \in Oid : t.owner[oid] # NoPos =>
        /\ added(t, t.owner[oid])
        /\ oidAt(t, t.owner[oid]) = oid
        /\ t.dead[t.owner[oid]] = NoPos

\* A dead row leads to its owner in one step or, past an owner that lost its
\* place, in two; a pinned owner cannot lose it, so that there is no third.
Redirected(t, s) ==
    /\ added(t, s)
    /\ oidAt(t, t.dead[s]) = oidAt(t, s)
    /\ ownerOf(t, s) # NoPos
    /\ \/ t.dead[s] = ownerOf(t, s)
       \/ /\ t.dead[t.dead[s]] = ownerOf(t, s)
          /\ t.rows[ownerOf(t, s)].pinned
          /\ t.since[s] < t.since[t.dead[s]]

Redirects(t) == \A s \in Dead(t) : Redirected(t, s)

\* The deadSlots map has an order.
Ordered(t) ==
    \A s \in Dead(t) : /\ t.since[s] \in 1 .. t.deaths
                       /\ \A r \in Dead(t) : t.since[r] = t.since[s] => r = s

\* An edge leads from a delta to a row of its base.
EdgeRight(t, s) ==
    /\ isDelta(t.rows[s]) => t.rows[s].kind = kindOf(header(t, s))
    /\ t.rows[s].base # NoPos =>
          /\ isDelta(t.rows[s])
          /\ added(t, t.rows[s].base)
          /\ t.rows[s].kind = "ofs" =>
                oidAt(t, t.rows[s].base) = oidAt(t, <<t.rows[s].pos[1], header(t, s).ofs>>)
          /\ t.rows[s].kind = "ref" => oidAt(t, t.rows[s].base) = header(t, s).ref

Edges(t) == \A s \in Pos(t) : EdgeRight(t, s)

\* A row is to be read, or is its object's owner, or has an owner; only a dead
\* row may be a delta without a base.
ReadOrQueued(t, s) ==
    /\ t.rows[s].kind = "new" => s \in t.batch \cup t.queue
    /\ t.rows[s].kind \in {"full", "ofs", "ref"} => s = ownerOf(t, s) \/ t.dead[s] # NoPos
    /\ isDelta(t.rows[s]) /\ t.rows[s].base = NoPos => t.dead[s] # NoPos

\* The rows of but are being worked on.
Progress(t, but) == \A s \in Pos(t) \ but : ReadOrQueued(t, s)

-----------------------------------------------------------------------------
(* The phases of a rewrite *)

bad(t, s) == selectionDependsOn(t, ownerOf(t, s), s)

AllRead(t) == t.batch = {} /\ t.queue = {}

\* A first round goes through all dead rows, each time with those behind it.
FirstRound(t) ==
    /\ t.at \in Nat
    /\ \A s \in Dead(t) : t.since[s] > t.at => s \in t.safe
    /\ \A s \in t.safe : t.since[s] <= t.at => ~bad(t, s)

Pruned(t) == \A s \in t.safe : ~bad(t, s)

NoneBad(t) == t.safe = Dead(t) /\ \A s \in Dead(t) : ~bad(t, s)

\* A dead row in its owner's base chain has a base of its own, or is whole.
Curable(t) == \A s \in Dead(t) : isDelta(t.rows[s]) /\ t.rows[s].base = NoPos => ~bad(t, s)

OrderInv(t) ==
    /\ t.live \subseteq Pos(t)
    /\ \A oid \in t.needed : \E s \in t.live : oidAt(t, s) = oid
    /\ \A s, r \in t.live : oidAt(t, s) = oidAt(t, r) => s = r
    /\ \A s \in t.live : /\ t.rows[s].kind \in {"full", "ofs", "ref"}
                         /\ t.rows[s].base \in t.live \cup {NoPos}
                         /\ isDelta(t.rows[s]) => t.rows[s].base # NoPos
    /\ t.order \in Seq(t.live)
    /\ \A n, m \in DOMAIN t.order : t.order[n] = t.order[m] => n = m
    /\ \A n \in DOMAIN t.order : t.rows[t.order[n]].base # NoPos =>
          \E m \in DOMAIN t.order : m < n /\ t.order[m] = t.rows[t.order[n]].base

\* The output stands alone.
Finished(t) ==
    /\ GoodPack(t.out)
    /\ \A i \in DOMAIN t.out : t.out[i].ref \in {NoOid} \cup Oids(t.out)
    /\ t.needed \subseteq Oids(t.out)
    /\ \A i \in DOMAIN t.out : t.out[i].ofs # 0 =>
          \E pos \in Positions(t.packs) :
              LET e == EntryAt(t.packs, pos)
              IN  /\ e.oid = t.out[i].oid
                  /\ e.ofs # 0
                  /\ t.packs[pos[1]][e.ofs].oid = t.out[t.out[i].ofs].oid

PhaseInv(t) ==
    /\ t.phase \in {"headers", "prune", "retained", "repair", "collapse", "compact", "order", "done"}
    /\ t.phase = "repair" => t.batch = {} /\ \A s \in t.retained : s \in Dead(t) /\ isDelta(t.rows[s])
    /\ t.phase \in {"prune", "retained", "collapse", "compact"} => AllRead(t)
    /\ t.phase \in {"prune", "retained", "compact"} => t.safe \subseteq Dead(t)
    /\ t.phase = "prune" => \/ t.use = "retained" /\ (FirstRound(t) \/ Pruned(t))
                            \/ t.use = "compact" /\ NoneBad(t)
    /\ t.phase = "retained" => Pruned(t)
    /\ t.phase = "collapse" => Curable(t)
    /\ t.phase = "compact" => NoneBad(t)
    /\ t.phase = "order" => OrderInv(t)
    /\ t.phase = "done" => Finished(t)

-----------------------------------------------------------------------------
(* The table, field by field *)

Fields == {"phase", "reason", "packs", "needed", "rows", "dedup", "owner", "dead", "since",
           "deaths", "batch", "queue", "retained", "safe", "at", "changed", "use", "live", "order", "out"}

Row(P) == [pos : P, kind : {"none", "new", "full", "ofs", "ref"}, base : P \cup {NoPos}, pinned : BOOLEAN]

TableType(t) ==
    /\ DOMAIN t = Fields
    /\ Snapshot(t.packs)
    /\ t.needed \subseteq Oid
    /\ t.rows \in [Pos(t) -> Row(Pos(t))]
    /\ t.dedup \in [Pos(t) -> Pos(t) \cup {NoPos}]
    /\ t.owner \in [Oid -> Pos(t) \cup {NoPos}]
    /\ t.dead \in [Pos(t) -> Pos(t) \cup {NoPos}]
    /\ t.since \in [Pos(t) -> Nat]
    /\ t.deaths \in Nat
    /\ t.batch \subseteq Pos(t)
    /\ t.queue \subseteq Pos(t)

\* What no work on single rows changes.
SameJob(t, u) ==
    /\ DOMAIN u = Fields /\ u.packs = t.packs /\ u.needed = t.needed
    /\ u.batch = t.batch /\ u.retained = t.retained

AddFields(t, pos, u) ==
    /\ SameJob(t, u) /\ u.phase = t.phase
    /\ u.owner = t.owner /\ u.dead = t.dead /\ u.since = t.since /\ u.deaths = t.deaths /\ u.queue = t.queue
    /\ t.dedup[pos] # NoPos => u.rows = t.rows /\ u.dedup = t.dedup
    /\ t.dedup[pos] = NoPos => /\ u.rows = [t.rows EXCEPT ![pos] = [@ EXCEPT !.kind = "new"]]
                               /\ u.dedup = [t.dedup EXCEPT ![pos] = pos]

LEMMA AddEntryFields ==
  ASSUME NEW t, DOMAIN t = Fields, NEW pos
  PROVE  AddFields(t, pos, addEntry(t, pos))
<1>1. CASE t.dedup[pos] # NoPos
  BY <1>1 DEF addEntry, AddFields, SameJob
<1>2. CASE t.dedup[pos] = NoPos
  <2>1. PICK r, d : r = [t.rows EXCEPT ![pos] = [@ EXCEPT !.kind = "new"]] /\ d = [t.dedup EXCEPT ![pos] = pos]
    OBVIOUS
  <2>2. addEntry(t, pos) = [t EXCEPT !.rows = r, !.dedup = d]
    BY <1>2, <2>1 DEF addEntry
  <2>3. PICK u : u = addEntry(t, pos)
    OBVIOUS
  <2>4. /\ SameJob(t, u) /\ u.phase = t.phase /\ u.owner = t.owner /\ u.dead = t.dead /\ u.since = t.since
        /\ u.deaths = t.deaths /\ u.queue = t.queue /\ u.rows = r /\ u.dedup = d
    BY <2>2, <2>3 DEF Fields, SameJob
  <2> QED
    BY <1>2, <2>1, <2>3, <2>4 DEF AddFields
<1> QED
  BY <1>1, <1>2

DeadFields(t, s, w, u) ==
    /\ SameJob(t, u) /\ u.phase = t.phase
    /\ u.rows = t.rows /\ u.dedup = t.dedup /\ u.owner = t.owner /\ u.queue = t.queue
    /\ u.dead = [t.dead EXCEPT ![s] = w]
    /\ t.dead[s] # NoPos => u.since = t.since /\ u.deaths = t.deaths
    /\ t.dead[s] = NoPos => u.since = [t.since EXCEPT ![s] = t.deaths + 1] /\ u.deaths = t.deaths + 1

LEMMA SetDeadFields ==
  ASSUME NEW t, DOMAIN t = Fields, NEW s, NEW w
  PROVE  DeadFields(t, s, w, setDead(t, s, w))
<1>1. PICK u, d, i, n : /\ u = setDead(t, s, w) /\ d = [t.dead EXCEPT ![s] = w]
                        /\ i = [t.since EXCEPT ![s] = t.deaths + 1] /\ n = t.deaths + 1
  OBVIOUS
<1>2. CASE t.dead[s] # NoPos
  <2>1. u = [t EXCEPT !.dead = d]
    BY <1>1, <1>2 DEF setDead
  <2> QED
    BY <1>1, <1>2, <2>1 DEF DeadFields, SameJob, Fields
<1>3. CASE t.dead[s] = NoPos
  <2>1. u = [t EXCEPT !.dead = d, !.since = i, !.deaths = n]
    BY <1>1, <1>3 DEF setDead
  <2> QED
    BY <1>1, <1>3, <2>1 DEF DeadFields, SameJob, Fields
<1> QED
  BY <1>2, <1>3


Table(t) == TableType(t) /\ Named(t) /\ Owned(t) /\ Redirects(t) /\ Ordered(t) /\ Edges(t)

\* A table whose fields of another are the same, but for the rows.
SameLinks(t, u) ==
    /\ DOMAIN u = Fields /\ u.packs = t.packs /\ u.needed = t.needed
    /\ u.dedup = t.dedup /\ u.owner = t.owner /\ u.dead = t.dead /\ u.since = t.since /\ u.deaths = t.deaths
    /\ u.batch \subseteq Pos(t) /\ u.queue \subseteq Pos(t)

\* Rows may be sent from other entries of their objects, lose a base or get another.
LEMMA RowsKeep ==
  ASSUME NEW t, Table(t), NEW u, SameLinks(t, u), u.rows \in [Pos(t) -> Row(Pos(t))],
         \A s \in Pos(t) : /\ added(u, s) <=> added(t, s)
                           /\ oidOf(u, s) = oidAt(t, s)
                           /\ t.rows[s].pinned => u.rows[s].pinned
                           /\ EdgeRight(u, s)
  PROVE  Table(u)
<1>1. Pos(u) = Pos(t) /\ Dead(u) = Dead(t) /\ \A s : oidAt(u, s) = oidAt(t, s) /\ ownerOf(u, s) = ownerOf(t, s)
  BY DEF SameLinks, Pos, Dead, Rows, oidAt, ownerOf, Table, TableType
<1>2. TableType(u)
  BY <1>1 DEF Table, TableType, SameLinks
<1>3. Named(u)
  <2>1. \A s \in Pos(t) : t.dedup[s] # NoPos => t.dedup[s] \in Pos(t)
    BY DEF Table, TableType
  <2> QED
    BY <1>1, <2>1 DEF Table, Named, SameLinks
<1>4. Owned(u)
  <2>1. \A oid \in Oid : t.owner[oid] # NoPos => t.owner[oid] \in Pos(t)
    BY DEF Table, TableType
  <2> QED
    BY <1>1, <2>1 DEF Table, Owned, SameLinks
<1>5. Redirects(u)
  <2>1. SUFFICES ASSUME NEW s \in Dead(t) PROVE Redirected(u, s)
    BY <1>1 DEF Redirects
  <2>2. s \in Pos(t) /\ Redirected(t, s)
    BY DEF Dead, Rows, Table, TableType, Redirects
  <2>3. ownerOf(t, s) \in Pos(t)
    <3>1. oidAt(t, s) \in Oid
      BY <2>2, PositionParts DEF oidAt, Pos, Table, TableType, Snapshot, Entry
    <3> QED
      BY <2>2, <3>1 DEF Redirected, ownerOf, Table, TableType
  <2> QED
    BY <1>1, <2>2, <2>3 DEF Redirected, SameLinks
<1>6. Ordered(u)
  BY <1>1 DEF Table, Ordered, SameLinks
<1>7. Edges(u)
  BY <1>1 DEF Edges
<1> QED
  BY <1>2, <1>3, <1>4, <1>5, <1>6, <1>7 DEF Table

\* An edge stays right while rows are only added.
LEMMA EdgeStays ==
  ASSUME NEW t, NEW u, u.packs = t.packs, NEW s, EdgeRight(t, s), u.rows[s] = t.rows[s],
         t.rows[s].base # NoPos /\ added(t, t.rows[s].base) => added(u, t.rows[s].base)
  PROVE  EdgeRight(u, s)
BY DEF EdgeRight, oidAt, header

\* One row changes.
LEMMA RowKeeps ==
  ASSUME NEW t, Table(t), NEW u, SameLinks(t, u), NEW s \in Pos(t), NEW row \in Row(Pos(t)),
         u.rows = [t.rows EXCEPT ![s] = row], added(t, s), row.kind # "none",
         EntryAt(t.packs, row.pos).oid = oidAt(t, s), t.rows[s].pinned => row.pinned, EdgeRight(u, s)
  PROVE  Table(u) /\ \A r \in Pos(t) : added(u, r) <=> added(t, r)
<1>1. t.rows \in [Pos(t) -> Row(Pos(t))] /\ u.packs = t.packs
  BY DEF Table, TableType, SameLinks
<1>2. u.rows \in [Pos(t) -> Row(Pos(t))]
  BY <1>1
<1>3. \A r \in Pos(t) : added(u, r) <=> added(t, r)
  BY <1>1 DEF added
<1>4. ASSUME NEW r \in Pos(t)
      PROVE  /\ oidOf(u, r) = oidAt(t, r)
             /\ t.rows[r].pinned => u.rows[r].pinned
             /\ EdgeRight(u, r)
  <2>1. CASE r = s
    <3>1. u.rows[r] = row
      BY <1>1, <2>1
    <3> QED
      BY <1>1, <2>1, <3>1 DEF oidOf, header
  <2>2. CASE r # s
    <3>1. u.rows[r] = t.rows[r]
      BY <1>1, <2>2
    <3>2. oidOf(u, r) = oidAt(t, r)
      BY <1>1, <3>1 DEF Table, Named, oidOf, header
    <3>3. t.rows[r].base # NoPos => t.rows[r].base \in Pos(t)
      BY <1>1 DEF Row
    <3>4. EdgeRight(t, r)
      BY DEF Table, Edges
    <3>5. EdgeRight(u, r)
      BY <1>1, <1>3, <3>1, <3>3, <3>4, EdgeStays
    <3> QED
      BY <3>1, <3>2, <3>5
  <2> QED
    BY <2>1, <2>2
<1> QED
  BY <1>2, <1>3, <1>4, RowsKeep

\* The same rows and links: the same table.
LEMMA TableStays ==
  ASSUME NEW t, Table(t), NEW u, SameLinks(t, u), u.rows = t.rows
  PROVE  Table(u)
<1>1. u.rows \in [Pos(t) -> Row(Pos(t))] /\ u.packs = t.packs
  BY DEF Table, TableType, SameLinks
<1>2. ASSUME NEW s \in Pos(t)
      PROVE  /\ added(u, s) <=> added(t, s)
             /\ oidOf(u, s) = oidAt(t, s)
             /\ t.rows[s].pinned => u.rows[s].pinned
             /\ EdgeRight(u, s)
  <2>1. EdgeRight(t, s)
    BY DEF Table, Edges
  <2>2. EdgeRight(u, s)
    BY <1>1, <2>1, EdgeStays DEF added
  <2> QED
    BY <1>1, <2>2 DEF Table, Named, oidOf, header, added
<1> QED
  BY <1>1, <1>2, RowsKeep


LEMMA OidAtType ==
  ASSUME NEW t, TableType(t), NEW s \in Pos(t)
  PROVE  oidAt(t, s) \in Oid /\ header(t, s) \in Entry /\ t.rows[s].pos \in Pos(t) /\ NoPos \notin Pos(t)
<1>1. t.packs \in Seq(Seq(Entry)) /\ t.rows[s].pos \in Pos(t)
  BY DEF TableType, Snapshot, Row
<1>2. EntryAt(t.packs, s) \in Entry /\ EntryAt(t.packs, t.rows[s].pos) \in Entry
  BY <1>1, PositionParts DEF Pos
<1>3. NoPos \notin Pos(t)
  BY <1>1, PositionParts DEF Pos
<1> QED
  BY <1>1, <1>2, <1>3 DEF oidAt, header, Entry

\* An entry is mapped to another row of its object.
LEMMA DedupKeeps ==
  ASSUME NEW t, Table(t), NEW u, DOMAIN u = Fields, u.packs = t.packs, u.needed = t.needed,
         u.rows = t.rows, u.owner = t.owner, u.dead = t.dead, u.since = t.since, u.deaths = t.deaths,
         u.batch = t.batch, u.queue = t.queue,
         NEW pos \in Pos(t), NEW s \in Pos(t), added(t, s), oidAt(t, s) = oidAt(t, pos),
         u.dedup = [t.dedup EXCEPT ![pos] = s]
  PROVE  Table(u)
<1>1. /\ Pos(u) = Pos(t) /\ Dead(u) = Dead(t) /\ \A r : oidAt(u, r) = oidAt(t, r) /\ ownerOf(u, r) = ownerOf(t, r)
      /\ \A r : (added(u, r) <=> added(t, r)) /\ header(u, r) = header(t, r) /\ oidOf(u, r) = oidOf(t, r)
  BY DEF Pos, Dead, Rows, oidAt, ownerOf, added, header, oidOf
<1>2. TableType(u)
  BY <1>1 DEF Table, TableType
<1>3. Named(u)
  <2>1. ASSUME NEW r \in Pos(t)
        PROVE  /\ u.dedup[r] # NoPos => added(t, u.dedup[r]) /\ oidAt(t, u.dedup[r]) = oidAt(t, r)
               /\ added(t, r) => u.dedup[r] # NoPos
    <3>1. u.dedup[r] = IF r = pos THEN s ELSE t.dedup[r]
      BY DEF Table, TableType
    <3>2. s # NoPos
      BY OidAtType DEF Table
    <3> QED
      BY <3>1, <3>2 DEF Table, Named
  <2> QED
    BY <1>1, <2>1 DEF Table, Named
<1>4. Owned(u)
  BY <1>1 DEF Table, Owned
<1>5. Redirects(u)
  BY <1>1 DEF Table, Redirects, Redirected
<1>6. Ordered(u)
  BY <1>1 DEF Table, Ordered
<1>7. Edges(u)
  BY <1>1 DEF Table, Edges, EdgeRight
<1> QED
  BY <1>2, <1>3, <1>4, <1>5, <1>6, <1>7 DEF Table

\* addEntry gives the row of an entry, a new one if it had none.
LEMMA AddKeeps ==
  ASSUME NEW t, Table(t), NEW pos \in Pos(t), NEW u, u = addEntry(t, pos)
  PROVE  /\ Table(u) /\ SameJob(t, u) /\ u.phase = t.phase
         /\ u.owner = t.owner /\ u.dead = t.dead /\ u.queue = t.queue
         /\ u.dedup[pos] \in Pos(t) /\ added(u, u.dedup[pos]) /\ oidAt(u, u.dedup[pos]) = oidAt(t, pos)
         /\ \A s \in Pos(t) : added(t, s) \/ s # u.dedup[pos] => u.rows[s] = t.rows[s]
         /\ ~added(t, u.dedup[pos]) => u.rows[u.dedup[pos]].kind = "new"
<1>1. AddFields(t, pos, u)
  BY AddEntryFields DEF Table, TableType
<1>2. /\ t.rows \in [Pos(t) -> Row(Pos(t))] /\ t.dedup \in [Pos(t) -> Pos(t) \cup {NoPos}]
      /\ u.packs = t.packs /\ Pos(u) = Pos(t) /\ \A r : oidAt(u, r) = oidAt(t, r)
      /\ t.batch \subseteq Pos(t) /\ t.queue \subseteq Pos(t)
  BY <1>1 DEF Table, TableType, AddFields, SameJob, Pos, oidAt
<1>3. pos # NoPos
  BY OidAtType DEF Table
<1>4. CASE t.dedup[pos] # NoPos
  <2>1. u.rows = t.rows /\ u.dedup = t.dedup
    BY <1>1, <1>4 DEF AddFields
  <2>2. SameLinks(t, u)
    BY <1>1, <1>2, <2>1 DEF SameLinks, AddFields, SameJob
  <2>3. Table(u)
    BY <2>1, <2>2, TableStays
  <2>4. t.dedup[pos] \in Pos(t) /\ added(t, t.dedup[pos]) /\ oidAt(t, t.dedup[pos]) = oidAt(t, pos)
    BY <1>2, <1>4 DEF Table, Named
  <2> QED
    BY <1>1, <1>2, <2>1, <2>3, <2>4 DEF AddFields, added
<1>5. CASE t.dedup[pos] = NoPos
  <2>1. u.dedup = [t.dedup EXCEPT ![pos] = pos] /\ u.dedup[pos] = pos
    BY <1>1, <1>2, <1>5 DEF AddFields
  <2>2. ~added(t, pos)
    BY <1>5 DEF Table, Named
  <2>3. PICK row : row = [t.rows[pos] EXCEPT !.kind = "new"]
    OBVIOUS
  <2>4. /\ u.rows = [t.rows EXCEPT ![pos] = row] /\ row \in Row(Pos(t)) /\ row.kind = "new"
        /\ row.pos = t.rows[pos].pos /\ row.base = t.rows[pos].base /\ row.pinned = t.rows[pos].pinned
    <3>1. t.rows[pos] \in Row(Pos(t))
      BY <1>2
    <3> QED
      BY <1>1, <1>5, <2>3, <3>1 DEF AddFields, Row
  <2>5. \A s \in Pos(t) : u.rows[s] = IF s = pos THEN row ELSE t.rows[s]
    BY <1>2, <2>4
  <2>6. \A s \in Pos(t) : (added(u, s) <=> added(t, s) \/ s = pos) /\ oidOf(u, s) = oidOf(t, s)
    BY <1>2, <2>4, <2>5 DEF added, oidOf, header
  <2>7. Dead(u) = Dead(t) /\ \A r : ownerOf(u, r) = ownerOf(t, r)
    BY <1>1, <1>2 DEF Dead, Rows, ownerOf, AddFields, Table, TableType
  <2>8. TableType(u)
    BY <1>1, <1>2, <2>1, <2>4 DEF Table, TableType, AddFields, SameJob
  <2>9. Named(u)
    <3>1. ASSUME NEW r \in Pos(t)
          PROVE  /\ u.dedup[r] # NoPos => added(u, u.dedup[r]) /\ oidAt(t, u.dedup[r]) = oidAt(t, r)
                 /\ added(u, r) => u.dedup[r] # NoPos
      <4>1. u.dedup[r] = IF r = pos THEN pos ELSE t.dedup[r]
        BY <1>2, <2>1
      <4>2. t.dedup[r] # NoPos => t.dedup[r] \in Pos(t)
        BY <1>2
      <4> QED
        BY <1>3, <2>6, <4>1, <4>2 DEF Table, Named
    <3>2. u.needed = t.needed
      BY <1>1 DEF AddFields, SameJob
    <3> QED
      BY <1>2, <2>6, <3>1, <3>2 DEF Table, Named
  <2>10. Owned(u)
    <3>1. \A oid \in Oid : t.owner[oid] # NoPos => t.owner[oid] \in Pos(t)
      BY DEF Table, TableType
    <3> QED
      BY <1>1, <1>2, <2>6, <3>1 DEF Table, Owned, AddFields
  <2>11. Redirects(u)
    <3>1. SUFFICES ASSUME NEW s \in Dead(t) PROVE Redirected(u, s)
      BY <2>7 DEF Redirects
    <3>2. s \in Pos(t) /\ Redirected(t, s) /\ s # pos
      BY <2>2 DEF Dead, Rows, Table, TableType, Redirects, Redirected
    <3>3. ownerOf(t, s) \in Pos(t) /\ ownerOf(t, s) # pos
      <4>1. oidAt(t, s) \in Oid
        BY <3>2, OidAtType DEF Table
      <4> QED
        BY <2>2, <3>2, <4>1 DEF Redirected, ownerOf, Table, TableType, Owned
    <3> QED
      BY <1>1, <1>2, <2>5, <2>6, <2>7, <3>2, <3>3 DEF Redirected, AddFields
  <2>12. Ordered(u)
    BY <1>1, <2>7 DEF Table, Ordered, AddFields
  <2>13. Edges(u)
    <3>1. SUFFICES ASSUME NEW s \in Pos(t) PROVE EdgeRight(u, s)
      BY <1>2 DEF Edges
    <3>2. EdgeRight(t, s) /\ (t.rows[s].base # NoPos => t.rows[s].base \in Pos(t))
      BY <1>2 DEF Table, Edges, Row
    <3>3. CASE s = pos
      <4>1. t.rows[s].kind = "none" /\ t.rows[s].base = NoPos
        BY <2>2, <3>2, <3>3 DEF added, EdgeRight, isDelta
      <4> QED
        BY <2>4, <2>5, <3>3, <4>1 DEF EdgeRight, isDelta
    <3>4. CASE s # pos
      <4>1. u.rows[s] = t.rows[s]
        BY <2>5, <3>4
      <4> QED
        BY <1>2, <2>6, <3>2, <4>1, EdgeStays
    <3> QED
      BY <3>3, <3>4
  <2>14. Table(u)
    BY <2>8, <2>9, <2>10, <2>11, <2>12, <2>13 DEF Table
  <2> QED
    BY <1>1, <1>2, <2>1, <2>2, <2>4, <2>5, <2>6, <2>14 DEF AddFields
<1> QED
  BY <1>4, <1>5


\* An object without an owner gets one.
LEMMA ClaimKeeps ==
  ASSUME NEW t, Table(t), NEW s \in Pos(t), added(t, s), ownerOf(t, s) = NoPos, NEW u,
         DOMAIN u = Fields, u.packs = t.packs, u.needed = t.needed, u.rows = t.rows, u.dedup = t.dedup,
         u.dead = t.dead, u.since = t.since, u.deaths = t.deaths, u.batch = t.batch, u.queue = t.queue,
         u.owner = [t.owner EXCEPT ![oidAt(t, s)] = s]
  PROVE  Table(u)
<1>1. /\ Pos(u) = Pos(t) /\ Dead(u) = Dead(t) /\ \A r : oidAt(u, r) = oidAt(t, r)
      /\ \A r : (added(u, r) <=> added(t, r)) /\ header(u, r) = header(t, r) /\ oidOf(u, r) = oidOf(t, r)
  BY DEF Pos, Dead, Rows, oidAt, added, header, oidOf
<1>2. t.owner \in [Oid -> Pos(t) \cup {NoPos}] /\ t.dead \in [Pos(t) -> Pos(t) \cup {NoPos}]
  BY DEF Table, TableType
<1>3. oidAt(t, s) \in Oid
  BY OidAtType DEF Table
<1>4. \A oid \in Oid : u.owner[oid] = IF oid = oidAt(t, s) THEN s ELSE t.owner[oid]
  BY <1>2
<1>5. TableType(u)
  BY <1>1, <1>2 DEF Table, TableType
<1>6. Named(u)
  BY <1>1 DEF Table, Named
<1>7. \A r \in Dead(t) : r \in Pos(t) /\ oidAt(t, r) \in Oid /\ Redirected(t, r)
  BY OidAtType DEF Dead, Rows, Table, TableType, Redirects
<1>8. Owned(u)
  <2>1. s \notin Dead(t)
    BY <1>7 DEF Redirected
  <2>2. t.dead[s] = NoPos
    BY <2>1 DEF Dead, Rows, Table, TableType
  <2> QED
    BY <1>1, <1>3, <1>4, <2>2 DEF Table, Owned
<1>9. Redirects(u)
  <2>1. SUFFICES ASSUME NEW r \in Dead(t) PROVE Redirected(u, r)
    BY <1>1 DEF Redirects
  <2>2. oidAt(t, r) # oidAt(t, s)
    BY <1>7 DEF Redirected, ownerOf
  <2>3. ownerOf(u, r) = ownerOf(t, r)
    BY <1>1, <1>4, <1>7, <2>2 DEF ownerOf
  <2> QED
    BY <1>1, <1>7, <2>3 DEF Redirected
<1>10. Ordered(u)
  BY <1>1 DEF Table, Ordered
<1>11. Edges(u)
  BY <1>1 DEF Table, Edges, EdgeRight
<1> QED
  BY <1>5, <1>6, <1>8, <1>9, <1>10, <1>11 DEF Table

\* A row is redirected to its object's owner.
LEMMA SetDeadKeeps ==
  ASSUME NEW t, Table(t), NEW s \in Pos(t), added(t, s), NEW w, w = ownerOf(t, s), w # NoPos, w # s,
         NEW u, DeadFields(t, s, w, u)
  PROVE  Table(u)
<1>1. /\ Pos(u) = Pos(t) /\ \A r : oidAt(u, r) = oidAt(t, r) /\ ownerOf(u, r) = ownerOf(t, r)
      /\ \A r : (added(u, r) <=> added(t, r)) /\ header(u, r) = header(t, r) /\ oidOf(u, r) = oidOf(t, r)
  BY DEF Pos, oidAt, ownerOf, added, header, oidOf, DeadFields, SameJob
<1>2. /\ t.owner \in [Oid -> Pos(t) \cup {NoPos}] /\ t.dead \in [Pos(t) -> Pos(t) \cup {NoPos}]
      /\ t.since \in [Pos(t) -> Nat] /\ t.deaths \in Nat /\ DOMAIN t.rows = Pos(t)
  BY DEF Table, TableType
<1>3. oidAt(t, s) \in Oid /\ w \in Pos(t) /\ added(t, w) /\ oidAt(t, w) = oidAt(t, s) /\ t.dead[w] = NoPos
  <2>1. oidAt(t, s) \in Oid
    BY OidAtType DEF Table
  <2> QED
    BY <1>2, <2>1 DEF Table, Owned, ownerOf
<1>4. \A r \in Pos(t) : u.dead[r] = IF r = s THEN w ELSE t.dead[r]
  BY <1>2 DEF DeadFields
<1>5. Dead(u) = Dead(t) \cup {s}
  BY <1>2, <1>4 DEF Dead, Rows, DeadFields
<1>6. \A r \in Dead(t) : r \in Pos(t) /\ oidAt(t, r) \in Oid /\ Redirected(t, r) /\ t.dead[r] \in Pos(t)
  BY <1>2, OidAtType DEF Dead, Rows, Table, Redirects
<1>7. TableType(u)
  <2>1. u.dead \in [Pos(t) -> Pos(t) \cup {NoPos}]
    BY <1>2, <1>3 DEF DeadFields
  <2>2. u.since \in [Pos(t) -> Nat] /\ u.deaths \in Nat
    BY <1>2 DEF DeadFields
  <2> QED
    BY <1>1, <2>1, <2>2 DEF Table, TableType, DeadFields, SameJob
<1>8. Named(u)
  BY <1>1 DEF Table, Named, DeadFields, SameJob
<1>9. Owned(u)
  <2>1. ASSUME NEW oid \in Oid, t.owner[oid] # NoPos PROVE u.dead[t.owner[oid]] = NoPos
    <3>1. t.owner[oid] \in Pos(t) /\ oidAt(t, t.owner[oid]) = oid /\ t.dead[t.owner[oid]] = NoPos
      BY <1>2, <2>1 DEF Table, Owned
    <3>2. t.owner[oid] # s
      BY <3>1 DEF ownerOf
    <3> QED
      BY <1>4, <3>1, <3>2
  <2> QED
    BY <1>1, <2>1 DEF Table, Owned, DeadFields
<1>10. Redirects(u)
  <2>1. SUFFICES ASSUME NEW r \in Dead(t) \cup {s} PROVE Redirected(u, r)
    BY <1>5 DEF Redirects
  <2>2. CASE r = s
    BY <1>1, <1>3, <1>4, <2>2 DEF Redirected
  <2>3. CASE r # s
    <3>1. r \in Pos(t) /\ Redirected(t, r) /\ t.dead[r] \in Pos(t) /\ u.dead[r] = t.dead[r]
      BY <1>4, <1>6, <2>1, <2>3
    <3>2. CASE t.dead[r] = ownerOf(t, r)
      BY <1>1, <3>1, <3>2 DEF Redirected
    <3>3. CASE t.dead[r] # ownerOf(t, r)
      <4>1. /\ t.dead[t.dead[r]] = ownerOf(t, r) /\ t.rows[ownerOf(t, r)].pinned
            /\ t.since[r] < t.since[t.dead[r]] /\ oidAt(t, t.dead[r]) = oidAt(t, r) /\ ownerOf(t, r) # NoPos
        BY <3>1, <3>3 DEF Redirected
      <4>2. u.dead[t.dead[r]] = ownerOf(t, r)
        BY <1>4, <3>1, <4>1 DEF ownerOf
      <4>3. u.since[r] = t.since[r] /\ u.since[t.dead[r]] = t.since[t.dead[r]]
        BY <1>2, <2>3, <3>1, <4>1 DEF DeadFields
      <4> QED
        BY <1>1, <3>1, <4>1, <4>2, <4>3 DEF Redirected, DeadFields
    <3> QED
      BY <3>2, <3>3
  <2> QED
    BY <2>2, <2>3
<1>11. Ordered(u)
  <2>1. CASE t.dead[s] # NoPos
    <3>1. Dead(u) = Dead(t)
      BY <1>2, <1>5, <2>1 DEF Dead, Rows
    <3> QED
      BY <2>1, <3>1 DEF Table, Ordered, DeadFields
  <2>2. CASE t.dead[s] = NoPos
    <3>1. s \notin Dead(t)
      BY <2>2 DEF Dead
    <3>2. \A r \in Pos(t) : u.since[r] = IF r = s THEN t.deaths + 1 ELSE t.since[r]
      BY <1>2, <2>2 DEF DeadFields
    <3>3. \A r \in Dead(t) : r \in Pos(t) /\ t.since[r] \in 1 .. t.deaths /\ u.since[r] = t.since[r]
      BY <1>6, <3>1, <3>2 DEF Table, Ordered
    <3>4. u.since[s] = t.deaths + 1 /\ u.deaths = t.deaths + 1
      BY <2>2, <3>2 DEF DeadFields
    <3>5. \A r \in Dead(t) : t.since[r] \in 1 .. (t.deaths + 1) /\ t.since[r] # t.deaths + 1
      BY <1>2, <3>3
    <3>6. t.deaths + 1 \in 1 .. (t.deaths + 1)
      BY <1>2
    <3>7. \A r, q \in Dead(t) : t.since[q] = t.since[r] => q = r
      BY DEF Table, Ordered
    <3> QED
      BY <1>5, <3>3, <3>4, <3>5, <3>6, <3>7 DEF Ordered
  <2> QED
    BY <2>1, <2>2
<1>12. Edges(u)
  BY <1>1 DEF Table, Edges, EdgeRight, DeadFields
<1> QED
  BY <1>7, <1>8, <1>9, <1>10, <1>11, <1>12 DEF Table

\* A pinned row takes its object over from an owner that is not.
LEMMA TakeoverKeeps ==
  ASSUME NEW t, Table(t), NEW s \in Pos(t), added(t, s), NEW w, w = ownerOf(t, s), w # NoPos, w # s,
         t.rows[s].pinned, ~t.rows[w].pinned, NEW u,
         DOMAIN u = Fields, u.packs = t.packs, u.needed = t.needed, u.rows = t.rows, u.dedup = t.dedup,
         u.batch = t.batch, u.queue = t.queue,
         u.owner = [t.owner EXCEPT ![oidAt(t, s)] = s],
         u.dead = [t.dead EXCEPT ![s] = NoPos, ![w] = s],
         u.since = [t.since EXCEPT ![w] = t.deaths + 1], u.deaths = t.deaths + 1
  PROVE  Table(u)
<1>1. /\ Pos(u) = Pos(t) /\ \A r : oidAt(u, r) = oidAt(t, r)
      /\ \A r : (added(u, r) <=> added(t, r)) /\ header(u, r) = header(t, r) /\ oidOf(u, r) = oidOf(t, r)
  BY DEF Pos, oidAt, added, header, oidOf
<1>2. /\ t.owner \in [Oid -> Pos(t) \cup {NoPos}] /\ t.dead \in [Pos(t) -> Pos(t) \cup {NoPos}]
      /\ t.since \in [Pos(t) -> Nat] /\ t.deaths \in Nat /\ DOMAIN t.rows = Pos(t)
  BY DEF Table, TableType
<1>3. oidAt(t, s) \in Oid /\ w \in Pos(t) /\ added(t, w) /\ oidAt(t, w) = oidAt(t, s) /\ t.dead[w] = NoPos
  <2>1. oidAt(t, s) \in Oid
    BY OidAtType DEF Table
  <2> QED
    BY <1>2, <2>1 DEF Table, Owned, ownerOf
<1>4. /\ \A r \in Pos(t) : u.dead[r] = IF r = w THEN s ELSE IF r = s THEN NoPos ELSE t.dead[r]
      /\ \A r \in Pos(t) : u.since[r] = IF r = w THEN t.deaths + 1 ELSE t.since[r]
      /\ \A oid \in Oid : u.owner[oid] = IF oid = oidAt(t, s) THEN s ELSE t.owner[oid]
  BY <1>2, <1>3
<1>0. NoPos \notin Pos(t)
  BY OidAtType DEF Table
<1>5. Dead(u) = (Dead(t) \ {s}) \cup {w}
  BY <1>0, <1>2, <1>3, <1>4 DEF Dead, Rows
<1>6. \A r \in Dead(t) : r \in Pos(t) /\ oidAt(t, r) \in Oid /\ Redirected(t, r) /\ t.dead[r] \in Pos(t)
  BY <1>2, OidAtType DEF Dead, Rows, Table, Redirects
<1>7. TableType(u)
  <2>1. u.dead \in [Pos(t) -> Pos(t) \cup {NoPos}]
    BY <1>2, <1>3
  <2>3. u.since \in [Pos(t) -> Nat] /\ u.deaths \in Nat
    BY <1>2, <1>3
  <2>2. u.owner \in [Oid -> Pos(t) \cup {NoPos}]
    BY <1>2, <1>3
  <2> QED
    BY <1>1, <2>1, <2>2, <2>3 DEF Table, TableType
<1>8. Named(u)
  BY <1>1 DEF Table, Named
<1>9. Owned(u)
  <2>1. SUFFICES ASSUME NEW oid \in Oid, u.owner[oid] # NoPos
                 PROVE  added(t, u.owner[oid]) /\ oidAt(t, u.owner[oid]) = oid /\ u.dead[u.owner[oid]] = NoPos
    BY <1>1 DEF Owned
  <2>2. CASE oid = oidAt(t, s)
    BY <1>4, <2>2
  <2>3. CASE oid # oidAt(t, s)
    <3>1. u.owner[oid] = t.owner[oid] /\ t.owner[oid] \in Pos(t)
      BY <1>2, <1>4, <2>1, <2>3
    <3>2. added(t, t.owner[oid]) /\ oidAt(t, t.owner[oid]) = oid /\ t.dead[t.owner[oid]] = NoPos
      BY <2>1, <3>1 DEF Table, Owned
    <3> QED
      BY <1>3, <1>4, <2>3, <3>1, <3>2
  <2> QED
    BY <2>2, <2>3
<1>10. Redirects(u)
  <2>1. SUFFICES ASSUME NEW r \in (Dead(t) \ {s}) \cup {w} PROVE Redirected(u, r)
    BY <1>5 DEF Redirects
  <2>2. CASE r = w
    BY <1>0, <1>1, <1>3, <1>4, <2>2 DEF Redirected, ownerOf
  <2>3. CASE r # w
    <3>1. r \in Pos(t) /\ Redirected(t, r) /\ t.dead[r] \in Pos(t) /\ u.dead[r] = t.dead[r]
          /\ oidAt(t, r) \in Oid /\ r # s
      BY <1>4, <1>6, <2>1, <2>3
    <3>2. CASE oidAt(t, r) = oidAt(t, s)
      <4>1. t.dead[r] = w
        BY <3>1, <3>2 DEF Redirected, ownerOf
      <4>2. ownerOf(u, r) = s /\ u.dead[w] = s
        BY <1>1, <1>3, <1>4, <3>1, <3>2 DEF ownerOf
      <4>3. t.since[r] \in 1 .. t.deaths
        BY <2>1, <2>3 DEF Table, Ordered
      <4>4. u.since[r] = t.since[r] /\ u.since[w] = t.deaths + 1 /\ t.since[r] < t.deaths + 1
        BY <1>2, <1>3, <1>4, <2>3, <3>1, <4>3
      <4> QED
        BY <1>0, <1>1, <3>1, <4>1, <4>2, <4>4 DEF Redirected
    <3>3. CASE oidAt(t, r) # oidAt(t, s)
      <4>1. ownerOf(u, r) = ownerOf(t, r)
        BY <1>1, <1>4, <3>1, <3>3 DEF ownerOf
      <4>2. t.dead[r] # s /\ t.dead[r] # w
        BY <1>3, <3>1, <3>3 DEF Redirected
      <4>3. u.dead[t.dead[r]] = t.dead[t.dead[r]] /\ u.since[t.dead[r]] = t.since[t.dead[r]]
            /\ u.since[r] = t.since[r]
        BY <1>4, <2>3, <3>1, <4>2
      <4> QED
        BY <1>1, <3>1, <4>1, <4>3 DEF Redirected
    <3> QED
      BY <3>2, <3>3
  <2> QED
    BY <2>2, <2>3
<1>11. Ordered(u)
  <2>1. w \notin Dead(t)
    BY <1>3 DEF Dead
  <2>2. \A r \in Dead(t) : r \in Pos(t) /\ t.since[r] \in 1 .. t.deaths /\ u.since[r] = t.since[r]
    BY <1>4, <1>6, <2>1 DEF Table, Ordered
  <2>3. u.since[w] = t.deaths + 1
    BY <1>3, <1>4
  <2>4. \A r \in Dead(t) : t.since[r] \in 1 .. (t.deaths + 1) /\ t.since[r] # t.deaths + 1
    BY <1>2, <2>2
  <2>5. t.deaths + 1 \in 1 .. (t.deaths + 1)
    BY <1>2
  <2>6. \A r, q \in Dead(t) : t.since[q] = t.since[r] => q = r
    BY DEF Table, Ordered
  <2> QED
    BY <1>5, <2>2, <2>3, <2>4, <2>5, <2>6 DEF Ordered
<1>12. Edges(u)
  BY <1>1 DEF Table, Edges, EdgeRight
<1> QED
  BY <1>7, <1>8, <1>9, <1>10, <1>11, <1>12 DEF Table


-----------------------------------------------------------------------------
(* A row gets its base *)

RowFields(t, s, row, u) ==
    /\ SameJob(t, u) /\ u.phase = t.phase
    /\ u.dedup = t.dedup /\ u.owner = t.owner /\ u.dead = t.dead /\ u.since = t.since
    /\ u.deaths = t.deaths /\ u.queue = t.queue
    /\ u.rows = [t.rows EXCEPT ![s] = row]

LEMMA SetRowFields ==
  ASSUME NEW t, DOMAIN t = Fields, NEW s, NEW row
  PROVE  RowFields(t, s, row, [t EXCEPT !.rows[s] = row])
<1>1. PICK r : r = [t.rows EXCEPT ![s] = row]
  OBVIOUS
<1>2. [t EXCEPT !.rows[s] = row] = [t EXCEPT !.rows = r]
  BY <1>1
<1> QED
  BY <1>1, <1>2 DEF RowFields, SameJob, Fields

LEMMA RowLinks ==
  ASSUME NEW t, Table(t), NEW s, NEW row, NEW u, RowFields(t, s, row, u)
  PROVE  SameLinks(t, u)
BY DEF RowFields, SameLinks, SameJob, Table, TableType

\* s has been read, and is to get its base.
Working(t, s) ==
    /\ Table(t) /\ s \in Pos(t)
    /\ t.rows[s].kind = kindOf(header(t, s))
    /\ t.rows[s].base = NoPos
    /\ s = ownerOf(t, s) \/ t.dead[s] # NoPos
    /\ Progress(t, {s})

\* The work on s is done.
Done(t, s, u) ==
    /\ Table(u) /\ Progress(u, {}) /\ SameJob(t, u) /\ u.phase = t.phase /\ u.dead = t.dead
    /\ \A r \in Pos(t) : r # s /\ added(t, r) => u.rows[r].kind = t.rows[r].kind

LEMMA ProgressStays ==
  ASSUME NEW t, NEW u, u.packs = t.packs, u.owner = t.owner, u.dead = t.dead, u.batch = t.batch,
         t.queue \subseteq u.queue, NEW r, ReadOrQueued(t, r),
         u.rows[r].kind = t.rows[r].kind, u.rows[r].base = t.rows[r].base
  PROVE  ReadOrQueued(u, r)
BY DEF ReadOrQueued, ownerOf, oidAt, isDelta

\* wireBase
LEMMA WireKeeps ==
  ASSUME NEW t, Table(t), NEW s \in Pos(t), NEW base \in Pos(t), added(t, base),
         t.rows[s].kind = kindOf(header(t, s)), isDelta(t.rows[s]),
         t.rows[s].kind = "ofs" => oidAt(t, base) = oidAt(t, <<t.rows[s].pos[1], header(t, s).ofs>>),
         t.rows[s].kind = "ref" => oidAt(t, base) = header(t, s).ref,
         s = ownerOf(t, s) \/ t.dead[s] # NoPos,
         \A r \in Pos(t) \ {s} : ReadOrQueued(t, r) \/ (r = base /\ t.rows[r].kind = "new"),
         NEW u, u = wireBase(t, s, base)
  PROVE  Done(t, s, u)
<1>1. DOMAIN t = Fields /\ t.rows \in [Pos(t) -> Row(Pos(t))] /\ t.batch \subseteq Pos(t) /\ t.queue \subseteq Pos(t)
  BY DEF Table, TableType
<1>2. PICK row, q : /\ row = [t.rows[s] EXCEPT !.base = base]
                    /\ q = IF t.rows[base].kind = "new" /\ base \notin t.batch THEN t.queue \cup {base} ELSE t.queue
  OBVIOUS
<1>3. u = [t EXCEPT !.rows = [t.rows EXCEPT ![s] = row], !.queue = q]
  BY <1>2 DEF wireBase
<1>4. /\ SameJob(t, u) /\ u.phase = t.phase /\ u.dedup = t.dedup /\ u.owner = t.owner /\ u.dead = t.dead
      /\ u.since = t.since /\ u.deaths = t.deaths /\ u.queue = q /\ u.rows = [t.rows EXCEPT ![s] = row]
  BY <1>1, <1>3 DEF SameJob, Fields
<1>5. t.rows[s] \in Row(Pos(t))
  BY <1>1
<1>6. /\ row \in Row(Pos(t)) /\ row.pos = t.rows[s].pos /\ row.kind = t.rows[s].kind /\ row.base = base
      /\ row.pinned = t.rows[s].pinned
  BY <1>2, <1>5 DEF Row
<1>7. q \subseteq Pos(t)
  BY <1>1, <1>2
<1>8. SameLinks(t, u)
  BY <1>1, <1>4, <1>7 DEF SameLinks, SameJob
<1>9. \A r \in Pos(t) : u.rows[r] = IF r = s THEN row ELSE t.rows[r]
  BY <1>1, <1>4
<1>10. u.packs = t.packs /\ Pos(u) = Pos(t) /\ \A r : oidAt(u, r) = oidAt(t, r) /\ ownerOf(u, r) = ownerOf(t, r)
  BY <1>4 DEF SameJob, Pos, oidAt, ownerOf
<1>11. header(u, s) = header(t, s) /\ u.rows[s] = row
  BY <1>6, <1>9, <1>10 DEF header
<1>12. added(u, base)
  BY <1>6, <1>9 DEF added
<1>13. EdgeRight(u, s)
  BY <1>6, <1>10, <1>11, <1>12 DEF EdgeRight, isDelta
<1>14. Table(u)
  <2>1. added(t, s) /\ row.kind # "none"
    BY <1>6 DEF isDelta, added
  <2>2. EntryAt(t.packs, row.pos).oid = oidAt(t, s)
    BY <1>6 DEF Table, Named, oidOf, header
  <2> QED
    BY <1>4, <1>6, <1>8, <1>13, <2>1, <2>2, RowKeeps
<1>15. Progress(u, {})
  <2>1. SUFFICES ASSUME NEW r \in Pos(t) PROVE ReadOrQueued(u, r)
    BY <1>10 DEF Progress
  <2>2. CASE r = s
    <3>1. base # NoPos
      BY OidAtType DEF Table
    <3> QED
      BY <1>4, <1>6, <1>10, <1>11, <2>2, <3>1 DEF ReadOrQueued, isDelta
  <2>3. CASE r # s
    <3>1. u.rows[r] = t.rows[r]
      BY <1>9, <2>3
    <3>2. CASE ReadOrQueued(t, r)
      <4>1. t.queue \subseteq u.queue /\ u.batch = t.batch
        BY <1>2, <1>4 DEF SameJob
      <4> QED
        BY <1>4, <1>10, <3>1, <3>2, <4>1, ProgressStays
    <3>3. CASE r = base /\ t.rows[r].kind = "new"
      <4>1. r \in u.batch \cup u.queue
        BY <1>2, <1>4, <3>3 DEF SameJob
      <4> QED
        BY <3>1, <3>3, <4>1 DEF ReadOrQueued, isDelta
    <3> QED
      BY <2>3, <3>2, <3>3
  <2> QED
    BY <2>2, <2>3
<1>16. \A r \in Pos(t) : r # s /\ added(t, r) => u.rows[r].kind = t.rows[r].kind
  BY <1>9
<1> QED
  BY <1>4, <1>14, <1>15, <1>16 DEF Done

\* materializeSelectionAsFullObject
LEMMA MaterializeKeeps ==
  ASSUME NEW t, NEW s, Working(t, s), NEW u, u = materializeSelectionAsFullObject(t, s)
  PROVE  Done(t, s, u)
<1>1. /\ Table(t) /\ s \in Pos(t) /\ DOMAIN t = Fields /\ t.rows \in [Pos(t) -> Row(Pos(t))]
  BY DEF Working, Table, TableType
<1>2. oidOf(t, s) \in DecodableOids(t.packs)
  <2>1. oidOf(t, s) = EntryAt(t.packs, s).oid /\ s \in Positions(t.packs)
    BY <1>1 DEF Table, Named, oidAt, Pos
  <2>2. StoredOids(t.packs) \subseteq DecodableOids(t.packs)
    BY <1>1 DEF Table, TableType, Snapshot
  <2> QED
    BY <2>1, <2>2 DEF StoredOids
<1>3. Done(t, s, u)
  <2>1. PICK row : row = [t.rows[s] EXCEPT !.kind = "full", !.base = NoPos]
    OBVIOUS
  <2>2. u = [t EXCEPT !.rows[s] = row]
    BY <1>2, <2>1 DEF materializeSelectionAsFullObject
  <2>3. RowFields(t, s, row, u)
    BY <1>1, <2>2, SetRowFields
  <2>4. t.rows[s] \in Row(Pos(t))
    BY <1>1
  <2>5. /\ row \in Row(Pos(t)) /\ row.pos = t.rows[s].pos /\ row.kind = "full" /\ row.base = NoPos
        /\ row.pinned = t.rows[s].pinned
    BY <2>1, <2>4 DEF Row
  <2>6. \A r \in Pos(t) : u.rows[r] = IF r = s THEN row ELSE t.rows[r]
    BY <1>1, <2>3 DEF RowFields
  <2>7. SameLinks(t, u)
    BY <1>1, <2>3, RowLinks
  <2>8. EdgeRight(u, s)
    BY <1>1, <2>5, <2>6 DEF EdgeRight, isDelta
  <2>9. Table(u)
    <3>1. added(t, s) /\ EntryAt(t.packs, row.pos).oid = oidAt(t, s)
      <4>1. t.rows[s].kind \in {"full", "ofs", "ref"}
        BY DEF Working, kindOf
      <4> QED
        BY <1>1, <2>5, <4>1 DEF Table, Named, oidOf, header, added
    <3>2. u.rows = [t.rows EXCEPT ![s] = row]
      BY <2>3 DEF RowFields
    <3> QED
      BY <1>1, <2>5, <2>7, <2>8, <3>1, <3>2, RowKeeps
  <2>10. u.packs = t.packs /\ Pos(u) = Pos(t) /\ u.owner = t.owner /\ u.dead = t.dead /\ u.batch = t.batch
         /\ u.queue = t.queue
    BY <2>3 DEF RowFields, SameJob, Pos
  <2>11. Progress(u, {})
    <3>1. SUFFICES ASSUME NEW r \in Pos(t) PROVE ReadOrQueued(u, r)
      BY <2>10 DEF Progress
    <3>2. CASE r = s
      BY <1>1, <2>5, <2>6, <2>10, <3>2 DEF ReadOrQueued, isDelta, Working, ownerOf, oidAt
    <3>3. CASE r # s
      <4>1. ReadOrQueued(t, r) /\ u.rows[r] = t.rows[r]
        BY <2>6, <3>3 DEF Working, Progress
      <4> QED
        BY <2>10, <4>1, ProgressStays
    <3> QED
      BY <3>2, <3>3
  <2> QED
    BY <2>3, <2>6, <2>9, <2>11 DEF Done, RowFields
<1> QED
  BY <1>3


\* The base of an OFS_DELTA is an earlier entry of its pack, and another object.
LEMMA OfsBaseIn ==
  ASSUME NEW t, TableType(t), NEW s \in Pos(t), kindOf(header(t, s)) = "ofs"
  PROVE  /\ <<t.rows[s].pos[1], header(t, s).ofs>> \in Pos(t)
         /\ oidAt(t, <<t.rows[s].pos[1], header(t, s).ofs>>) # oidOf(t, s)
<1>1. PICK pos : pos = t.rows[s].pos
  OBVIOUS
<1>2. pos \in Pos(t) /\ t.packs \in Seq(Seq(Entry)) /\ \A p \in DOMAIN t.packs : SoundPack(t.packs[p])
  BY <1>1, OidAtType DEF TableType, Snapshot
<1>3. /\ pos[1] \in DOMAIN t.packs /\ pos[2] \in DOMAIN t.packs[pos[1]]
      /\ header(t, s) = t.packs[pos[1]][pos[2]]
  BY <1>1, <1>2, PositionParts DEF Pos, header
<1>4. PICK pack : pack = t.packs[pos[1]]
  OBVIOUS
<1>5. PICK i : i = pos[2]
  OBVIOUS
<1>6. SoundPack(pack) /\ i \in DOMAIN pack /\ header(t, s) = pack[i]
  BY <1>2, <1>3, <1>4, <1>5
<1>7. pack \in Seq(Entry) /\ pack[i].ofs < i /\ pack[i].ofs # 0 /\ pack[i].ofs \in Nat
  <2>1. pack \in Seq(Entry) /\ pack[i].ofs < i
    BY <1>6 DEF SoundPack
  <2>2. pack[i] \in Entry
    BY <1>6, <2>1
  <2>3. pack[i].ofs # 0
    BY <1>6 DEF kindOf
  <2> QED
    BY <2>1, <2>2, <2>3 DEF Entry
<1>8. pack[i].ofs \in DOMAIN pack
  <2>1. DOMAIN pack = 1 .. Len(pack) /\ Len(pack) \in Nat /\ i \in 1 .. Len(pack)
    BY <1>6, <1>7
  <2> QED
    BY <1>7, <2>1
<1>9. pack[i].ofs # i /\ pack[pack[i].ofs].oid # pack[i].oid
  <2>1. i \in Nat
    BY <1>6, <1>7
  <2>2. pack[i].ofs # i
    BY <1>7, <2>1
  <2>3. \A m, n \in DOMAIN pack : pack[m].oid = pack[n].oid => m = n
    BY <1>3, <1>4 DEF TableType, Snapshot
  <2> QED
    BY <1>6, <1>8, <2>2, <2>3
<1>10. PICK base : base = <<pos[1], pack[i].ofs>>
  OBVIOUS
<1>11. base \in Pos(t) /\ EntryAt(t.packs, base) = pack[pack[i].ofs]
  BY <1>3, <1>4, <1>8, <1>10, PositionIn DEF Pos
<1>12. base = <<t.rows[s].pos[1], header(t, s).ofs>>
  BY <1>1, <1>6, <1>10
<1> QED
  BY <1>6, <1>9, <1>11, <1>12 DEF oidAt, oidOf

\* A row that is there already, or was added just now, while s is worked on.
LEMMA AddWhileWorking ==
  ASSUME NEW t, NEW s, Working(t, s), NEW pos \in Pos(t), NEW v, v = addEntry(t, pos), NEW b, b = v.dedup[pos]
  PROVE  /\ Table(v) /\ SameJob(t, v) /\ v.phase = t.phase /\ v.dead = t.dead /\ Pos(v) = Pos(t)
         /\ b \in Pos(t) /\ added(v, b) /\ oidAt(v, b) = oidAt(t, pos)
         /\ \A r \in Pos(t) : added(t, r) => v.rows[r] = t.rows[r]
         /\ added(t, s) /\ v.rows[s] = t.rows[s] /\ header(v, s) = header(t, s)
         /\ s = ownerOf(v, s) \/ v.dead[s] # NoPos
         /\ \A r \in Pos(t) \ {s} : ReadOrQueued(v, r) \/ (r = b /\ v.rows[r].kind = "new")
<1>1. Table(t) /\ s \in Pos(t)
  BY DEF Working
<1>2. /\ Table(v) /\ SameJob(t, v) /\ v.phase = t.phase
      /\ v.owner = t.owner /\ v.dead = t.dead /\ v.queue = t.queue
      /\ b \in Pos(t) /\ added(v, b) /\ oidAt(v, b) = oidAt(t, pos)
      /\ \A r \in Pos(t) : added(t, r) \/ r # b => v.rows[r] = t.rows[r]
      /\ ~added(t, b) => v.rows[b].kind = "new"
  BY <1>1, AddKeeps
<1>3. added(t, s)
  BY DEF Working, kindOf, added
<1>4. v.rows[s] = t.rows[s]
  BY <1>1, <1>2, <1>3
<1>5. v.packs = t.packs /\ v.batch = t.batch /\ Pos(v) = Pos(t)
  BY <1>2 DEF SameJob, Pos
<1>6. header(v, s) = header(t, s) /\ (s = ownerOf(v, s) \/ v.dead[s] # NoPos)
  BY <1>2, <1>4, <1>5 DEF header, Working, ownerOf, oidAt
<1>7. ASSUME NEW r \in Pos(t) \ {s} PROVE ReadOrQueued(v, r) \/ (r = b /\ v.rows[r].kind = "new")
  <2>1. CASE added(t, r) \/ r # b
    <3>1. v.rows[r] = t.rows[r] /\ ReadOrQueued(t, r)
      BY <1>2, <2>1 DEF Working, Progress
    <3> QED
      BY <1>2, <1>5, <3>1, ProgressStays
  <2>2. CASE ~added(t, r) /\ r = b
    BY <1>2, <2>2
  <2> QED
    BY <2>1, <2>2
<1> QED
  BY <1>2, <1>3, <1>4, <1>5, <1>6, <1>7

\* resolveOfsBase
LEMMA OfsBaseKeeps ==
  ASSUME NEW t, NEW s, Working(t, s), kindOf(header(t, s)) = "ofs", NEW u, u = resolveOfsBase(t, s)
  PROVE  Done(t, s, u)
<1>1. PICK pos : pos = <<t.rows[s].pos[1], header(t, s).ofs>>
  OBVIOUS
<1>2. s \in Pos(t) /\ TableType(t) /\ Table(t)
  BY DEF Working, Table
<1>3. pos \in Pos(t) /\ oidAt(t, pos) # oidAt(t, s)
  BY <1>1, <1>2, OfsBaseIn DEF Table, Named
<1>4. PICK v : v = addEntry(t, pos)
  OBVIOUS
<1>5. PICK b : b = v.dedup[pos]
  OBVIOUS
<1>6. /\ Table(v) /\ SameJob(t, v) /\ v.phase = t.phase /\ v.dead = t.dead /\ Pos(v) = Pos(t)
      /\ b \in Pos(t) /\ added(v, b) /\ oidAt(v, b) = oidAt(t, pos)
      /\ \A r \in Pos(t) : added(t, r) => v.rows[r] = t.rows[r]
      /\ added(t, s) /\ v.rows[s] = t.rows[s] /\ header(v, s) = header(t, s)
      /\ s = ownerOf(v, s) \/ v.dead[s] # NoPos
      /\ \A r \in Pos(t) \ {s} : ReadOrQueued(v, r) \/ (r = b /\ v.rows[r].kind = "new")
  BY <1>3, <1>4, <1>5, AddWhileWorking
<1>7. PICK row, pin : row = [v.rows[b] EXCEPT !.pinned = TRUE] /\ pin = [v EXCEPT !.rows[b] = row]
  OBVIOUS
<1>8. u = IF b = s THEN fail(pin, "self-referential-ofs-delta") ELSE wireBase(pin, s, b)
  BY <1>1, <1>4, <1>5, <1>7 DEF resolveOfsBase
<1>9. DOMAIN v = Fields /\ v.rows \in [Pos(t) -> Row(Pos(t))]
  BY <1>6 DEF Table, TableType
<1>10. RowFields(v, b, row, pin)
  BY <1>7, <1>9, SetRowFields
<1>11. b # s
  <2>1. oidAt(v, s) = oidAt(t, s)
    BY <1>6 DEF SameJob, oidAt
  <2> QED
    BY <1>3, <1>6, <2>1
<1>12. Done(t, s, u)
  <2>1. v.rows[b] \in Row(Pos(t))
    BY <1>6, <1>9
  <2>2. /\ row \in Row(Pos(t)) /\ row.pos = v.rows[b].pos /\ row.kind = v.rows[b].kind
        /\ row.base = v.rows[b].base /\ row.pinned
    BY <1>7, <2>1 DEF Row
  <2>3. \A r \in Pos(t) : pin.rows[r] = IF r = b THEN row ELSE v.rows[r]
    BY <1>9, <1>10 DEF RowFields
  <2>4. /\ pin.packs = v.packs /\ pin.batch = v.batch /\ pin.queue = v.queue /\ pin.owner = v.owner
        /\ pin.dead = v.dead /\ pin.phase = v.phase /\ pin.needed = v.needed /\ pin.retained = v.retained
        /\ Pos(pin) = Pos(t)
    BY <1>6, <1>10 DEF RowFields, SameJob, Pos
  <2>5. Table(pin) /\ \A r \in Pos(t) : added(pin, r) <=> added(v, r)
    <3>1. SameLinks(v, pin) /\ pin.rows = [v.rows EXCEPT ![b] = row]
      BY <1>6, <1>10, RowLinks DEF RowFields
    <3>2. EntryAt(v.packs, row.pos).oid = oidAt(v, b) /\ row.kind # "none"
      BY <1>6, <2>2 DEF Table, Named, oidOf, header, added
    <3>3. EdgeRight(pin, b)
      <4>1. EdgeRight(v, b)
        BY <1>6 DEF Table, Edges
      <4>2. header(pin, b) = header(v, b) /\ pin.rows[b] = row
        BY <1>6, <2>2, <2>3, <2>4 DEF header
      <4>3. row.base # NoPos /\ added(v, row.base) => added(pin, row.base)
        <5>1. row.base # NoPos => row.base \in Pos(t)
          BY <2>2 DEF Row
        <5> QED
          BY <2>2, <2>3, <5>1 DEF added
      <4> QED
        BY <2>2, <2>4, <4>1, <4>2, <4>3 DEF EdgeRight, isDelta, oidAt
    <3> QED
      BY <1>6, <2>2, <3>1, <3>2, <3>3, RowKeeps
  <2>6. pin.rows[s] = t.rows[s] /\ header(pin, s) = header(t, s)
    BY <1>2, <1>6, <1>11, <2>3, <2>4 DEF header, SameJob
  <2>7. pin.rows[s].kind = kindOf(header(pin, s)) /\ isDelta(pin.rows[s]) /\ pin.rows[s].kind = "ofs"
    BY <2>6 DEF Working, isDelta
  <2>8. oidAt(pin, b) = oidAt(pin, <<pin.rows[s].pos[1], header(pin, s).ofs>>)
    BY <1>1, <1>6, <2>4, <2>6 DEF oidAt, SameJob
  <2>9. s = ownerOf(pin, s) \/ pin.dead[s] # NoPos
    BY <1>6, <2>4 DEF ownerOf, oidAt
  <2>10. ASSUME NEW r \in Pos(t) \ {s} PROVE ReadOrQueued(pin, r) \/ (r = b /\ pin.rows[r].kind = "new")
    <3>1. pin.rows[r].kind = v.rows[r].kind /\ pin.rows[r].base = v.rows[r].base
      BY <2>2, <2>3
    <3> QED
      BY <1>6, <2>4, <3>1, ProgressStays
  <2>11. added(pin, b)
    BY <1>6, <2>5
  <2>12. Done(pin, s, u)
    BY <1>2, <1>6, <1>8, <1>11, <2>4, <2>5, <2>7, <2>8, <2>9, <2>10, <2>11, WireKeeps
  <2>13. \A r \in Pos(t) : r # s /\ added(t, r) => u.rows[r].kind = t.rows[r].kind
    <3>1. SUFFICES ASSUME NEW r \in Pos(t), r # s, added(t, r) PROVE u.rows[r].kind = t.rows[r].kind
      OBVIOUS
    <3>2. v.rows[r] = t.rows[r] /\ pin.rows[r].kind = v.rows[r].kind
      BY <1>6, <2>2, <2>3, <3>1
    <3>3. added(pin, r)
      BY <3>1, <3>2 DEF added
    <3> QED
      BY <2>4, <2>12, <3>1, <3>2, <3>3 DEF Done
  <2> QED
    BY <1>6, <2>4, <2>12, <2>13 DEF Done, SameJob
<1> QED
  BY <1>12

\* resolveRefBase
LEMMA RefBaseKeeps ==
  ASSUME NEW t, NEW s, Working(t, s), kindOf(header(t, s)) = "ref", NEW u, u = resolveRefBase(t, s)
  PROVE  Done(t, s, u)
<1>1. s \in Pos(t) /\ TableType(t) /\ Table(t)
  BY DEF Working, Table
<1>2. PICK bases, pos, v : bases = refDeltaBases(t, s) /\ pos = First(bases) /\ v = addEntry(t, pos)
  OBVIOUS
<1>3. u = IF bases = {} THEN materializeSelectionAsFullObject(t, s) ELSE wireBase(v, s, v.dedup[pos])
  BY <1>2 DEF resolveRefBase
<1>4. CASE bases = {}
  BY <1>3, <1>4, MaterializeKeeps
<1>5. CASE bases # {}
  <2>1. bases \subseteq Nat \X Nat
    <3>1. SUFFICES ASSUME NEW q \in Positions(t.packs) PROVE q \in Nat \X Nat
      BY <1>2 DEF refDeltaBases, collectPackedObjectCandidates
    <3> QED
      BY <1>1, PositionParts DEF TableType, Snapshot
  <2>2. pos \in bases
    BY <1>2, <1>5, <2>1, FirstIn
  <2>3. pos \in Pos(t) /\ oidAt(t, pos) = header(t, s).ref
    BY <1>2, <2>2 DEF refDeltaBases, collectPackedObjectCandidates, Pos, oidAt
  <2>4. PICK b : b = v.dedup[pos]
    OBVIOUS
  <2>5. /\ Table(v) /\ SameJob(t, v) /\ v.phase = t.phase /\ v.dead = t.dead /\ Pos(v) = Pos(t)
        /\ b \in Pos(t) /\ added(v, b) /\ oidAt(v, b) = oidAt(t, pos)
        /\ \A r \in Pos(t) : added(t, r) => v.rows[r] = t.rows[r]
        /\ added(t, s) /\ v.rows[s] = t.rows[s] /\ header(v, s) = header(t, s)
        /\ s = ownerOf(v, s) \/ v.dead[s] # NoPos
        /\ \A r \in Pos(t) \ {s} : ReadOrQueued(v, r) \/ (r = b /\ v.rows[r].kind = "new")
    BY <1>2, <2>3, <2>4, AddWhileWorking
  <2>6. v.rows[s].kind = kindOf(header(v, s)) /\ isDelta(v.rows[s]) /\ v.rows[s].kind = "ref"
    BY <2>5 DEF Working, isDelta
  <2>7. oidAt(v, b) = header(v, s).ref
    BY <2>3, <2>5
  <2>8. Done(v, s, u)
    BY <1>1, <1>3, <1>5, <2>4, <2>5, <2>6, <2>7, WireKeeps
  <2>9. \A r \in Pos(t) : r # s /\ added(t, r) => u.rows[r].kind = t.rows[r].kind
    <3>1. SUFFICES ASSUME NEW r \in Pos(t), r # s, added(t, r) PROVE u.rows[r].kind = t.rows[r].kind
      OBVIOUS
    <3>2. v.rows[r] = t.rows[r] /\ added(v, r)
      BY <2>5, <3>1 DEF added
    <3> QED
      BY <2>5, <2>8, <3>1, <3>2 DEF Done
  <2> QED
    BY <2>5, <2>8, <2>9 DEF Done, SameJob
<1> QED
  BY <1>4, <1>5

\* resolveDeltaBaseFromHeader
LEMMA ResolveBaseKeeps ==
  ASSUME NEW t, NEW s, Working(t, s), NEW u, u = resolveDeltaBaseFromHeader(t, s)
  PROVE  Done(t, s, u)
<1>1. CASE kindOf(header(t, s)) = "full"
  <2>1. u = t
    BY <1>1 DEF resolveDeltaBaseFromHeader
  <2>2. Progress(t, {})
    <3>1. ReadOrQueued(t, s)
      BY <1>1 DEF Working, ReadOrQueued, isDelta
    <3> QED
      BY <3>1 DEF Working, Progress
  <2> QED
    BY <2>1, <2>2 DEF Done, Working, Table, TableType, SameJob
<1>2. CASE kindOf(header(t, s)) = "ofs"
  <2>1. u = resolveOfsBase(t, s)
    BY <1>2 DEF resolveDeltaBaseFromHeader
  <2> QED
    BY <1>2, <2>1, OfsBaseKeeps
<1>3. CASE kindOf(header(t, s)) = "ref"
  <2>1. u = resolveRefBase(t, s)
    BY <1>3 DEF resolveDeltaBaseFromHeader
  <2> QED
    BY <1>3, <2>1, RefBaseKeeps
<1> QED
  BY <1>1, <1>2, <1>3 DEF kindOf


-----------------------------------------------------------------------------
(* A header is read *)

\* The header of s has just been read.
Fresh(t, s) ==
    /\ Table(t) /\ s \in Pos(t)
    /\ t.rows[s].kind = kindOf(header(t, s))
    /\ t.rows[s].base = NoPos
    /\ Progress(t, {s})

Settled(t, u) == Table(u) /\ Progress(u, {}) /\ SameJob(t, u) /\ u.phase = t.phase

ClaimFields(t, oid, s, u) ==
    /\ SameJob(t, u) /\ u.phase = t.phase
    /\ u.rows = t.rows /\ u.dedup = t.dedup /\ u.dead = t.dead /\ u.since = t.since
    /\ u.deaths = t.deaths /\ u.queue = t.queue
    /\ u.owner = [t.owner EXCEPT ![oid] = s]

LEMMA SetOwnerFields ==
  ASSUME NEW t, DOMAIN t = Fields, NEW oid, NEW s
  PROVE  ClaimFields(t, oid, s, [t EXCEPT !.owner[oid] = s])
<1>1. PICK o : o = [t.owner EXCEPT ![oid] = s]
  OBVIOUS
<1>2. [t EXCEPT !.owner[oid] = s] = [t EXCEPT !.owner = o]
  BY <1>1
<1> QED
  BY <1>1, <1>2 DEF ClaimFields, SameJob, Fields

MapFields(t, pos, s, u) ==
    /\ SameJob(t, u) /\ u.phase = t.phase
    /\ u.rows = t.rows /\ u.owner = t.owner /\ u.dead = t.dead /\ u.since = t.since
    /\ u.deaths = t.deaths /\ u.queue = t.queue
    /\ u.dedup = [t.dedup EXCEPT ![pos] = s]

LEMMA SetDedupFields ==
  ASSUME NEW t, DOMAIN t = Fields, NEW pos, NEW s
  PROVE  MapFields(t, pos, s, [t EXCEPT !.dedup[pos] = s])
<1>1. PICK d : d = [t.dedup EXCEPT ![pos] = s]
  OBVIOUS
<1>2. [t EXCEPT !.dedup[pos] = s] = [t EXCEPT !.dedup = d]
  BY <1>1
<1> QED
  BY <1>1, <1>2 DEF MapFields, SameJob, Fields

LEMMA FreshFacts ==
  ASSUME NEW t, NEW s, Fresh(t, s)
  PROVE  /\ Table(t) /\ TableType(t) /\ DOMAIN t = Fields /\ s \in Pos(t) /\ added(t, s)
         /\ oidOf(t, s) = oidAt(t, s) /\ oidAt(t, s) \in Oid /\ NoPos \notin Pos(t) /\ s # NoPos
         /\ t.rows[s] \in Row(Pos(t)) /\ t.rows[s].pos \in Pos(t) /\ oidAt(t, t.rows[s].pos) = oidAt(t, s)
         /\ \A r \in Pos(t) \ {s} : ReadOrQueued(t, r)
         /\ \A r \in Pos(t) : oidAt(t, r) \in Oid
<1>1. Table(t) /\ TableType(t) /\ s \in Pos(t) /\ DOMAIN t = Fields /\ t.rows \in [Pos(t) -> Row(Pos(t))]
  BY DEF Fresh, Table, TableType
<1>2. added(t, s)
  BY DEF Fresh, added, kindOf
<1>3. oidOf(t, s) = oidAt(t, s)
  BY <1>1 DEF Table, Named
<1>4. oidAt(t, t.rows[s].pos) = oidAt(t, s)
  BY <1>3 DEF oidOf, header, oidAt
<1> QED
  BY <1>1, <1>2, <1>3, <1>4, OidAtType DEF Fresh, Progress

\* The owner of an object without one, and progress.
LEMMA ClaimSettles ==
  ASSUME NEW t, NEW s, Fresh(t, s), ownerOf(t, s) = NoPos,
         NEW w \in Pos(t), added(t, w), oidAt(t, w) = oidAt(t, s), NEW u, ClaimFields(t, oidAt(t, s), w, u)
  PROVE  /\ Table(u) /\ SameJob(t, u) /\ u.phase = t.phase /\ Pos(u) = Pos(t)
         /\ ownerOf(u, s) = w
         /\ \A r \in Pos(t) \ {s} : ReadOrQueued(u, r)
<1>1. /\ Table(t) /\ s \in Pos(t) /\ oidAt(t, s) \in Oid /\ NoPos \notin Pos(t)
      /\ \A r \in Pos(t) \ {s} : ReadOrQueued(t, r)
      /\ \A r \in Pos(t) : oidAt(t, r) \in Oid
  BY FreshFacts
<1>2. ownerOf(t, w) = NoPos
  BY DEF ownerOf
<1>3. /\ u.rows = t.rows /\ u.dedup = t.dedup /\ u.dead = t.dead /\ u.since = t.since
      /\ u.deaths = t.deaths /\ u.queue = t.queue /\ u.packs = t.packs /\ u.needed = t.needed
      /\ u.batch = t.batch /\ DOMAIN u = Fields
      /\ u.owner = [t.owner EXCEPT ![oidAt(t, w)] = w]
  BY DEF ClaimFields, SameJob
<1>4. Table(u)
  BY <1>1, <1>2, <1>3, ClaimKeeps
<1>5. \A r \in Pos(t) : ownerOf(u, r) = IF oidAt(t, r) = oidAt(t, s) THEN w ELSE ownerOf(t, r)
  BY <1>1, <1>3 DEF ownerOf, oidAt, Table, TableType
<1>6. ASSUME NEW r \in Pos(t) \ {s} PROVE ReadOrQueued(u, r)
  <2>1. ReadOrQueued(t, r)
    BY <1>1
  <2>2. r = ownerOf(t, r) => r = ownerOf(u, r)
    <3>1. SUFFICES ASSUME r = ownerOf(t, r) PROVE oidAt(t, r) # oidAt(t, s)
      BY <1>5
    <3>2. r # NoPos
      BY <1>1
    <3> QED
      BY <3>1, <3>2 DEF ownerOf
  <2> QED
    BY <1>3, <2>1, <2>2 DEF ReadOrQueued
<1> QED
  BY <1>1, <1>3, <1>4, <1>5, <1>6 DEF ClaimFields, Pos

\* tryCanonicalizeDeltaSelectionToFull
LEMMA CanonicalizeKeeps ==
  ASSUME NEW t, NEW s, Fresh(t, s), ownerOf(t, s) = NoPos,
         NEW pos, pos \in wholeDuplicates(t, s), NEW u, u = canonicalizeToFull(t, s, pos)
  PROVE  Settled(t, u)
<1>1. /\ Table(t) /\ TableType(t) /\ DOMAIN t = Fields /\ s \in Pos(t) /\ added(t, s)
      /\ oidOf(t, s) = oidAt(t, s) /\ oidAt(t, s) \in Oid /\ NoPos \notin Pos(t) /\ s # NoPos
      /\ t.rows[s] \in Row(Pos(t)) /\ t.rows[s].pos \in Pos(t) /\ oidAt(t, t.rows[s].pos) = oidAt(t, s)
      /\ \A r \in Pos(t) \ {s} : ReadOrQueued(t, r)
  BY FreshFacts
<1>2. pos \in Pos(t) /\ oidAt(t, pos) = oidAt(t, s)
  BY <1>1 DEF wholeDuplicates, collectPackedObjectCandidates, Pos, oidAt
<1>3. PICK w : w = t.dedup[pos]
  OBVIOUS
<1>4. CASE w \notin {NoPos, s}
  <2>1. w \in Pos(t) /\ added(t, w) /\ oidAt(t, w) = oidAt(t, s)
    BY <1>1, <1>2, <1>3, <1>4 DEF TableType, Table, Named
  <2>2. PICK c : c = [t EXCEPT !.owner[oidAt(t, s)] = w]
    OBVIOUS
  <2>3. ClaimFields(t, oidAt(t, s), w, c)
    BY <1>1, <2>2, SetOwnerFields
  <2>4. /\ Table(c) /\ SameJob(t, c) /\ c.phase = t.phase /\ Pos(c) = Pos(t)
        /\ ownerOf(c, s) = w
        /\ \A r \in Pos(t) \ {s} : ReadOrQueued(c, r)
    BY <2>1, <2>3, ClaimSettles
  <2>5. PICK d : d = setDead(c, s, w)
    OBVIOUS
  <2>6. DeadFields(c, s, w, d)
    <3>1. DOMAIN c = Fields
      BY <2>3 DEF ClaimFields, SameJob
    <3> QED
      BY <2>5, <3>1, SetDeadFields
  <2>7. Table(d)
    <3>1. added(c, s)
      BY <1>1, <2>3 DEF ClaimFields, added
    <3>2. w # NoPos /\ w # s
      BY <1>4
    <3> QED
      BY <1>1, <2>4, <2>6, <3>1, <3>2, SetDeadKeeps
  <2>8. PICK e : e = [d EXCEPT !.dedup[t.rows[s].pos] = w]
    OBVIOUS
  <2>9. MapFields(d, t.rows[s].pos, w, e)
    <3>1. DOMAIN d = Fields
      BY <2>6 DEF DeadFields, SameJob
    <3> QED
      BY <2>8, <3>1, SetDedupFields
  <2>10. /\ d.rows = t.rows /\ d.packs = t.packs /\ Pos(d) = Pos(t) /\ d.batch = t.batch /\ d.queue = t.queue
         /\ d.owner = c.owner /\ d.needed = t.needed /\ d.retained = t.retained /\ d.phase = t.phase
         /\ d.dead = [t.dead EXCEPT ![s] = w]
    BY <2>3, <2>6 DEF ClaimFields, DeadFields, SameJob, Pos
  <2>11. Table(e)
    <3>1. added(d, w) /\ oidAt(d, w) = oidAt(d, t.rows[s].pos)
      BY <1>1, <2>1, <2>10 DEF added, oidAt
    <3> QED
      BY <1>1, <2>1, <2>7, <2>9, <2>10, <3>1, DedupKeeps DEF MapFields, SameJob
  <2>12. \A r \in Pos(t) : e.dead[r] = IF r = s THEN w ELSE t.dead[r]
    BY <1>1, <2>9, <2>10 DEF MapFields, TableType
  <2>13. Progress(e, {})
    <3>1. Pos(e) = Pos(t) /\ \A r : ownerOf(e, r) = ownerOf(c, r)
      BY <2>3, <2>9, <2>10 DEF MapFields, ClaimFields, SameJob, Pos, ownerOf, oidAt
    <3>2. SUFFICES ASSUME NEW r \in Pos(t) PROVE ReadOrQueued(e, r)
      BY <3>1 DEF Progress
    <3>3. e.rows = t.rows /\ e.batch = t.batch /\ e.queue = t.queue
      BY <2>9, <2>10 DEF MapFields, SameJob
    <3>4. CASE r = s
      <4>1. e.dead[s] # NoPos /\ t.rows[s].kind # "new"
        BY <1>1, <1>4, <2>12 DEF Fresh, kindOf
      <4> QED
        BY <3>3, <3>4, <4>1 DEF ReadOrQueued
    <3>5. CASE r # s
      <4>1. ReadOrQueued(c, r) /\ e.dead[r] = c.dead[r] /\ c.rows = t.rows /\ c.batch = t.batch /\ c.queue = t.queue
        BY <2>3, <2>4, <2>12, <3>5 DEF ClaimFields, SameJob
      <4> QED
        BY <3>1, <3>3, <4>1 DEF ReadOrQueued
    <3> QED
      BY <3>4, <3>5
  <2>14. u = e
    <3>1. u = [setDead(t, s, w) EXCEPT !.dedup[t.rows[s].pos] = w, !.owner[oidAt(t, s)] = w]
      BY <1>1, <1>3, <1>4 DEF canonicalizeToFull
    <3>2. PICK dd, ii, nn, mm, oo : /\ dd = [t.dead EXCEPT ![s] = w] /\ ii = [t.since EXCEPT ![s] = t.deaths + 1]
                                    /\ nn = t.deaths + 1 /\ mm = [t.dedup EXCEPT ![t.rows[s].pos] = w]
                                    /\ oo = [t.owner EXCEPT ![oidAt(t, s)] = w]
      OBVIOUS
    <3>3. c = [t EXCEPT !.owner = oo]
      BY <2>2, <3>2
    <3>4. c.dead = t.dead /\ c.since = t.since /\ c.deaths = t.deaths /\ c.dedup = t.dedup /\ DOMAIN c = Fields
      BY <2>3 DEF ClaimFields, SameJob
    <3>5. CASE t.dead[s] # NoPos
      <4>1. d = [c EXCEPT !.dead = dd]
        BY <2>5, <3>2, <3>4, <3>5 DEF setDead
      <4>2. e = [d EXCEPT !.dedup = mm]
        BY <2>8, <3>2, <3>4, <4>1 DEF Fields
      <4>3. u = [t EXCEPT !.dead = dd, !.dedup = mm, !.owner = oo]
        <5>1. setDead(t, s, w) = [t EXCEPT !.dead = dd]
          BY <3>2, <3>5 DEF setDead
        <5> QED
          BY <1>1, <3>1, <3>2, <5>1 DEF Fields
      <4> QED
        BY <1>1, <3>3, <4>1, <4>2, <4>3 DEF Fields
    <3>6. CASE t.dead[s] = NoPos
      <4>1. d = [c EXCEPT !.dead = dd, !.since = ii, !.deaths = nn]
        BY <2>5, <3>2, <3>4, <3>6 DEF setDead
      <4>2. e = [d EXCEPT !.dedup = mm]
        BY <2>8, <3>2, <3>4, <4>1 DEF Fields
      <4>3. u = [t EXCEPT !.dead = dd, !.since = ii, !.deaths = nn, !.dedup = mm, !.owner = oo]
        <5>1. setDead(t, s, w) = [t EXCEPT !.dead = dd, !.since = ii, !.deaths = nn]
          BY <3>2, <3>6 DEF setDead
        <5> QED
          BY <1>1, <3>1, <3>2, <5>1 DEF Fields
      <4> QED
        BY <1>1, <3>3, <4>1, <4>2, <4>3 DEF Fields
    <3> QED
      BY <3>5, <3>6
  <2>15. SameJob(t, e) /\ e.phase = t.phase
    BY <2>9, <2>10 DEF MapFields, SameJob
  <2> QED
    BY <2>11, <2>13, <2>14, <2>15 DEF Settled
<1>5. CASE w \in {NoPos, s}
  <2>1. PICK c : c = [t EXCEPT !.owner[oidAt(t, s)] = s]
    OBVIOUS
  <2>2. ClaimFields(t, oidAt(t, s), s, c)
    BY <1>1, <2>1, SetOwnerFields
  <2>3. /\ Table(c) /\ SameJob(t, c) /\ c.phase = t.phase /\ Pos(c) = Pos(t)
        /\ ownerOf(c, s) = s
        /\ \A r \in Pos(t) \ {s} : ReadOrQueued(c, r)
    BY <1>1, <2>2, ClaimSettles
  <2>4. PICK row, e : row = [t.rows[s] EXCEPT !.pos = pos, !.kind = "full", !.base = NoPos]
                      /\ e = [c EXCEPT !.rows[s] = row]
    OBVIOUS
  <2>5. DOMAIN c = Fields /\ c.rows = t.rows /\ c.dead = t.dead /\ c.batch = t.batch /\ c.queue = t.queue
        /\ c.packs = t.packs /\ c.dedup = t.dedup /\ c.needed = t.needed /\ c.retained = t.retained
    BY <2>2 DEF ClaimFields, SameJob
  <2>6. RowFields(c, s, row, e)
    BY <2>4, <2>5, SetRowFields
  <2>7. /\ row \in Row(Pos(t)) /\ row.pos = pos /\ row.kind = "full" /\ row.base = NoPos
        /\ row.pinned = t.rows[s].pinned
    BY <1>1, <1>2, <2>4 DEF Row
  <2>8. t.rows \in [Pos(t) -> Row(Pos(t))]
    BY <1>1 DEF TableType
  <2>9. \A r \in Pos(t) : e.rows[r] = IF r = s THEN row ELSE t.rows[r]
    BY <2>5, <2>6, <2>8 DEF RowFields
  <2>10. Table(e)
    <3>1. SameLinks(c, e) /\ e.rows = [c.rows EXCEPT ![s] = row]
      BY <2>3, <2>6, RowLinks DEF RowFields
    <3>2. EdgeRight(e, s)
      BY <1>1, <2>7, <2>9 DEF EdgeRight, isDelta
    <3>3. EntryAt(c.packs, row.pos).oid = oidAt(c, s)
      BY <1>2, <2>5, <2>7 DEF oidAt
    <3>4. added(c, s) /\ (c.rows[s].pinned => row.pinned) /\ row.kind # "none"
      BY <1>1, <2>5, <2>7 DEF added
    <3> QED
      BY <1>1, <2>3, <2>7, <3>1, <3>2, <3>3, <3>4, RowKeeps
  <2>11. PICK f : f = [e EXCEPT !.dedup[pos] = s]
    OBVIOUS
  <2>12. MapFields(e, pos, s, f)
    <3>1. DOMAIN e = Fields
      BY <2>6 DEF RowFields, SameJob
    <3> QED
      BY <2>11, <3>1, SetDedupFields
  <2>13. e.packs = t.packs /\ Pos(e) = Pos(t) /\ e.batch = t.batch /\ e.queue = t.queue /\ e.dead = t.dead
         /\ e.owner = c.owner /\ e.needed = t.needed /\ e.retained = t.retained /\ e.phase = t.phase
    BY <2>2, <2>5, <2>6 DEF RowFields, SameJob, Pos, ClaimFields
  <2>14. Table(f)
    <3>1. added(e, s) /\ oidAt(e, s) = oidAt(e, pos)
      BY <1>1, <1>2, <2>7, <2>9, <2>13 DEF added, oidAt
    <3> QED
      BY <1>1, <1>2, <2>10, <2>12, <2>13, <3>1, DedupKeeps DEF MapFields, SameJob
  <2>15. Progress(f, {})
    <3>1. Pos(f) = Pos(t) /\ \A r : ownerOf(f, r) = ownerOf(c, r)
      BY <2>5, <2>12, <2>13 DEF MapFields, SameJob, Pos, ownerOf, oidAt
    <3>2. SUFFICES ASSUME NEW r \in Pos(t) PROVE ReadOrQueued(f, r)
      BY <3>1 DEF Progress
    <3>3. f.rows = e.rows /\ f.batch = t.batch /\ f.queue = t.queue /\ f.dead = t.dead
      BY <2>12, <2>13 DEF MapFields, SameJob
    <3>4. CASE r = s
      <4>1. f.rows[s] = row /\ s = ownerOf(f, s)
        BY <1>1, <2>3, <2>9, <3>1, <3>3
      <4> QED
        BY <2>7, <3>4, <4>1 DEF ReadOrQueued, isDelta
    <3>5. CASE r # s
      <4>1. ReadOrQueued(c, r) /\ f.rows[r] = c.rows[r]
        BY <2>3, <2>5, <2>9, <3>3, <3>5
      <4> QED
        BY <2>5, <3>1, <3>3, <4>1 DEF ReadOrQueued
    <3> QED
      BY <3>4, <3>5
  <2>16. u = f
    <3>1. u = [t EXCEPT !.dedup[pos] = s, !.owner[oidAt(t, s)] = s, !.rows[s] = row]
      BY <1>1, <1>3, <1>5, <2>4 DEF canonicalizeToFull
    <3>2. PICK mm, oo, rr : /\ mm = [t.dedup EXCEPT ![pos] = s] /\ oo = [t.owner EXCEPT ![oidAt(t, s)] = s]
                            /\ rr = [t.rows EXCEPT ![s] = row]
      OBVIOUS
    <3>3. u = [t EXCEPT !.dedup = mm, !.owner = oo, !.rows = rr]
      BY <1>1, <3>1, <3>2 DEF Fields
    <3>4. c = [t EXCEPT !.owner = oo]
      BY <2>1, <3>2
    <3>5. e = [c EXCEPT !.rows = rr]
      BY <2>4, <2>5, <3>2
    <3>6. f = [e EXCEPT !.dedup = mm]
      <4>1. e.dedup = t.dedup
        BY <2>5, <2>6 DEF RowFields
      <4> QED
        BY <2>11, <3>2, <4>1
    <3> QED
      BY <1>1, <3>3, <3>4, <3>5, <3>6 DEF Fields
  <2>17. SameJob(t, f) /\ f.phase = t.phase
    BY <2>12, <2>13 DEF MapFields, SameJob
  <2> QED
    BY <2>14, <2>15, <2>16, <2>17 DEF Settled
<1> QED
  BY <1>4, <1>5

\* redirectToOwner
LEMMA RedirectKeeps ==
  ASSUME NEW t, NEW s, Fresh(t, s), NEW w, w = ownerOf(t, s), w \notin {NoPos, s},
         NEW u, u = redirectToOwner(t, s, w)
  PROVE  Settled(t, u)
<1>1. /\ Table(t) /\ TableType(t) /\ DOMAIN t = Fields /\ s \in Pos(t) /\ added(t, s)
      /\ oidAt(t, s) \in Oid /\ NoPos \notin Pos(t)
      /\ t.rows[s] \in Row(Pos(t)) /\ t.rows[s].pos \in Pos(t) /\ oidAt(t, t.rows[s].pos) = oidAt(t, s)
      /\ \A r \in Pos(t) \ {s} : ReadOrQueued(t, r)
  BY FreshFacts
<1>2. w \in Pos(t) /\ added(t, w) /\ oidAt(t, w) = oidAt(t, s)
  BY <1>1 DEF ownerOf, Table, TableType, Owned
<1>3. t.rows \in [Pos(t) -> Row(Pos(t))] /\ t.rows[w] \in Row(Pos(t))
  BY <1>1, <1>2 DEF TableType
<1>4. PICK row, up : /\ row = [t.rows[w] EXCEPT !.pos = t.rows[s].pos, !.kind = "full", !.base = NoPos]
                     /\ up = [t EXCEPT !.rows[w] = row]
  OBVIOUS
<1>5. RowFields(t, w, row, up)
  BY <1>1, <1>4, SetRowFields
<1>6. PICK v : v = IF upgradesOwner(t, s, w) THEN up ELSE t
  OBVIOUS
<1>7. /\ Table(v) /\ SameJob(t, v) /\ v.phase = t.phase /\ v.queue = t.queue
      /\ v.owner = t.owner /\ v.dead = t.dead /\ v.dedup = t.dedup
      /\ \A r \in Pos(t) : added(v, r) <=> added(t, r)
      /\ \A r \in Pos(t) \ {s} : ReadOrQueued(v, r)
      /\ v.rows[s] = t.rows[s]
  <2>1. CASE ~upgradesOwner(t, s, w)
    <3>1. v = t
      BY <1>6, <2>1
    <3> QED
      BY <1>1, <3>1 DEF SameJob
  <2>2. CASE upgradesOwner(t, s, w)
    <3>1. v = up
      BY <1>6, <2>2
    <3>2. /\ row \in Row(Pos(t)) /\ row.pos = t.rows[s].pos /\ row.kind = "full" /\ row.base = NoPos
          /\ row.pinned = t.rows[w].pinned
      BY <1>1, <1>3, <1>4 DEF Row
    <3>3. \A r \in Pos(t) : v.rows[r] = IF r = w THEN row ELSE t.rows[r]
      BY <1>3, <1>5, <3>1 DEF RowFields
    <3>4. SameLinks(t, v) /\ v.rows = [t.rows EXCEPT ![w] = row]
      BY <1>1, <1>5, <3>1, RowLinks DEF RowFields
    <3>5. EdgeRight(v, w)
      BY <1>2, <3>2, <3>3 DEF EdgeRight, isDelta
    <3>6. EntryAt(t.packs, row.pos).oid = oidAt(t, w)
      BY <1>1, <1>2, <3>2 DEF oidAt
    <3>7. Table(v) /\ \A r \in Pos(t) : added(v, r) <=> added(t, r)
      BY <1>1, <1>2, <3>2, <3>4, <3>5, <3>6, RowKeeps
    <3>8. /\ SameJob(t, v) /\ v.phase = t.phase /\ v.queue = t.queue /\ v.owner = t.owner /\ v.dead = t.dead
          /\ v.dedup = t.dedup
      BY <1>5, <3>1 DEF RowFields
    <3>9. ASSUME NEW r \in Pos(t) \ {s} PROVE ReadOrQueued(v, r)
      <4>1. ReadOrQueued(t, r) /\ v.packs = t.packs /\ v.batch = t.batch
        BY <1>1, <3>8 DEF SameJob
      <4>2. CASE r = w
        <5>1. v.rows[r] = row /\ r = ownerOf(v, r)
          BY <1>2, <3>3, <3>8, <4>1, <4>2 DEF ownerOf, oidAt
        <5> QED
          BY <3>2, <5>1 DEF ReadOrQueued, isDelta
      <4>3. CASE r # w
        <5>1. v.rows[r] = t.rows[r]
          BY <3>3, <4>3
        <5> QED
          BY <3>8, <4>1, <5>1, ProgressStays
      <4> QED
        BY <4>2, <4>3
    <3>10. v.rows[s] = t.rows[s]
      BY <1>1, <3>3
    <3> QED
      BY <3>7, <3>8, <3>9, <3>10
  <2> QED
    BY <2>1, <2>2
<1>8. v.packs = t.packs /\ v.batch = t.batch /\ Pos(v) = Pos(t) /\ DOMAIN v = Fields /\ ownerOf(v, s) = w
  BY <1>1, <1>7 DEF SameJob, Pos, ownerOf, oidAt
<1>9. PICK d : d = setDead(v, s, w)
  OBVIOUS
<1>10. DeadFields(v, s, w, d)
  BY <1>8, <1>9, SetDeadFields
<1>11. Table(d)
  <2>1. added(v, s) /\ w # NoPos /\ w # s /\ s \in Pos(v)
    BY <1>1, <1>7, <1>8
  <2> QED
    BY <1>7, <1>8, <1>10, <2>1, SetDeadKeeps
<1>12. PICK e : e = [d EXCEPT !.dedup[t.rows[s].pos] = w]
  OBVIOUS
<1>13. MapFields(d, t.rows[s].pos, w, e)
  <2>1. DOMAIN d = Fields
    BY <1>10 DEF DeadFields, SameJob
  <2> QED
    BY <1>12, <2>1, SetDedupFields
<1>14. u = e
  BY <1>4, <1>6, <1>9, <1>12 DEF redirectToOwner
<1>15. /\ d.rows = v.rows /\ d.packs = t.packs /\ Pos(d) = Pos(t) /\ d.batch = t.batch /\ d.queue = t.queue
       /\ d.owner = t.owner /\ d.needed = t.needed /\ d.retained = t.retained /\ d.phase = t.phase
       /\ d.dead = [t.dead EXCEPT ![s] = w]
  BY <1>7, <1>8, <1>10 DEF DeadFields, SameJob, Pos
<1>16. Table(e)
  <2>1. added(d, w) /\ oidAt(d, w) = oidAt(d, t.rows[s].pos)
    BY <1>1, <1>2, <1>7, <1>15 DEF added, oidAt
  <2> QED
    BY <1>1, <1>2, <1>11, <1>13, <1>15, <2>1, DedupKeeps DEF MapFields, SameJob
<1>17. \A r \in Pos(t) : e.dead[r] = IF r = s THEN w ELSE t.dead[r]
  BY <1>1, <1>13, <1>15 DEF MapFields, TableType
<1>18. /\ e.rows = v.rows /\ e.packs = t.packs /\ Pos(e) = Pos(t) /\ e.batch = t.batch /\ e.queue = t.queue
       /\ e.owner = t.owner
  BY <1>13, <1>15 DEF MapFields, SameJob, Pos
<1>19. Progress(e, {})
  <2>1. SUFFICES ASSUME NEW r \in Pos(t) PROVE ReadOrQueued(e, r)
    BY <1>18 DEF Progress
  <2>2. CASE r = s
    <3>1. e.dead[r] # NoPos /\ e.rows[r] = t.rows[s] /\ t.rows[s].kind # "new"
      BY <1>1, <1>7, <1>17, <1>18, <2>2 DEF Fresh, kindOf
    <3> QED
      BY <3>1 DEF ReadOrQueued
  <2>3. CASE r # s
    <3>1. ReadOrQueued(v, r) /\ e.dead[r] = v.dead[r] /\ e.rows[r] = v.rows[r] /\ ownerOf(e, r) = ownerOf(v, r)
      BY <1>7, <1>8, <1>17, <1>18, <2>3 DEF ownerOf, oidAt
    <3> QED
      BY <1>7, <1>8, <1>18, <3>1 DEF ReadOrQueued
  <2> QED
    BY <2>2, <2>3
<1>20. SameJob(t, e) /\ e.phase = t.phase
  BY <1>13, <1>15 DEF MapFields, SameJob
<1> QED
  BY <1>14, <1>16, <1>19, <1>20 DEF Settled

\* takesOver: s becomes the owner, and the owner it had a dead row.
LEMMA TakeoverWorks ==
  ASSUME NEW t, NEW s, Fresh(t, s), NEW w, w = ownerOf(t, s), w \notin {NoPos, s}, takesOver(t, s, w),
         NEW u, u = setDead(removeDead(claim(t, s), s), w, s)
  PROVE  /\ Working(u, s) /\ SameJob(t, u) /\ u.phase = t.phase
<1>1. /\ Table(t) /\ TableType(t) /\ DOMAIN t = Fields /\ s \in Pos(t) /\ added(t, s)
      /\ oidOf(t, s) = oidAt(t, s) /\ oidAt(t, s) \in Oid /\ NoPos \notin Pos(t)
      /\ \A r \in Pos(t) \ {s} : ReadOrQueued(t, r)
      /\ \A r \in Pos(t) : oidAt(t, r) \in Oid
  BY FreshFacts
<1>2. w \in Pos(t) /\ added(t, w) /\ oidAt(t, w) = oidAt(t, s) /\ t.dead[w] = NoPos
  BY <1>1 DEF ownerOf, Table, TableType, Owned
<1>3. t.dead \in [Pos(t) -> Pos(t) \cup {NoPos}]
  BY <1>1 DEF TableType
<1>4. PICK oo, d0, dd, ii, nn : /\ oo = [t.owner EXCEPT ![oidAt(t, s)] = s] /\ d0 = [t.dead EXCEPT ![s] = NoPos]
                                /\ dd = [d0 EXCEPT ![w] = s]
                                /\ ii = [t.since EXCEPT ![w] = t.deaths + 1] /\ nn = t.deaths + 1
  OBVIOUS
<1>5. PICK c, v : c = claim(t, s) /\ v = removeDead(c, s)
  OBVIOUS
<1>6. c = [t EXCEPT !.owner = oo]
  BY <1>1, <1>4, <1>5 DEF claim
<1>7. v = [c EXCEPT !.dead = d0]
  <2>1. c.dead = t.dead
    BY <1>1, <1>6 DEF Fields
  <2> QED
    BY <1>4, <1>5, <2>1 DEF removeDead
<1>8. v = [t EXCEPT !.owner = oo, !.dead = d0]
  BY <1>1, <1>6, <1>7 DEF Fields
<1>9. v.dead = d0 /\ v.since = t.since /\ v.deaths = t.deaths
  BY <1>1, <1>8 DEF Fields
<1>10. v.dead[w] = NoPos
  BY <1>2, <1>3, <1>4, <1>9
<1>11. u = [v EXCEPT !.dead = dd, !.since = ii, !.deaths = nn]
  BY <1>4, <1>5, <1>9, <1>10 DEF setDead
<1>12. u = [t EXCEPT !.owner = oo, !.dead = dd, !.since = ii, !.deaths = nn]
  BY <1>1, <1>8, <1>11 DEF Fields
<1>13. /\ DOMAIN u = Fields /\ u.packs = t.packs /\ u.needed = t.needed /\ u.rows = t.rows /\ u.dedup = t.dedup
       /\ u.batch = t.batch /\ u.queue = t.queue /\ u.retained = t.retained /\ u.phase = t.phase
       /\ u.owner = oo /\ u.dead = dd /\ u.since = ii /\ u.deaths = nn
  BY <1>1, <1>12 DEF Fields
<1>14. dd = [t.dead EXCEPT ![s] = NoPos, ![w] = s]
  BY <1>4
<1>15. t.rows[s].pinned /\ ~t.rows[w].pinned /\ isDelta(t.rows[s])
  BY DEF takesOver
<1>16. Table(u)
  <2>1. w # NoPos /\ w # s
    OBVIOUS
  <2> QED
    BY <1>1, <1>4, <1>13, <1>14, <1>15, <2>1, TakeoverKeeps
<1>17. SameJob(t, u)
  BY <1>13 DEF SameJob
<1>18. \A r \in Pos(t) : u.dead[r] = IF r = w THEN s ELSE IF r = s THEN NoPos ELSE t.dead[r]
  BY <1>1, <1>2, <1>3, <1>4, <1>13
<1>19. \A r \in Pos(t) : ownerOf(u, r) = IF oidAt(t, r) = oidAt(t, s) THEN s ELSE ownerOf(t, r)
  <2>1. \A oid \in Oid : u.owner[oid] = IF oid = oidAt(t, s) THEN s ELSE t.owner[oid]
    BY <1>1, <1>4, <1>13 DEF TableType
  <2>2. \A r : oidAt(u, r) = oidAt(t, r)
    BY <1>13 DEF oidAt
  <2> QED
    BY <1>1, <2>1, <2>2 DEF ownerOf
<1>20. Pos(u) = Pos(t) /\ header(u, s) = header(t, s) /\ ownerOf(u, s) = s
  BY <1>1, <1>13, <1>19 DEF Pos, header
<1>21. ASSUME NEW r \in Pos(t) \ {s} PROVE ReadOrQueued(u, r)
  <2>1. ReadOrQueued(t, r)
    BY <1>1
  <2>2. CASE r = w
    <3>1. u.dead[r] # NoPos
      BY <1>1, <1>2, <1>18, <2>2
    <3> QED
      BY <1>13, <2>1, <3>1 DEF ReadOrQueued
  <2>3. CASE r # w
    <3>1. r = ownerOf(t, r) => r = ownerOf(u, r)
      <4>1. SUFFICES ASSUME r = ownerOf(t, r) PROVE oidAt(t, r) # oidAt(t, s)
        BY <1>19
      <4> QED
        BY <2>3, <4>1 DEF ownerOf
    <3> QED
      BY <1>13, <1>18, <2>1, <2>3, <3>1 DEF ReadOrQueued
  <2> QED
    BY <2>2, <2>3
<1>22. Working(u, s)
  BY <1>1, <1>13, <1>16, <1>20, <1>21 DEF Working, Fresh, Progress
<1> QED
  BY <1>13, <1>17, <1>22

\* What a claim or a takeover leaves to be done.
LEMMA WorkingSettles ==
  ASSUME NEW t, NEW v, SameJob(t, v), v.phase = t.phase, NEW s, Working(v, s),
         NEW u, u = resolveDeltaBaseFromHeader(v, s)
  PROVE  Settled(t, u)
<1>1. Done(v, s, u)
  BY ResolveBaseKeeps
<1> QED
  BY <1>1 DEF Done, Settled, SameJob

\* readHeaderAndResolveBase, of a row that is not yet read.
LEMMA FreshSettles ==
  ASSUME NEW t, NEW s, Fresh(t, s), NEW owner, owner = ownerOf(t, s), NEW full, full = wholeDuplicates(t, s),
         NEW u, u = IF owner = s THEN resolveDeltaBaseFromHeader(t, s)
                    ELSE IF owner # NoPos
                    THEN IF takesOver(t, s, owner)
                         THEN resolveDeltaBaseFromHeader(setDead(removeDead(claim(t, s), s), owner, s), s)
                         ELSE redirectToOwner(t, s, owner)
                    ELSE IF ~t.rows[s].pinned /\ isDelta(t.rows[s]) /\ full # {}
                         THEN canonicalizeToFull(t, s, First(full))
                         ELSE resolveDeltaBaseFromHeader(claim(t, s), s)
  PROVE  Settled(t, u)
<1>1. /\ Table(t) /\ TableType(t) /\ DOMAIN t = Fields /\ s \in Pos(t) /\ added(t, s)
      /\ oidOf(t, s) = oidAt(t, s) /\ oidAt(t, s) \in Oid /\ NoPos \notin Pos(t) /\ s # NoPos
      /\ \A r \in Pos(t) \ {s} : ReadOrQueued(t, r)
  BY FreshFacts
<1>2. SameJob(t, t)
  BY <1>1 DEF SameJob
<1>3. CASE owner = s
  <2>1. Working(t, s)
    BY <1>3 DEF Fresh, Working
  <2> QED
    BY <1>2, <1>3, <2>1, WorkingSettles
<1>4. CASE owner \notin {NoPos, s} /\ takesOver(t, s, owner)
  <2>1. PICK v : v = setDead(removeDead(claim(t, s), s), owner, s)
    OBVIOUS
  <2>2. Working(v, s) /\ SameJob(t, v) /\ v.phase = t.phase
    BY <1>4, <2>1, TakeoverWorks
  <2>3. u = resolveDeltaBaseFromHeader(v, s)
    BY <1>4, <2>1
  <2> QED
    BY <2>2, <2>3, WorkingSettles
<1>5. CASE owner \notin {NoPos, s} /\ ~takesOver(t, s, owner)
  <2>1. u = redirectToOwner(t, s, owner)
    BY <1>5
  <2> QED
    BY <1>5, <2>1, RedirectKeeps
<1>6. CASE owner = NoPos /\ ~t.rows[s].pinned /\ isDelta(t.rows[s]) /\ full # {}
  <2>1. u = canonicalizeToFull(t, s, First(full))
    BY <1>1, <1>6
  <2>2. full \subseteq Nat \X Nat
    BY <1>1, PositionParts DEF wholeDuplicates, collectPackedObjectCandidates, TableType, Snapshot
  <2>3. First(full) \in full
    BY <1>6, <2>2, FirstIn
  <2> QED
    BY <1>6, <2>1, <2>3, CanonicalizeKeeps
<1>7. CASE owner = NoPos /\ ~(~t.rows[s].pinned /\ isDelta(t.rows[s]) /\ full # {})
  <2>1. PICK v : v = claim(t, s)
    OBVIOUS
  <2>2. ClaimFields(t, oidAt(t, s), s, v)
    BY <1>1, <2>1, SetOwnerFields DEF claim
  <2>3. /\ Table(v) /\ SameJob(t, v) /\ v.phase = t.phase /\ Pos(v) = Pos(t) /\ ownerOf(v, s) = s
        /\ \A r \in Pos(t) \ {s} : ReadOrQueued(v, r)
    <3>1. ownerOf(t, s) = NoPos
      BY <1>7
    <3> QED
      BY <1>1, <2>2, <3>1, ClaimSettles
  <2>4. v.rows = t.rows /\ header(v, s) = header(t, s)
    BY <2>2 DEF ClaimFields, SameJob, header
  <2>5. Working(v, s)
    BY <1>1, <2>3, <2>4 DEF Fresh, Working, Progress
  <2>6. u = resolveDeltaBaseFromHeader(v, s)
    BY <1>1, <1>7, <2>1
  <2> QED
    BY <2>3, <2>5, <2>6, WorkingSettles
<1> QED
  BY <1>3, <1>4, <1>5, <1>6, <1>7

\* readHeaderAndResolveBase
LEMMA ReadHeaderKeeps ==
  ASSUME NEW t, Table(t), NEW s \in Pos(t), Progress(t, {s}), t.rows[s].kind # "new" => ReadOrQueued(t, s),
         NEW u, u = readHeaderAndResolveBase(t, s)
  PROVE  Settled(t, u)
<1>1. TableType(t) /\ DOMAIN t = Fields /\ t.rows \in [Pos(t) -> Row(Pos(t))]
  BY DEF Table, TableType
<1>2. CASE t.rows[s].kind # "new"
  <2>1. u = t
    BY <1>2 DEF readHeaderAndResolveBase
  <2>2. Progress(t, {})
    BY <1>2 DEF Progress
  <2> QED
    BY <1>1, <2>1, <2>2 DEF Settled, SameJob
<1>3. CASE t.rows[s].kind = "new"
  <2>1. PICK row, v : row = [t.rows[s] EXCEPT !.kind = kindOf(header(t, s))] /\ v = [t EXCEPT !.rows[s] = row]
    OBVIOUS
  <2>2. RowFields(t, s, row, v)
    BY <1>1, <2>1, SetRowFields
  <2>3. v = [t EXCEPT !.rows[s].kind = kindOf(header(t, s))]
    BY <2>1
  <2>4. t.rows[s] \in Row(Pos(t)) /\ kindOf(header(t, s)) \in {"full", "ofs", "ref"}
    BY <1>1 DEF kindOf
  <2>5. /\ row \in Row(Pos(t)) /\ row.pos = t.rows[s].pos /\ row.kind = kindOf(header(t, s))
        /\ row.base = t.rows[s].base /\ row.pinned = t.rows[s].pinned
    BY <2>1, <2>4 DEF Row
  <2>6. row.base = NoPos
    BY <1>3, <2>5 DEF Table, Edges, EdgeRight, isDelta
  <2>7. \A r \in Pos(t) : v.rows[r] = IF r = s THEN row ELSE t.rows[r]
    BY <1>1, <2>2 DEF RowFields
  <2>8. SameLinks(t, v) /\ v.rows = [t.rows EXCEPT ![s] = row] /\ v.packs = t.packs
    BY <1>1, <2>2, RowLinks DEF RowFields, SameJob
  <2>9. header(v, s) = header(t, s)
    BY <2>5, <2>7, <2>8 DEF header
  <2>10. EdgeRight(v, s)
    BY <2>5, <2>6, <2>7, <2>9 DEF EdgeRight
  <2>11. Table(v)
    <3>1. added(t, s) /\ row.kind # "none" /\ EntryAt(t.packs, row.pos).oid = oidAt(t, s)
      BY <1>3, <2>4, <2>5 DEF added, Table, Named, oidOf, header
    <3> QED
      BY <2>5, <2>8, <2>10, <3>1, RowKeeps
  <2>12. Pos(v) = Pos(t) /\ v.owner = t.owner /\ v.dead = t.dead /\ v.batch = t.batch /\ v.queue = t.queue
    BY <2>2 DEF RowFields, SameJob, Pos
  <2>13. Progress(v, {s})
    <3>1. SUFFICES ASSUME NEW r \in Pos(t) \ {s} PROVE ReadOrQueued(v, r)
      BY <2>12 DEF Progress
    <3>2. ReadOrQueued(t, r) /\ v.rows[r] = t.rows[r]
      BY <2>7 DEF Progress
    <3> QED
      BY <2>8, <2>12, <3>2, ProgressStays
  <2>14. Fresh(v, s)
    BY <2>5, <2>6, <2>7, <2>9, <2>11, <2>12, <2>13 DEF Fresh
  <2>15. PICK owner, full : owner = v.owner[oidOf(v, s)] /\ full = wholeDuplicates(v, s)
    OBVIOUS
  <2>16. owner = ownerOf(v, s)
    BY <2>14, <2>15, FreshFacts DEF ownerOf
  <2>17. u = IF owner = s THEN resolveDeltaBaseFromHeader(v, s)
             ELSE IF owner # NoPos
             THEN IF takesOver(v, s, owner)
                  THEN resolveDeltaBaseFromHeader(setDead(removeDead(claim(v, s), s), owner, s), s)
                  ELSE redirectToOwner(v, s, owner)
             ELSE IF ~v.rows[s].pinned /\ isDelta(v.rows[s]) /\ full # {}
                  THEN canonicalizeToFull(v, s, First(full))
                  ELSE resolveDeltaBaseFromHeader(claim(v, s), s)
    BY <1>3, <2>3, <2>15 DEF readHeaderAndResolveBase
  <2>18. Settled(v, u)
    BY <2>14, <2>15, <2>16, <2>17, FreshSettles
  <2> QED
    BY <2>2, <2>18 DEF Settled, RowFields, SameJob
<1> QED
  BY <1>2, <1>3

-----------------------------------------------------------------------------
(* Chains of bases and of redirects *)

LEMMA ReachedIn ==
  ASSUME NEW t, NEW s, NEW edge, NEW x \in Rows(t),
         \A S \in SUBSET Rows(t) : {edge[r] : r \in S \cup {s}} \cap Rows(t) \subseteq S => x \in S
  PROVE  x \in reached(t, s, edge)
BY DEF reached, Least

LEMMA ReachedOut ==
  ASSUME NEW t, NEW s, NEW edge, NEW S \in SUBSET Rows(t),
         \A r \in S \cup {s} : edge[r] \in Rows(t) => edge[r] \in S
  PROVE  reached(t, s, edge) \subseteq S
<1>1. {edge[r] : r \in S \cup {s}} \cap Rows(t) \subseteq S
  OBVIOUS
<1> QED
  BY <1>1 DEF reached, Least

LEMMA ReachedType ==
  ASSUME NEW t, NEW s, NEW edge
  PROVE  reached(t, s, edge) \subseteq Rows(t)
BY DEF reached, Least

LEMMA ReachedStep ==
  ASSUME NEW t, NEW s, NEW edge, NEW r, r \in reached(t, s, edge) \cup {s}, edge[r] \in Rows(t)
  PROVE  edge[r] \in reached(t, s, edge)
<1>1. SUFFICES ASSUME NEW S \in SUBSET Rows(t), {edge[q] : q \in S \cup {s}} \cap Rows(t) \subseteq S
               PROVE  edge[r] \in S
  BY ReachedIn
<1>2. reached(t, s, edge) \subseteq S
  BY <1>1 DEF reached, Least
<1> QED
  BY <1>1, <1>2

\* Fewer edges reach less.
LEMMA ReachedFewer ==
  ASSUME NEW t, NEW u, Rows(u) = Rows(t), NEW s \in Rows(t), NEW e1, NEW e2,
         \A r \in Rows(t) : e1[r] \in Rows(t) => e1[r] = e2[r]
  PROVE  reached(u, s, e1) \subseteq reached(t, s, e2)
<1>1. PICK S : S = reached(t, s, e2)
  OBVIOUS
<1>2. S \in SUBSET Rows(u)
  BY <1>1, ReachedType
<1>3. \A r \in S \cup {s} : e1[r] \in Rows(u) => e1[r] \in S
  <2>1. SUFFICES ASSUME NEW r \in S \cup {s}, e1[r] \in Rows(u) PROVE e1[r] \in S
    OBVIOUS
  <2>2. e1[r] = e2[r] /\ e2[r] \in Rows(t)
    BY <1>2, <2>1
  <2>3. r \in reached(t, s, e2) \cup {s}
    BY <1>1
  <2> QED
    BY <1>1, <2>2, <2>3, ReachedStep
<1> QED
  BY <1>1, <1>2, <1>3, ReachedOut

\* A dead row's redirects are followed to its owner.
LEMMA DeadFacts ==
  ASSUME NEW t, Table(t), NEW s \in Dead(t)
  PROVE  /\ s \in Pos(t) /\ s \in Rows(t) /\ Rows(t) = Pos(t) /\ NoPos \notin Pos(t)
         /\ ownerOf(t, s) \in Pos(t) /\ ownerOf(t, s) \notin Dead(t) /\ oidAt(t, ownerOf(t, s)) = oidAt(t, s)
         /\ added(t, ownerOf(t, s)) /\ t.dead[s] \in Pos(t)
         /\ Redirected(t, s) /\ ownerOf(t, ownerOf(t, s)) = ownerOf(t, s)
<1>1. TableType(t) /\ Rows(t) = Pos(t)
  BY DEF Table, TableType, Rows
<1>2. s \in Pos(t) /\ t.dead[s] # NoPos
  BY <1>1 DEF Dead
<1>3. oidAt(t, s) \in Oid /\ NoPos \notin Pos(t)
  BY <1>1, <1>2, OidAtType
<1>4. Redirected(t, s)
  BY DEF Table, Redirects
<1>5. ownerOf(t, s) # NoPos
  BY <1>4 DEF Redirected
<1>6. ownerOf(t, s) \in Pos(t) /\ t.dead[s] \in Pos(t)
  BY <1>1, <1>2, <1>3, <1>5 DEF TableType, ownerOf
<1>7. added(t, ownerOf(t, s)) /\ oidAt(t, ownerOf(t, s)) = oidAt(t, s) /\ t.dead[ownerOf(t, s)] = NoPos
  BY <1>3, <1>5 DEF Table, Owned, ownerOf
<1>8. ownerOf(t, s) \notin Dead(t)
  BY <1>7 DEF Dead
<1> QED
  BY <1>1, <1>2, <1>3, <1>4, <1>6, <1>7, <1>8 DEF ownerOf

LEMMA ResolveIsOwner ==
  ASSUME NEW t, Table(t), NEW D, D \subseteq Dead(t), NEW s \in D,
         t.dead[s] = ownerOf(t, s) \/ t.dead[s] \in D
  PROVE  resolveDeadSlotRedirect(t, D, s) = ownerOf(t, s)
<1>1. PICK edge : edge = [q \in Rows(t) |-> IF q \in D THEN t.dead[q] ELSE NoPos]
  OBVIOUS
<1>2. PICK w, x, R : w = ownerOf(t, s) /\ x = t.dead[s] /\ R = reached(t, s, edge)
  OBVIOUS
<1>3. /\ s \in Rows(t) /\ NoPos \notin Rows(t) /\ w \in Rows(t) /\ w \notin D /\ x \in Rows(t)
      /\ Redirected(t, s)
  BY <1>2, DeadFacts
<1>4. x = w \/ (x \in D /\ t.dead[x] = w)
  BY <1>2, <1>3 DEF Redirected
<1>5. edge[s] = x /\ edge[w] = NoPos /\ (x # w => edge[x] = w)
  BY <1>1, <1>2, <1>3, <1>4
<1>6. R \subseteq {x, w}
  <2>1. {x, w} \in SUBSET Rows(t)
    BY <1>3
  <2>2. \A r \in {x, w} \cup {s} : edge[r] \in Rows(t) => edge[r] \in {x, w}
    BY <1>3, <1>5
  <2> QED
    BY <1>2, <2>1, <2>2, ReachedOut
<1>7. w \in R
  <2>1. x \in R
    BY <1>2, <1>3, <1>5, ReachedStep
  <2>2. x # w => edge[x] \in R
    BY <1>2, <1>3, <1>5, <2>1, ReachedStep
  <2> QED
    BY <1>5, <2>1, <2>2
<1>8. \A r \in R : r \notin D => r = w
  BY <1>4, <1>6
<1>9. (CHOOSE r \in R : r \notin D) = w
  BY <1>3, <1>7, <1>8
<1>10. resolveDeadSlotRedirect(t, D, s) = CHOOSE r \in R : r \notin D
  BY <1>1, <1>2 DEF resolveDeadSlotRedirect
<1> QED
  BY <1>2, <1>9, <1>10

\* Among all dead rows, redirects always end at the owner.
LEMMA ResolveAll ==
  ASSUME NEW t, Table(t), NEW s \in Pos(t)
  PROVE  resolveDeadSlotRedirect(t, Dead(t), s) = IF s \in Dead(t) THEN ownerOf(t, s) ELSE s
<1>1. CASE s \in Dead(t)
  <2>1. t.dead[s] = ownerOf(t, s) \/ t.dead[s] \in Dead(t)
    <3>1. SUFFICES ASSUME t.dead[s] # ownerOf(t, s) PROVE t.dead[s] \in Dead(t)
      OBVIOUS
    <3>2. Redirected(t, s) /\ t.dead[s] \in Rows(t) /\ ownerOf(t, s) # NoPos
      BY <1>1, DeadFacts
    <3>3. t.dead[t.dead[s]] = ownerOf(t, s)
      BY <3>1, <3>2 DEF Redirected
    <3> QED
      BY <3>2, <3>3 DEF Dead
  <2> QED
    BY <1>1, <2>1, ResolveIsOwner
<1>2. CASE s \notin Dead(t)
  BY <1>2 DEF resolveDeadSlotRedirect
<1> QED
  BY <1>1, <1>2

LEMMA UnsafeIsBad ==
  ASSUME NEW t, Table(t), NEW D, D \subseteq Dead(t), NEW s \in D,
         t.dead[s] = ownerOf(t, s) \/ t.dead[s] \in D
  PROVE  unsafe(t, D, s) <=> bad(t, s)
<1>1. resolveDeadSlotRedirect(t, D, s) = ownerOf(t, s)
  BY ResolveIsOwner
<1>2. ownerOf(t, s) # s
  BY DeadFacts
<1> QED
  BY <1>1, <1>2 DEF unsafe, bad

LEMMA BadSame ==
  ASSUME NEW t, NEW u, u.rows = t.rows, u.owner = t.owner, u.packs = t.packs
  PROVE  \A s : bad(u, s) <=> bad(t, s)
<1>1. TAKE s
<1>2. ownerOf(u, s) = ownerOf(t, s) /\ baseOf(u) = baseOf(t) /\ Rows(u) = Rows(t)
  BY DEF ownerOf, oidAt, baseOf, Rows
<1>3. \A r, e : reached(u, r, e) = reached(t, r, e)
  BY <1>2 DEF reached, Least
<1> QED
  BY <1>2, <1>3 DEF bad, selectionDependsOn

-----------------------------------------------------------------------------
(* The steps of a rewrite *)

\* The bases of some rows run in a circle.
Circular(t) == \E circle \in (SUBSET t.live) \ {{}} : \A s \in circle : t.rows[s].base \in circle

RewriteInv(t) ==
    /\ t.phase # "failed" => Table(t) /\ Progress(t, {}) /\ PhaseInv(t)
    /\ t.phase = "failed" => Circular(t)

\* A step of a rewrite is one of the same job, and keeps the invariant.
Continues(t, u) ==
    /\ u.phase # "failed" => Table(u) /\ Progress(u, {}) /\ PhaseInv(u) /\ u.needed = t.needed
    /\ u.phase = "failed" => Circular(u)

LEMMA NotFailed ==
  ASSUME NEW t, PhaseInv(t)
  PROVE  t.phase # "failed"
BY DEF PhaseInv

LEMMA FirstRowIn ==
  ASSUME NEW t, TableType(t), NEW S, S \subseteq Pos(t), S # {}
  PROVE  firstRow(t, S) \in S
<1> DEFINE at == [s \in S |-> t.rows[s].pos]
<1>1. \A s \in S : at[s] \in Nat \X Nat
  <2>1. TAKE s \in S
  <2>2. t.rows[s].pos \in Pos(t) /\ t.packs \in Seq(Seq(Entry))
    BY OidAtType DEF TableType, Snapshot
  <2> QED
    BY <2>2, PositionParts DEF Pos
<1> HIDE DEF at
<1>2. PICK s \in S : \A r \in S : ~Before(at[r], at[s])
  BY <1>1, FirstBy
<1>3. \A r \in S \ {s} : ~Before(t.rows[r].pos, t.rows[s].pos)
  BY <1>2 DEF at
<1> QED
  BY <1>3 DEF firstRow

\* What follows from the same rows and links.
Reframes(t, u) ==
    /\ Table(u) /\ Progress(u, {}) /\ Pos(u) = Pos(t) /\ Dead(u) = Dead(t) /\ u.needed = t.needed
    /\ \A s : (bad(u, s) <=> bad(t, s)) /\ ownerOf(u, s) = ownerOf(t, s)

LEMMA Reframed ==
  ASSUME NEW t, Table(t), Progress(t, {}), NEW u, SameLinks(t, u), u.rows = t.rows,
         u.batch \cup u.queue = t.batch \cup t.queue
  PROVE  Reframes(t, u)
<1>1. u.packs = t.packs /\ u.owner = t.owner /\ u.dead = t.dead /\ Pos(u) = Pos(t) /\ Dead(u) = Dead(t)
  BY DEF SameLinks, Pos, Dead, Rows
<1>2. Table(u)
  BY TableStays
<1>3. \A s : ownerOf(u, s) = ownerOf(t, s)
  BY <1>1 DEF ownerOf, oidAt
<1>4. Progress(u, {})
  BY <1>1, <1>3 DEF Progress, ReadOrQueued
<1> QED
  BY <1>1, <1>2, <1>3, <1>4, BadSame DEF Reframes, SameLinks

\* processHeader
LEMMA ProcessHeaderKeeps ==
  ASSUME RewriteInv(rewrite), processHeader
  PROVE  Continues(rewrite, rewrite')
<1>1. PICK t, u : t = rewrite /\ u = rewrite'
  OBVIOUS
<1>2. PICK s : s = firstRow(t, t.batch)
  OBVIOUS
<1>3. PICK v : v = [t EXCEPT !.batch = t.batch \ {s}]
  OBVIOUS
<1>4. t.phase = "headers" /\ t.batch # {} /\ u = readHeaderAndResolveBase(v, s)
  BY <1>1, <1>2, <1>3 DEF processHeader
<1>5. Table(t) /\ Progress(t, {}) /\ PhaseInv(t)
  BY <1>1, <1>4 DEF RewriteInv
<1>6. DOMAIN t = Fields /\ t.batch \subseteq Pos(t) /\ t.queue \subseteq Pos(t) /\ TableType(t)
  BY <1>5 DEF Table, TableType
<1>7. s \in t.batch /\ s \in Pos(t)
  BY <1>2, <1>4, <1>6, FirstRowIn
<1>8. SameLinks(t, v) /\ v.rows = t.rows /\ v.batch = t.batch \ {s} /\ v.queue = t.queue /\ v.phase = t.phase
      /\ v.packs = t.packs /\ v.owner = t.owner /\ v.dead = t.dead
  BY <1>3, <1>6 DEF SameLinks, Fields
<1>9. Table(v) /\ Pos(v) = Pos(t)
  BY <1>5, <1>8, TableStays DEF Pos
<1>10. \A r \in Pos(t) : r # s \/ t.rows[r].kind # "new" => ReadOrQueued(v, r)
  BY <1>5, <1>8 DEF Progress, ReadOrQueued, ownerOf, oidAt
<1>11. Progress(v, {s})
  BY <1>9, <1>10 DEF Progress
<1>12. v.rows[s].kind # "new" => ReadOrQueued(v, s)
  BY <1>7, <1>8, <1>10
<1>13. Settled(v, u)
  BY <1>4, <1>7, <1>9, <1>11, <1>12, ReadHeaderKeeps
<1>14. Table(u) /\ Progress(u, {}) /\ u.phase = "headers" /\ u.needed = t.needed
  BY <1>4, <1>8, <1>13 DEF Settled, SameJob, SameLinks
<1>15. PhaseInv(u)
  BY <1>14 DEF PhaseInv
<1> QED
  BY <1>1, <1>14, <1>15 DEF Continues

\* beginPrune: a pruning begins with all dead rows.
LEMMA BeginPruneKeeps ==
  ASSUME NEW t, Table(t), Progress(t, {}), AllRead(t), NEW use \in {"retained", "compact"},
         use = "compact" => \A s \in Dead(t) : ~bad(t, s),
         NEW u, u = beginPrune(t, use)
  PROVE  Continues(t, u)
<1>1. DOMAIN t = Fields /\ t.batch \subseteq Pos(t) /\ t.queue \subseteq Pos(t)
  BY DEF Table, TableType
<1>2. /\ SameLinks(t, u) /\ u.rows = t.rows /\ u.batch = t.batch /\ u.queue = t.queue /\ u.since = t.since
      /\ u.phase = "prune" /\ u.use = use /\ u.safe = Dead(t) /\ u.at = 0
  BY <1>1 DEF beginPrune, SameLinks, Fields
<1>3. Reframes(t, u)
  BY <1>2, Reframed
<1>4. AllRead(u)
  BY <1>2 DEF AllRead
<1>5. use = "retained" => FirstRound(u)
  <2>1. \A s \in Dead(t) : t.since[s] \in Nat /\ t.since[s] > 0
    <3>1. \A s \in Dead(t) : t.since[s] \in 1 .. t.deaths /\ t.deaths \in Nat
      BY DEF Table, Ordered, TableType
    <3> QED
      BY <3>1
  <2>2. \A s \in Dead(t) : ~(u.since[s] <= u.at)
    BY <1>2, <2>1
  <2> QED
    BY <1>2, <1>3, <2>2 DEF FirstRound, Reframes
<1>6. use = "compact" => NoneBad(u)
  BY <1>2, <1>3 DEF NoneBad, Reframes
<1>7. PhaseInv(u)
  BY <1>2, <1>3, <1>4, <1>5, <1>6 DEF PhaseInv, Reframes
<1> QED
  BY <1>3, <1>7, NotFailed DEF Continues, Reframes

\* drainSecondaryQueue
LEMMA DrainSecondaryKeeps ==
  ASSUME RewriteInv(rewrite), drainSecondaryQueue
  PROVE  Continues(rewrite, rewrite')
<1>1. PICK t, u : t = rewrite /\ u = rewrite'
  OBVIOUS
<1>2. /\ t.phase = "headers" /\ t.batch = {}
      /\ u = IF t.queue = {} THEN beginPrune(t, "retained") ELSE [t EXCEPT !.batch = t.queue, !.queue = {}]
  BY <1>1 DEF drainSecondaryQueue
<1>3. Table(t) /\ Progress(t, {}) /\ PhaseInv(t)
  BY <1>1, <1>2 DEF RewriteInv
<1>4. CASE t.queue = {}
  <2>1. u = beginPrune(t, "retained") /\ AllRead(t)
    BY <1>2, <1>4 DEF AllRead
  <2>2. Continues(t, u)
    BY <1>3, <2>1, BeginPruneKeeps
  <2> QED
    BY <1>1, <2>2
<1>5. CASE t.queue # {}
  <2>1. DOMAIN t = Fields /\ t.batch \subseteq Pos(t) /\ t.queue \subseteq Pos(t)
    BY <1>3 DEF Table, TableType
  <2>2. u = [t EXCEPT !.batch = t.queue, !.queue = {}]
    BY <1>2, <1>5
  <2>3. SameLinks(t, u) /\ u.rows = t.rows /\ u.batch = t.queue /\ u.queue = {} /\ u.phase = "headers"
    BY <1>2, <2>1, <2>2 DEF SameLinks, Fields
  <2>4. u.batch \cup u.queue = t.batch \cup t.queue
    BY <1>2, <2>3
  <2>5. Reframes(t, u)
    BY <1>3, <2>3, <2>4, Reframed
  <2>6. Continues(t, u)
    BY <2>3, <2>5, NotFailed DEF Continues, Reframes, PhaseInv
  <2> QED
    BY <1>1, <2>6
<1> QED
  BY <1>4, <1>5

\* The dead row that a pruning takes up next.
LEMMA EarliestIn ==
  ASSUME NEW t, Table(t), NEW left, left \subseteq Dead(t), left # {},
         NEW s, s = CHOOSE r \in left : \A q \in left : t.since[r] <= t.since[q]
  PROVE  s \in left /\ t.since[s] \in Nat /\ \A q \in left : t.since[s] <= t.since[q]
<1> DEFINE years == {t.since[r] : r \in left}
<1>1. \A r \in left : t.since[r] \in Nat
  BY DeadFacts DEF Table, TableType
<1>2. years \in SUBSET Nat /\ years # {}
  BY <1>1
<1>3. PICK n \in years : \A m \in years : n <= m
  BY <1>2, LeastNat
<1>4. PICK r \in left : t.since[r] = n
  BY <1>3
<1>5. \A q \in left : t.since[r] <= t.since[q]
  BY <1>3, <1>4
<1> QED
  BY <1>1, <1>5

\* A turn of a first round: what it goes past is not bad, or goes.
LEMMA FirstRoundGoesOn ==
  ASSUME NEW t, Table(t), t.safe \subseteq Dead(t), FirstRound(t),
         NEW s \in t.safe, t.since[s] > t.at, t.since[s] \in Nat,
         \A q \in t.safe : t.since[q] > t.at => t.since[s] <= t.since[q],
         NEW u, Reframes(t, u), u.since = t.since, u.at = t.since[s],
         u.safe = IF unsafe(t, t.safe, s) THEN t.safe \ {s} ELSE t.safe
  PROVE  FirstRound(u)
<1>1. /\ t.at \in Nat /\ \A r \in Dead(t) : t.since[r] \in Nat
      /\ \A r, q \in Dead(t) : t.since[q] = t.since[r] => q = r
  BY DeadFacts DEF FirstRound, Table, TableType, Ordered
<1>2. t.dead[s] = ownerOf(t, s) \/ t.dead[s] \in t.safe
  <2>1. SUFFICES ASSUME t.dead[s] # ownerOf(t, s) PROVE t.dead[s] \in t.safe
    OBVIOUS
  <2>2. Redirected(t, s) /\ t.dead[s] \in Rows(t) /\ ownerOf(t, s) # NoPos
    BY DeadFacts
  <2>3. t.dead[t.dead[s]] = ownerOf(t, s) /\ t.since[s] < t.since[t.dead[s]]
    BY <2>1, <2>2 DEF Redirected
  <2>4. t.dead[s] \in Dead(t)
    BY <2>2, <2>3 DEF Dead
  <2>5. t.since[t.dead[s]] > t.at
    BY <1>1, <2>3, <2>4
  <2> QED
    BY <2>4, <2>5 DEF FirstRound
<1>3. unsafe(t, t.safe, s) <=> bad(t, s)
  BY <1>2, UnsafeIsBad
<1>4. ASSUME NEW r \in Dead(u), u.since[r] > u.at PROVE r \in u.safe
  <2>1. r \in Dead(t) /\ t.since[r] > t.since[s] /\ r # s
    BY <1>1, <1>4 DEF Reframes
  <2>2. t.since[r] > t.at
    BY <1>1, <2>1
  <2> QED
    BY <2>1, <2>2 DEF FirstRound
<1>5. ASSUME NEW r \in u.safe, u.since[r] <= u.at PROVE ~bad(u, r)
  <2>1. r \in t.safe /\ r \in Dead(t) /\ t.since[r] <= t.since[s]
    BY <1>5
  <2>2. CASE t.since[r] > t.at
    <3>1. t.since[s] <= t.since[r]
      BY <2>1, <2>2
    <3>2. r = s
      BY <1>1, <2>1, <3>1
    <3>3. ~bad(t, r)
      BY <1>3, <1>5, <3>2
    <3> QED
      BY <3>3 DEF Reframes
  <2>3. CASE ~(t.since[r] > t.at)
    <3>1. t.since[r] <= t.at
      BY <1>1, <2>1, <2>3
    <3> QED
      BY <2>1, <3>1 DEF FirstRound, Reframes
  <2> QED
    BY <2>2, <2>3
<1> QED
  BY <1>1, <1>4, <1>5 DEF FirstRound

\* pruneUnsafeDeadSlotRedirects
LEMMA PruneKeeps ==
  ASSUME RewriteInv(rewrite), pruneUnsafeDeadSlotRedirects
  PROVE  Continues(rewrite, rewrite')
<1>1. PICK t, u : t = rewrite /\ u = rewrite'
  OBVIOUS
<1>2. PICK left, s, go : /\ left = {r \in t.safe : t.since[r] > t.at}
                         /\ s = CHOOSE r \in left : \A q \in left : t.since[r] <= t.since[q]
                         /\ go = unsafe(t, t.safe, s)
  OBVIOUS
<1>3. /\ t.phase = "prune"
      /\ u = IF left # {}
             THEN [t EXCEPT !.at = t.since[s], !.changed = @ \/ go, !.safe = IF go THEN @ \ {s} ELSE @]
             ELSE IF t.changed THEN [t EXCEPT !.at = 0, !.changed = FALSE]
             ELSE [t EXCEPT !.phase = t.use]
  BY <1>1, <1>2 DEF pruneUnsafeDeadSlotRedirects
<1>4. Table(t) /\ Progress(t, {}) /\ PhaseInv(t)
  BY <1>1, <1>3 DEF RewriteInv
<1>5. /\ AllRead(t) /\ t.safe \subseteq Dead(t)
      /\ \/ t.use = "retained" /\ (FirstRound(t) \/ Pruned(t))
         \/ t.use = "compact" /\ NoneBad(t)
  BY <1>3, <1>4 DEF PhaseInv
<1>6. DOMAIN t = Fields /\ t.batch \subseteq Pos(t) /\ t.queue \subseteq Pos(t)
  BY <1>4 DEF Table, TableType
<1>7. /\ SameLinks(t, u) /\ u.rows = t.rows /\ u.batch = t.batch /\ u.queue = t.queue /\ u.use = t.use
      /\ u.since = t.since
  BY <1>3, <1>6 DEF SameLinks, Fields
<1>8. Reframes(t, u) /\ AllRead(u)
  BY <1>4, <1>5, <1>7, Reframed DEF AllRead
<1>9. CASE left # {}
  <2>1. u.phase = "prune" /\ u.at = t.since[s] /\ u.safe = IF go THEN t.safe \ {s} ELSE t.safe
    BY <1>3, <1>6, <1>9 DEF Fields
  <2>2. left \subseteq Dead(t)
    BY <1>2, <1>5
  <2>3. s \in left /\ t.since[s] \in Nat /\ \A q \in left : t.since[s] <= t.since[q]
    <3>1. s = CHOOSE r \in left : \A q \in left : t.since[r] <= t.since[q]
      BY <1>2
    <3> QED
      BY <1>4, <1>9, <2>2, <3>1, EarliestIn, Zenon
  <2>4. s \in t.safe /\ t.since[s] > t.at /\ \A q \in t.safe : t.since[q] > t.at => t.since[s] <= t.since[q]
    <3>1. \A r : r \in left <=> r \in t.safe /\ t.since[r] > t.at
      BY <1>2
    <3> QED
      BY <2>3, <3>1
  <2>5. u.safe \subseteq Dead(u)
    BY <1>5, <1>8, <2>1 DEF Reframes
  <2>6. CASE t.use = "retained" /\ FirstRound(t)
    <3>1. FirstRound(u)
      BY <1>2, <1>4, <1>5, <1>7, <1>8, <2>1, <2>3, <2>4, <2>6, FirstRoundGoesOn
    <3>2. PhaseInv(u)
      BY <1>7, <1>8, <2>1, <2>5, <2>6, <3>1 DEF PhaseInv
    <3> QED
      BY <1>1, <1>8, <3>2, NotFailed DEF Reframes, Continues
  <2>7. CASE t.use = "retained" /\ Pruned(t)
    <3>1. Pruned(u)
      BY <1>8, <2>1, <2>7 DEF Pruned, Reframes
    <3>2. PhaseInv(u)
      BY <1>7, <1>8, <2>1, <2>5, <2>7, <3>1 DEF PhaseInv
    <3> QED
      BY <1>1, <1>8, <3>2, NotFailed DEF Reframes, Continues
  <2>8. CASE t.use = "compact" /\ NoneBad(t)
    <3>1. t.safe = Dead(t) /\ s \in Dead(t) /\ ~bad(t, s)
      BY <1>5, <2>4, <2>8 DEF NoneBad
    <3>2. t.dead[s] = ownerOf(t, s) \/ t.dead[s] \in Dead(t)
      BY <1>4, <3>1, DeadFacts DEF Redirected, Dead
    <3>3. unsafe(t, t.safe, s) <=> bad(t, s)
      BY <1>4, <3>1, <3>2, UnsafeIsBad
    <3>4. u.safe = Dead(u)
      BY <1>2, <1>8, <2>1, <3>1, <3>3 DEF Reframes
    <3>5. NoneBad(u)
      BY <1>8, <2>8, <3>4 DEF NoneBad, Reframes
    <3>6. PhaseInv(u)
      BY <1>7, <1>8, <2>1, <2>5, <2>8, <3>5 DEF PhaseInv
    <3> QED
      BY <1>1, <1>8, <3>6, NotFailed DEF Reframes, Continues
  <2> QED
    BY <1>5, <2>6, <2>7, <2>8
<1>10. CASE left = {}
  <2>1. t.use = "retained" => Pruned(t)
    <3>1. ASSUME t.use = "retained", FirstRound(t) PROVE Pruned(t)
      <4>1. SUFFICES ASSUME NEW r \in t.safe PROVE ~bad(t, r)
        BY DEF Pruned
      <4>2. t.since[r] \in Nat /\ t.at \in Nat
        BY <1>4, <1>5, <3>1, DeadFacts DEF FirstRound, Table, TableType
      <4>3. t.since[r] <= t.at
        BY <1>2, <1>10, <4>2
      <4> QED
        BY <3>1, <4>3 DEF FirstRound
    <3> QED
      BY <1>5, <3>1
  <2>2. u.safe = t.safe /\ u.phase = IF t.changed THEN "prune" ELSE t.use
    BY <1>3, <1>6, <1>10 DEF Fields
  <2>3. u.safe \subseteq Dead(u)
    BY <1>5, <1>8, <2>2 DEF Reframes
  <2>4. t.use = "retained" => Pruned(u)
    BY <1>8, <2>1, <2>2 DEF Pruned, Reframes
  <2>5. t.use = "compact" => NoneBad(u)
    BY <1>5, <1>8, <2>2 DEF NoneBad, Reframes
  <2>6. PhaseInv(u)
    BY <1>5, <1>7, <1>8, <2>2, <2>3, <2>4, <2>5 DEF PhaseInv
  <2>7. Continues(t, u)
    BY <1>8, <2>6, NotFailed DEF Reframes, Continues
  <2> QED
    BY <1>1, <2>7
<1> QED
  BY <1>9, <1>10

\* collectRetainedRedirectsNeedingBaseResolution
LEMMA CollectRetainedKeeps ==
  ASSUME RewriteInv(rewrite), collectRetainedRedirects
  PROVE  Continues(rewrite, rewrite')
<1>1. PICK t, u : t = rewrite /\ u = rewrite'
  OBVIOUS
<1>2. PICK retained : retained = retainedRedirects(t)
  OBVIOUS
<1>3. /\ t.phase = "retained"
      /\ u = IF retained = {} THEN [t EXCEPT !.phase = "collapse"]
             ELSE [t EXCEPT !.phase = "repair", !.retained = retained]
  BY <1>1, <1>2 DEF collectRetainedRedirects
<1>4. Table(t) /\ Progress(t, {}) /\ PhaseInv(t)
  BY <1>1, <1>3 DEF RewriteInv
<1>5. AllRead(t) /\ t.safe \subseteq Dead(t) /\ Pruned(t)
  BY <1>3, <1>4 DEF PhaseInv
<1>6. DOMAIN t = Fields /\ t.batch \subseteq Pos(t) /\ t.queue \subseteq Pos(t)
  BY <1>4 DEF Table, TableType
<1>7. SameLinks(t, u) /\ u.rows = t.rows /\ u.batch = t.batch /\ u.queue = t.queue
  BY <1>3, <1>6 DEF SameLinks, Fields
<1>8. Reframes(t, u) /\ AllRead(u)
  BY <1>4, <1>5, <1>7, Reframed DEF AllRead
<1>9. PhaseInv(u)
  <2>1. CASE retained = {}
    <3>1. Curable(t)
      BY <1>2, <1>5, <2>1 DEF Curable, Pruned, retainedRedirects
    <3>2. Curable(u)
      BY <1>7, <1>8, <3>1 DEF Curable, Reframes
    <3>3. u.phase = "collapse"
      BY <1>3, <1>6, <2>1 DEF Fields
    <3> QED
      BY <1>8, <3>2, <3>3 DEF PhaseInv
  <2>2. CASE retained # {}
    <3>1. u.phase = "repair" /\ u.retained = retained
      BY <1>3, <1>6, <2>2 DEF Fields
    <3>2. u.batch = {} /\ \A s \in u.retained : s \in Dead(u) /\ isDelta(u.rows[s])
      BY <1>2, <1>5, <1>7, <1>8, <3>1 DEF AllRead, Reframes, retainedRedirects
    <3> QED
      BY <3>1, <3>2 DEF PhaseInv
  <2> QED
    BY <2>1, <2>2
<1> QED
  BY <1>1, <1>8, <1>9, NotFailed DEF Continues, Reframes

\* resolveRetainedRedirectBase
LEMMA ResolveRetainedKeeps ==
  ASSUME RewriteInv(rewrite), resolveRetainedRedirect
  PROVE  Continues(rewrite, rewrite')
<1>1. PICK t, u : t = rewrite /\ u = rewrite'
  OBVIOUS
<1>2. PICK s, v : s = firstRow(t, t.retained) /\ v = [t EXCEPT !.retained = t.retained \ {s}]
  OBVIOUS
<1>3. /\ t.phase = "repair"
      /\ u = IF t.retained = {} THEN [t EXCEPT !.phase = "headers"]
             ELSE IF v.rows[s].base # NoPos THEN v
             ELSE resolveDeltaBaseFromHeader(v, s)
  BY <1>1, <1>2 DEF resolveRetainedRedirect
<1>4. Table(t) /\ Progress(t, {}) /\ PhaseInv(t)
  BY <1>1, <1>3 DEF RewriteInv
<1>5. t.batch = {} /\ \A r \in t.retained : r \in Dead(t) /\ isDelta(t.rows[r])
  BY <1>3, <1>4 DEF PhaseInv
<1>6. DOMAIN t = Fields /\ t.batch \subseteq Pos(t) /\ t.queue \subseteq Pos(t) /\ TableType(t)
  BY <1>4 DEF Table, TableType
<1>7. CASE t.retained = {}
  <2>1. SameLinks(t, u) /\ u.rows = t.rows /\ u.batch = t.batch /\ u.queue = t.queue /\ u.phase = "headers"
    BY <1>3, <1>6, <1>7 DEF SameLinks, Fields
  <2>2. Reframes(t, u)
    BY <1>4, <2>1, Reframed
  <2>3. PhaseInv(u)
    BY <2>1 DEF PhaseInv
  <2> QED
    BY <1>1, <2>2, <2>3, NotFailed DEF Continues, Reframes
<1>8. CASE t.retained # {}
  <2>1. \A r \in t.retained : r \in Pos(t)
    BY <1>4, <1>5, DeadFacts
  <2>2. s \in t.retained
    BY <1>2, <1>6, <1>8, <2>1, FirstRowIn
  <2>3. /\ SameLinks(t, v) /\ v.rows = t.rows /\ v.batch = t.batch /\ v.queue = t.queue /\ v.phase = "repair"
        /\ v.retained = t.retained \ {s} /\ v.dead = t.dead /\ v.packs = t.packs
    BY <1>2, <1>3, <1>6 DEF SameLinks, Fields
  <2>4. Reframes(t, v)
    BY <1>4, <2>3, Reframed
  <2>5. v.batch = {} /\ \A r \in v.retained : r \in Dead(v) /\ isDelta(v.rows[r])
    BY <1>5, <2>3, <2>4 DEF Reframes
  <2>6. CASE v.rows[s].base # NoPos
    <3>1. u = v
      BY <1>3, <1>8, <2>6
    <3>2. PhaseInv(v)
      BY <2>3, <2>5 DEF PhaseInv
    <3> QED
      BY <1>1, <2>4, <3>1, <3>2, NotFailed DEF Continues, Reframes
  <2>7. CASE v.rows[s].base = NoPos
    <3>1. u = resolveDeltaBaseFromHeader(v, s)
      BY <1>3, <1>8, <2>7
    <3>2. s \in Dead(t) /\ isDelta(t.rows[s]) /\ s \in Pos(t)
      BY <1>5, <2>1, <2>2
    <3>3. Working(v, s)
      <4>1. v.rows[s].kind = kindOf(header(v, s))
        BY <2>3, <2>4, <3>2 DEF Table, Edges, EdgeRight, Reframes
      <4>2. v.dead[s] # NoPos
        BY <2>3, <3>2 DEF Dead
      <4> QED
        BY <2>4, <2>7, <3>2, <4>1, <4>2 DEF Working, Progress, Reframes
    <3>4. Done(v, s, u)
      BY <3>1, <3>3, ResolveBaseKeeps
    <3>5. PhaseInv(u)
      <4>1. /\ Table(u) /\ u.phase = "repair" /\ u.batch = {} /\ u.retained = v.retained /\ u.dead = v.dead
            /\ u.packs = v.packs /\ \A r \in Pos(v) : r # s /\ added(v, r) => u.rows[r].kind = v.rows[r].kind
        BY <2>3, <2>5, <3>4 DEF Done, SameJob
      <4>2. Dead(u) = Dead(v)
        <5>1. Rows(u) = Rows(v)
          BY <2>4, <4>1 DEF Reframes, Table, TableType, Rows, Pos
        <5> QED
          BY <4>1, <5>1 DEF Dead
      <4>3. ASSUME NEW r \in u.retained PROVE r \in Dead(u) /\ isDelta(u.rows[r])
        <5>1. r \in v.retained /\ r # s /\ r \in Pos(v) /\ r \in Dead(v) /\ isDelta(v.rows[r])
          BY <2>1, <2>3, <2>4, <2>5, <4>1, <4>3 DEF Reframes
        <5>2. u.rows[r].kind = v.rows[r].kind
          BY <4>1, <5>1 DEF added, isDelta
        <5> QED
          BY <4>2, <5>1, <5>2 DEF isDelta
      <4> QED
        BY <4>1, <4>3 DEF PhaseInv
    <3> QED
      BY <1>1, <2>3, <3>4, <3>5, NotFailed DEF Continues, Done, SameJob, SameLinks
  <2> QED
    BY <2>6, <2>7
<1> QED
  BY <1>7, <1>8

LEMMA ReachedOn ==
  ASSUME NEW t, NEW s, NEW edge, NEW r, r \in reached(t, s, edge) \cup {s}
  PROVE  reached(t, r, edge) \subseteq reached(t, s, edge)
<1>1. PICK S : S = reached(t, s, edge)
  OBVIOUS
<1>2. S \in SUBSET Rows(t)
  BY <1>1, ReachedType
<1>3. \A q \in S \cup {r} : edge[q] \in Rows(t) => edge[q] \in S
  BY <1>1, ReachedStep
<1> QED
  BY <1>1, <1>2, <1>3, ReachedOut

\* The duplicates of an owner that a base chain may come to.
LEMMA NearestFacts ==
  ASSUME NEW t, Table(t), NEW owner \in Rows(t), NEW d, d = nearestDependency(t, owner)
  PROVE  /\ d # NoPos => /\ d \in Rows(t)
                         /\ resolveDeadSlotRedirect(t, Dead(t), d) = owner
                         /\ d \in reached(t, owner, baseOf(t))
         /\ d = NoPos => \A s \in Rows(t) : resolveDeadSlotRedirect(t, Dead(t), s) = owner
                            => s \notin reached(t, owner, baseOf(t))
<1>1. Rows(t) = Pos(t) /\ NoPos \notin Rows(t)
  BY OidAtType DEF Table, TableType, Rows
<1>2. PICK hits : hits = {s \in Rows(t) : resolveDeadSlotRedirect(t, Dead(t), s) = owner}
  OBVIOUS
<1>3. PICK upTo : upTo = [s \in Rows(t) |-> IF s \in hits \ {owner} THEN NoPos ELSE t.rows[s].base]
  OBVIOUS
<1>4. PICK R, met : R = reached(t, owner, upTo) /\ met = hits \cap R
  OBVIOUS
<1>5. d = IF met = {} THEN NoPos ELSE CHOOSE s \in met : TRUE
  BY <1>2, <1>3, <1>4 DEF nearestDependency
<1>6. R \subseteq reached(t, owner, baseOf(t))
  <2>1. \A r \in Rows(t) : upTo[r] \in Rows(t) => upTo[r] = baseOf(t)[r]
    BY <1>1, <1>3 DEF baseOf
  <2> QED
    BY <1>4, <2>1, ReachedFewer
<1>7. CASE met = {}
  <2>1. d = NoPos
    BY <1>5, <1>7
  <2>2. R \in SUBSET Rows(t)
    BY <1>4, ReachedType
  <2>3. ASSUME NEW r \in R \cup {owner}, baseOf(t)[r] \in Rows(t) PROVE baseOf(t)[r] \in R
    <3>1. r \notin hits \ {owner} /\ r \in Rows(t)
      BY <1>4, <1>7, <2>2
    <3>2. upTo[r] = baseOf(t)[r]
      BY <1>3, <3>1 DEF baseOf
    <3> QED
      BY <1>4, <2>3, <3>2, ReachedStep
  <2>4. reached(t, owner, baseOf(t)) \subseteq R
    BY <2>2, <2>3, ReachedOut
  <2> QED
    BY <1>2, <1>4, <1>7, <2>1, <2>4
<1>8. CASE met # {}
  <2>1. d \in met
    BY <1>5, <1>8
  <2> QED
    BY <1>1, <1>2, <1>4, <1>6, <2>1
<1> QED
  BY <1>7, <1>8

\* No owner to rewrite: no redirect is bad.
LEMMA CollapsedNoneBad ==
  ASSUME NEW t, Table(t), unsafeOwners(t) = {}
  PROVE  \A s \in Dead(t) : ~bad(t, s)
<1>1. SUFFICES ASSUME NEW s \in Dead(t), bad(t, s) PROVE FALSE
  OBVIOUS
<1>2. PICK w : w = ownerOf(t, s)
  OBVIOUS
<1>3. s \in Rows(t) /\ Rows(t) = Pos(t) /\ w \in Rows(t) /\ Redirected(t, s) /\ t.dead[s] \in Rows(t) /\ w # NoPos
  BY <1>2, DeadFacts
<1>4. resolveDeadSlotRedirect(t, Dead(t), s) = w
  BY <1>2, <1>3, ResolveAll
<1>5. t.dead[s] = ownerOf(t, s) \/ t.dead[s] \in Dead(t)
  BY <1>2, <1>3 DEF Redirected, Dead
<1>6. unsafe(t, Dead(t), s)
  BY <1>1, <1>5, UnsafeIsBad
<1>7. nearestDependency(t, w) = NoPos
  BY <1>4, <1>6 DEF unsafeOwners
<1>8. s \notin reached(t, w, baseOf(t))
  BY <1>3, <1>4, <1>7, NearestFacts
<1> QED
  BY <1>1, <1>2, <1>8 DEF bad, selectionDependsOn

\* An owner takes over a duplicate that its base chain comes to.
TakenOver(t, w, row) ==
    /\ w \in Pos(t) /\ added(t, w) /\ w \notin Dead(t) /\ w = ownerOf(t, w)
    /\ row \in Row(Pos(t))
    /\ t.rows[w].pinned => row.pinned
    /\ EntryAt(t.packs, row.pos).oid = oidAt(t, w)
    /\ row.kind \in {"full", "ofs", "ref"}
    /\ \E d \in Pos(t) : /\ row.pos = t.rows[d].pos /\ row.kind = t.rows[d].kind /\ row.base = t.rows[d].base
                         /\ d \in reached(t, w, baseOf(t)) \cup {w}
    /\ isDelta(row) => row.base # NoPos

LEMMA TakeOverRow ==
  ASSUME NEW t, Table(t), Progress(t, {}), AllRead(t), Curable(t), NEW w \in unsafeOwners(t),
         NEW row, row = [t.rows[nearestDependency(t, w)] EXCEPT !.pinned = @ \/ t.rows[w].pinned]
  PROVE  TakenOver(t, w, row)
<1>1. PICK d : d = nearestDependency(t, w)
  OBVIOUS
<1>2. PICK s \in Dead(t) : w = resolveDeadSlotRedirect(t, Dead(t), s)
  BY DEF unsafeOwners
<1>3. s \in Pos(t) /\ Rows(t) = Pos(t)
  BY DeadFacts
<1>4. w = ownerOf(t, s)
  BY <1>2, <1>3, ResolveAll
<1>5. w \in Pos(t) /\ added(t, w) /\ w \notin Dead(t) /\ w = ownerOf(t, w)
  BY <1>4, DeadFacts
<1>6. d # NoPos
  BY <1>1 DEF unsafeOwners
<1>7. d \in Pos(t) /\ resolveDeadSlotRedirect(t, Dead(t), d) = w /\ d \in reached(t, w, baseOf(t))
  BY <1>1, <1>3, <1>5, <1>6, NearestFacts
<1>8. w = IF d \in Dead(t) THEN ownerOf(t, d) ELSE d
  BY <1>7, ResolveAll
<1>9. t.rows[d] \in Row(Pos(t)) /\ t.rows[w] \in Row(Pos(t))
  BY <1>5, <1>7 DEF Table, TableType
<1>10. /\ row \in Row(Pos(t)) /\ row.pos = t.rows[d].pos /\ row.kind = t.rows[d].kind
       /\ row.base = t.rows[d].base /\ (t.rows[w].pinned => row.pinned)
  BY <1>1, <1>9 DEF Row
<1>11. oidAt(t, d) = oidAt(t, w) /\ added(t, d)
  <2>1. CASE d \in Dead(t)
    <3>1. w = ownerOf(t, d) /\ oidAt(t, ownerOf(t, d)) = oidAt(t, d) /\ Redirected(t, d)
      BY <1>8, <2>1, DeadFacts
    <3> QED
      BY <3>1 DEF Redirected
  <2>2. CASE d \notin Dead(t)
    BY <1>5, <1>8, <2>2
  <2> QED
    BY <2>1, <2>2
<1>12. EntryAt(t.packs, row.pos).oid = oidAt(t, w)
  BY <1>7, <1>10, <1>11 DEF Table, Named, oidOf, header
<1>13. ReadOrQueued(t, d)
  BY <1>7 DEF Progress
<1>14. row.kind \in {"full", "ofs", "ref"}
  BY <1>9, <1>10, <1>11, <1>13 DEF Row, ReadOrQueued, AllRead, added
<1>15. isDelta(row) => row.base # NoPos
  <2>1. SUFFICES ASSUME isDelta(t.rows[d]), t.rows[d].base = NoPos PROVE FALSE
    BY <1>10 DEF isDelta
  <2>2. d \in Dead(t)
    BY <1>3, <1>7, <1>13, <2>1 DEF ReadOrQueued, Dead
  <2>3. w = ownerOf(t, d)
    BY <1>8, <2>2
  <2>4. bad(t, d)
    BY <1>7, <2>3 DEF bad, selectionDependsOn
  <2> QED
    BY <2>1, <2>2, <2>4 DEF Curable
<1> QED
  BY <1>5, <1>7, <1>10, <1>12, <1>14, <1>15 DEF TakenOver

\* A round of rewrites of owners.
LEMMA CollapseRound ==
  ASSUME NEW t, Table(t), Progress(t, {}), AllRead(t), Curable(t),
         NEW u, SameLinks(t, u), u.batch = t.batch, u.queue = t.queue,
         NEW W, DOMAIN u.rows = Pos(t),
         \A w \in Pos(t) : IF w \in W THEN TakenOver(t, w, u.rows[w]) ELSE u.rows[w] = t.rows[w],
         u.rows = [s \in Pos(t) |-> u.rows[s]]
  PROVE  Table(u) /\ Progress(u, {}) /\ AllRead(u) /\ Curable(u)
<1>1. t.rows \in [Pos(t) -> Row(Pos(t))] /\ u.packs = t.packs /\ u.owner = t.owner /\ u.dead = t.dead
  BY DEF Table, TableType, SameLinks
<1>2. u.rows \in [Pos(t) -> Row(Pos(t))]
  BY <1>1 DEF TakenOver
<1>3. \A s \in Pos(t) : added(u, s) <=> added(t, s)
  BY DEF added, TakenOver
<1>4. \A s \in Pos(t) : oidOf(u, s) = oidAt(t, s)
  BY <1>1 DEF Table, Named, oidOf, header, TakenOver
<1>5. \A s \in Pos(t) : t.rows[s].pinned => u.rows[s].pinned
  BY DEF TakenOver
<1>6. ASSUME NEW s \in Pos(t) PROVE EdgeRight(u, s)
  <2>1. CASE s \notin W
    <3>1. u.rows[s] = t.rows[s] /\ EdgeRight(t, s)
      BY <2>1 DEF Table, Edges
    <3>2. t.rows[s].base # NoPos => t.rows[s].base \in Pos(t)
      BY <1>1 DEF Row
    <3> QED
      BY <1>1, <1>3, <3>1, <3>2, EdgeStays
  <2>2. CASE s \in W
    <3>1. PICK d \in Pos(t) : u.rows[s].pos = t.rows[d].pos /\ u.rows[s].kind = t.rows[d].kind
                              /\ u.rows[s].base = t.rows[d].base
      BY <2>2 DEF TakenOver
    <3>2. EdgeRight(t, d) /\ (t.rows[d].base # NoPos => t.rows[d].base \in Pos(t))
      BY <1>1 DEF Table, Edges, Row
    <3>3. header(u, s) = header(t, d)
      BY <1>1, <3>1 DEF header
    <3> QED
      BY <1>1, <1>3, <3>1, <3>2, <3>3 DEF EdgeRight, isDelta, oidAt
  <2> QED
    BY <2>1, <2>2
<1>7. Table(u)
  BY <1>2, <1>3, <1>4, <1>5, <1>6, RowsKeep
<1>8. Pos(u) = Pos(t) /\ Dead(u) = Dead(t) /\ Rows(u) = Rows(t) /\ Rows(t) = Pos(t)
      /\ \A s : ownerOf(u, s) = ownerOf(t, s)
  BY <1>1, <1>2 DEF Pos, Dead, Rows, ownerOf, oidAt
<1>9. Progress(u, {})
  <2>1. SUFFICES ASSUME NEW s \in Pos(t) PROVE ReadOrQueued(u, s)
    BY <1>8 DEF Progress
  <2>2. CASE s \notin W
    <3>1. u.rows[s] = t.rows[s] /\ ReadOrQueued(t, s)
      BY <2>2 DEF Progress
    <3> QED
      BY <1>1, <3>1, ProgressStays
  <2>3. CASE s \in W
    BY <1>8, <2>3 DEF TakenOver, ReadOrQueued
  <2> QED
    BY <2>2, <2>3
<1>10. \A s \in Pos(t) : reached(u, s, baseOf(u)) \subseteq reached(t, s, baseOf(t))
  <2>1. TAKE s \in Pos(t)
  <2>2. PICK S : S = reached(t, s, baseOf(t))
    OBVIOUS
  <2>3. S \in SUBSET Rows(u)
    BY <1>8, <2>2, ReachedType
  <2>4. ASSUME NEW r \in S \cup {s}, baseOf(u)[r] \in Rows(u) PROVE baseOf(u)[r] \in S
    <3>1. r \in Pos(t)
      BY <1>8, <2>3
    <3>2. baseOf(u)[r] = u.rows[r].base /\ \A q \in Pos(t) : baseOf(t)[q] = t.rows[q].base
      BY <1>8, <3>1 DEF baseOf
    <3>3. PICK d \in S \cup {s} : u.rows[r].base = t.rows[d].base /\ d \in Pos(t)
      <4>1. CASE r \notin W
        BY <3>1, <4>1
      <4>2. CASE r \in W
        <5>1. PICK d \in Pos(t) : u.rows[r].base = t.rows[d].base /\ d \in reached(t, r, baseOf(t)) \cup {r}
          BY <3>1, <4>2 DEF TakenOver
        <5>2. reached(t, r, baseOf(t)) \subseteq S
          BY <2>2, ReachedOn
        <5> QED
          BY <5>1, <5>2
      <4> QED
        BY <4>1, <4>2
    <3>4. baseOf(t)[d] \in Rows(t) /\ baseOf(t)[d] = baseOf(u)[r]
      BY <1>8, <2>4, <3>2, <3>3
    <3> QED
      BY <2>2, <3>3, <3>4, ReachedStep
  <2> QED
    BY <1>8, <2>2, <2>3, <2>4, ReachedOut
<1>11. Curable(u)
  <2>1. SUFFICES ASSUME NEW s \in Dead(t), isDelta(u.rows[s]), u.rows[s].base = NoPos PROVE ~bad(u, s)
    BY <1>8 DEF Curable
  <2>2. s \in Pos(t) /\ s \notin W /\ ownerOf(t, s) \in Pos(t)
    BY DeadFacts DEF TakenOver
  <2>3. u.rows[s] = t.rows[s]
    BY <2>2
  <2>4. ~bad(t, s)
    BY <2>1, <2>3 DEF Curable
  <2> QED
    BY <1>8, <1>10, <2>2, <2>4 DEF bad, selectionDependsOn
<1> QED
  BY <1>7, <1>9, <1>11 DEF AllRead

\* collapseUnsafeRedirectOwners
LEMMA CollapseKeeps ==
  ASSUME RewriteInv(rewrite), collapseUnsafeRedirectOwners
  PROVE  Continues(rewrite, rewrite')
<1>1. PICK t, u : t = rewrite /\ u = rewrite'
  OBVIOUS
<1>2. PICK W : W = unsafeOwners(t)
  OBVIOUS
<1>3. PICK rows : rows = [s \in Rows(t) |->
          IF s \in W THEN [t.rows[nearestDependency(t, s)] EXCEPT !.pinned = @ \/ t.rows[s].pinned]
          ELSE t.rows[s]]
  OBVIOUS
<1>4. /\ t.phase = "collapse"
      /\ u = IF W = {} THEN beginPrune(t, "compact")
             ELSE [t EXCEPT !.rows = rows]
  BY <1>1, <1>2, <1>3 DEF collapseUnsafeRedirectOwners
<1>5. Table(t) /\ Progress(t, {}) /\ PhaseInv(t)
  BY <1>1, <1>4 DEF RewriteInv
<1>6. AllRead(t) /\ Curable(t)
  BY <1>4, <1>5 DEF PhaseInv
<1>7. CASE W = {}
  <2>1. u = beginPrune(t, "compact") /\ \A s \in Dead(t) : ~bad(t, s)
    BY <1>2, <1>4, <1>5, <1>7, CollapsedNoneBad
  <2>2. Continues(t, u)
    BY <1>5, <1>6, <2>1, BeginPruneKeeps
  <2> QED
    BY <1>1, <2>2
<1>8. CASE W # {}
  <2>1. DOMAIN t = Fields /\ t.batch \subseteq Pos(t) /\ t.queue \subseteq Pos(t) /\ Rows(t) = Pos(t)
    BY <1>5 DEF Table, TableType, Rows
  <2>2. SameLinks(t, u) /\ u.rows = rows /\ u.batch = t.batch /\ u.queue = t.queue /\ u.phase = "collapse"
    BY <1>4, <1>8, <2>1 DEF SameLinks, Fields
  <2>3. \A w \in Pos(t) : IF w \in W THEN TakenOver(t, w, u.rows[w]) ELSE u.rows[w] = t.rows[w]
    <3>1. ASSUME NEW w \in Pos(t), w \in W PROVE TakenOver(t, w, u.rows[w])
      <4>1. u.rows[w] = [t.rows[nearestDependency(t, w)] EXCEPT !.pinned = @ \/ t.rows[w].pinned]
        BY <1>3, <2>1, <2>2, <3>1
      <4> QED
        BY <1>2, <1>5, <1>6, <3>1, <4>1, TakeOverRow
    <3> QED
      BY <1>3, <2>1, <2>2, <3>1
  <2>4. DOMAIN u.rows = Pos(t) /\ u.rows = [s \in Pos(t) |-> u.rows[s]]
    BY <1>3, <2>1, <2>2
  <2>5. Table(u) /\ Progress(u, {}) /\ AllRead(u) /\ Curable(u)
    BY <1>5, <1>6, <2>2, <2>3, <2>4, CollapseRound
  <2>6. PhaseInv(u)
    BY <2>2, <2>5 DEF PhaseInv
  <2> QED
    BY <1>1, <2>2, <2>5, <2>6, NotFailed DEF Continues, SameLinks
<1> QED
  BY <1>7, <1>8

\* passthroughSinglePack: a snapshot of one pack stands alone.
LEMMA PassthroughFinishes ==
  ASSUME NEW t, Snapshot(t.packs), Len(t.packs) = 1,
         \A oid \in t.needed : \E s \in Pos(t) : oidAt(t, s) = oid,
         NEW u, u.packs = t.packs, u.needed = t.needed, u.out = t.packs[1]
  PROVE  Finished(u)
<1>1. PICK out : out = t.packs[1]
  OBVIOUS
<1>2. t.packs \in Seq(Seq(Entry)) /\ Standing(t.packs, 0)
  BY DEF Snapshot
<1>3. DOMAIN t.packs = {1}
  BY <1>2
<1>4. GoodPack(out) /\ \A i \in DOMAIN out : out[i].ref \in {NoOid} \cup Oids(out)
  BY <1>1, <1>2, <1>3 DEF Standing
<1>5. t.needed \subseteq Oids(out)
  <2>1. SUFFICES ASSUME NEW oid \in t.needed PROVE oid \in Oids(out)
    OBVIOUS
  <2>2. PICK s \in Pos(t) : oidAt(t, s) = oid
    OBVIOUS
  <2>3. s[1] = 1 /\ s[2] \in DOMAIN out /\ EntryAt(t.packs, s) = out[s[2]]
    BY <1>1, <1>2, <1>3, PositionParts DEF Pos
  <2> QED
    BY <2>2, <2>3 DEF oidAt, Oids
<1>6. ASSUME NEW i \in DOMAIN out, out[i].ofs # 0
      PROVE  \E pos \in Positions(t.packs) :
                LET e == EntryAt(t.packs, pos)
                IN  /\ e.oid = out[i].oid
                    /\ e.ofs # 0
                    /\ t.packs[pos[1]][e.ofs].oid = out[out[i].ofs].oid
  <2>1. <<1, i>> \in Positions(t.packs) /\ EntryAt(t.packs, <<1, i>>) = out[i]
    BY <1>1, <1>3, PositionIn
  <2> QED
    BY <1>1, <1>6, <2>1
<1> QED
  BY <1>1, <1>4, <1>5, <1>6 DEF Finished

\* compactDeadSlots: the rows that stay.
LiveRight(t, live) ==
    /\ live \subseteq Pos(t)
    /\ \A s \in Pos(t) : added(t, s) => (IF s \in Dead(t) THEN ownerOf(t, s) ELSE s) \in live
    /\ \A oid \in t.needed : \E s \in live : oidAt(t, s) = oid
    /\ \A s, r \in live : oidAt(t, s) = oidAt(t, r) => s = r
    /\ \A s \in live : t.rows[s].kind \in {"full", "ofs", "ref"}
    /\ \A s \in live : isDelta(t.rows[s]) => t.rows[s].base # NoPos

LEMMA LiveRows ==
  ASSUME NEW t, Table(t), Progress(t, {}), AllRead(t)
  PROVE  LiveRight(t, {s \in Rows(t) \ Dead(t) : t.rows[s].kind # "none"})
<1> DEFINE live == {s \in Rows(t) \ Dead(t) : t.rows[s].kind # "none"}
<1>1. Rows(t) = Pos(t) /\ t.rows \in [Pos(t) -> Row(Pos(t))]
  BY DEF Table, TableType, Rows
<1>2. \A s \in live : s \in Pos(t) /\ s \notin Dead(t) /\ ReadOrQueued(t, s) /\ t.rows[s].kind # "none"
  BY <1>1 DEF Progress
<1>3. \A s \in live : t.rows[s].kind \in {"full", "ofs", "ref"}
  BY <1>1, <1>2 DEF ReadOrQueued, AllRead, Row
<1>4. \A s \in live : s = ownerOf(t, s) /\ (isDelta(t.rows[s]) => t.rows[s].base # NoPos)
  BY <1>1, <1>2, <1>3 DEF ReadOrQueued, Dead
<1>5. ASSUME NEW s \in Pos(t), added(t, s) PROVE (IF s \in Dead(t) THEN ownerOf(t, s) ELSE s) \in live
  <2>1. CASE s \in Dead(t)
    BY <1>1, <2>1, DeadFacts DEF added
  <2>2. CASE s \notin Dead(t)
    BY <1>1, <1>5, <2>2 DEF added
  <2> QED
    BY <2>1, <2>2
<1>6. \A oid \in t.needed : \E s \in live : oidAt(t, s) = oid
  <2>1. TAKE oid \in t.needed
  <2>2. PICK s \in Pos(t) : added(t, s) /\ oidAt(t, s) = oid
    BY DEF Table, Named
  <2>3. CASE s \in Dead(t)
    BY <1>5, <2>2, <2>3, DeadFacts
  <2>4. CASE s \notin Dead(t)
    BY <1>5, <2>2, <2>4
  <2> QED
    BY <2>3, <2>4
<1>7. \A s, r \in live : oidAt(t, s) = oidAt(t, r) => s = r
  BY <1>4 DEF ownerOf
<1> QED
  BY <1>2, <1>3, <1>4, <1>5, <1>6, <1>7 DEF LiveRight

\* compactDeadSlots
LEMMA CompactKeeps ==
  ASSUME RewriteInv(rewrite), compactDeadSlots
  PROVE  Continues(rewrite, rewrite')
<1>1. PICK t, u : t = rewrite /\ u = rewrite'
  OBVIOUS
<1>2. PICK live, moved : /\ live = {s \in Rows(t) \ t.safe : t.rows[s].kind # "none"}
                         /\ moved = [s \in Rows(t) |-> IF t.rows[s].base = NoPos THEN NoPos
                                                       ELSE resolveDeadSlotRedirect(t, t.safe, t.rows[s].base)]
  OBVIOUS
<1>3. PICK rows : rows = [s \in Rows(t) |-> [t.rows[s] EXCEPT !.base = moved[s]]]
  OBVIOUS
<1>4. /\ t.phase = "compact"
      /\ u = IF canPassthrough(t, live) THEN passthroughSinglePack(t)
             ELSE [t EXCEPT !.phase = "order", !.live = live, !.order = <<>>, !.rows = rows]
  BY <1>1, <1>2, <1>3 DEF compactDeadSlots
<1>5. Table(t) /\ Progress(t, {}) /\ PhaseInv(t)
  BY <1>1, <1>4 DEF RewriteInv
<1>6. AllRead(t) /\ t.safe = Dead(t)
  BY <1>4, <1>5 DEF PhaseInv, NoneBad
<1>7. DOMAIN t = Fields /\ t.batch \subseteq Pos(t) /\ t.queue \subseteq Pos(t) /\ Rows(t) = Pos(t)
      /\ t.rows \in [Pos(t) -> Row(Pos(t))] /\ Snapshot(t.packs)
  BY <1>5 DEF Table, TableType, Rows
<1>8. CASE canPassthrough(t, live)
  <2>1. /\ SameLinks(t, u) /\ u.rows = t.rows /\ u.batch = t.batch /\ u.queue = t.queue /\ u.phase = "done"
        /\ u.out = t.packs[1] /\ u.packs = t.packs /\ u.needed = t.needed
    BY <1>4, <1>7, <1>8 DEF SameLinks, passthroughSinglePack, Fields
  <2>2. Reframes(t, u)
    BY <1>5, <2>1, Reframed
  <2>3. \A oid \in t.needed : \E s \in Pos(t) : oidAt(t, s) = oid
    BY <1>5 DEF Table, Named
  <2>4. Finished(u)
    BY <1>7, <1>8, <2>1, <2>3, PassthroughFinishes DEF canPassthrough
  <2>5. PhaseInv(u)
    BY <2>1, <2>4 DEF PhaseInv
  <2> QED
    BY <1>1, <2>2, <2>5, NotFailed DEF Continues, Reframes
<1>9. CASE ~canPassthrough(t, live)
  <2>1. /\ SameLinks(t, u) /\ u.rows = rows /\ u.batch = t.batch /\ u.queue = t.queue /\ u.phase = "order"
        /\ u.live = live /\ u.order = <<>> /\ u.packs = t.packs /\ u.owner = t.owner /\ u.dead = t.dead
        /\ u.needed = t.needed
    BY <1>4, <1>7, <1>9 DEF SameLinks, Fields
  <2>2. LiveRight(t, live)
    <3>1. live = {s \in Rows(t) \ Dead(t) : t.rows[s].kind # "none"}
      BY <1>2, <1>6
    <3> QED
      BY <1>5, <1>6, <3>1, LiveRows
  <2>3. ASSUME NEW s \in Pos(t), t.rows[s].base # NoPos
        PROVE  /\ moved[s] \in live /\ moved[s] \in Pos(t) /\ moved[s] # NoPos
               /\ oidAt(t, moved[s]) = oidAt(t, t.rows[s].base)
               /\ added(t, moved[s])
    <3>1. PICK b : b = t.rows[s].base
      OBVIOUS
    <3>2. b \in Pos(t) /\ added(t, b) /\ NoPos \notin Pos(t)
      BY <1>5, <1>7, <2>3, <3>1, OidAtType DEF Table, Edges, EdgeRight, Row
    <3>3. moved[s] = IF b \in Dead(t) THEN ownerOf(t, b) ELSE b
      BY <1>2, <1>5, <1>6, <1>7, <2>3, <3>1, <3>2, ResolveAll
    <3>4. moved[s] \in live /\ moved[s] \in Pos(t)
      BY <2>2, <3>2, <3>3 DEF LiveRight
    <3>5. oidAt(t, moved[s]) = oidAt(t, b) /\ added(t, moved[s])
      <4>1. CASE b \in Dead(t)
        BY <1>5, <3>3, <4>1, DeadFacts
      <4>2. CASE b \notin Dead(t)
        BY <3>2, <3>3, <4>2
      <4> QED
        BY <4>1, <4>2
    <3> QED
      BY <3>1, <3>2, <3>4, <3>5
  <2>4. ASSUME NEW s \in Pos(t)
        PROVE  /\ u.rows[s] \in Row(Pos(t)) /\ u.rows[s].pos = t.rows[s].pos /\ u.rows[s].kind = t.rows[s].kind
               /\ u.rows[s].pinned = t.rows[s].pinned
               /\ u.rows[s].base = IF t.rows[s].base = NoPos THEN NoPos ELSE moved[s]
    <3>1. moved[s] = IF t.rows[s].base = NoPos THEN NoPos ELSE moved[s]
      BY <1>2, <1>7
    <3>2. moved[s] \in Pos(t) \cup {NoPos}
      BY <2>3, <3>1
    <3>3. u.rows[s] = [t.rows[s] EXCEPT !.base = moved[s]] /\ t.rows[s] \in Row(Pos(t))
      BY <1>3, <1>7, <2>1
    <3> QED
      BY <3>1, <3>2, <3>3 DEF Row
  <2>5. u.rows \in [Pos(t) -> Row(Pos(t))]
    <3>1. u.rows = [s \in Pos(t) |-> u.rows[s]]
      BY <1>3, <1>7, <2>1
    <3> QED
      BY <2>4, <3>1
  <2>6. \A s \in Pos(t) : added(u, s) <=> added(t, s)
    BY <2>4 DEF added
  <2>7. ASSUME NEW s \in Pos(t) PROVE EdgeRight(u, s)
    <3>1. EdgeRight(t, s) /\ header(u, s) = header(t, s) /\ \A r : oidAt(u, r) = oidAt(t, r)
      BY <1>5, <2>1, <2>4 DEF Table, Edges, header, oidAt
    <3>2. CASE t.rows[s].base = NoPos
      BY <2>4, <3>1, <3>2 DEF EdgeRight, isDelta
    <3>3. CASE t.rows[s].base # NoPos
      BY <2>3, <2>4, <2>6, <3>1, <3>3 DEF EdgeRight, isDelta
    <3> QED
      BY <3>2, <3>3
  <2>8. Table(u)
    <3>1. \A s \in Pos(t) : oidOf(u, s) = oidAt(t, s)
      BY <1>5, <2>1, <2>4 DEF Table, Named, oidOf, header
    <3> QED
      BY <1>5, <2>1, <2>4, <2>5, <2>6, <2>7, <3>1, RowsKeep
  <2>9. Pos(u) = Pos(t) /\ \A s : ownerOf(u, s) = ownerOf(t, s) /\ oidAt(u, s) = oidAt(t, s)
    BY <2>1 DEF Pos, ownerOf, oidAt
  <2>10. Progress(u, {})
    <3>1. SUFFICES ASSUME NEW s \in Pos(t) PROVE ReadOrQueued(u, s)
      BY <2>9 DEF Progress
    <3>2. ReadOrQueued(t, s) /\ (t.rows[s].base # NoPos => u.rows[s].base # NoPos)
      BY <1>5, <2>3, <2>4 DEF Progress
    <3> QED
      BY <2>1, <2>4, <2>9, <3>2 DEF ReadOrQueued, isDelta
  <2>11. OrderInv(u)
    <3>1. \A s \in live : /\ u.rows[s].kind \in {"full", "ofs", "ref"}
                          /\ u.rows[s].base \in live \cup {NoPos}
                          /\ isDelta(u.rows[s]) => u.rows[s].base # NoPos
      BY <2>2, <2>3, <2>4 DEF isDelta, LiveRight
    <3>2. <<>> \in Seq(live) /\ DOMAIN <<>> = {}
      OBVIOUS
    <3> QED
      BY <2>1, <2>2, <2>9, <3>1, <3>2 DEF OrderInv, LiveRight
  <2>12. PhaseInv(u)
    BY <2>1, <2>11 DEF PhaseInv
  <2> QED
    BY <1>1, <2>1, <2>8, <2>10, <2>12, NotFailed DEF Continues
<1> QED
  BY <1>8, <1>9

\* createRewriteStream: an entry of the output.
OutRight(t, n, e) ==
    LET s == t.order[n]
    IN  /\ s \in t.live /\ s \in Pos(t)
        /\ e \in Entry /\ e.oid = oidAt(t, s)
        /\ t.rows[s].kind \in {"full", "ofs", "ref"}
        /\ t.rows[s].kind = "full" => e.ofs = 0 /\ e.ref = NoOid
        /\ t.rows[s].kind = "ofs" =>
              /\ e.ref = NoOid /\ e.ofs \in DOMAIN t.order /\ e.ofs < n /\ t.order[e.ofs] = t.rows[s].base
              /\ header(t, s).ofs # 0
              /\ oidAt(t, t.order[e.ofs]) = oidAt(t, <<t.rows[s].pos[1], header(t, s).ofs>>)
        /\ t.rows[s].kind = "ref" =>
              /\ e.ofs = 0 /\ e.ref # NoOid /\ e.ref # e.oid
              /\ \E m \in DOMAIN t.order : m < n /\ oidAt(t, t.order[m]) = e.ref

LEMMA SoundEntry ==
  ASSUME NEW t, TableType(t), NEW s \in Pos(t)
  PROVE  LET e == header(t, s)
         IN  e \in Entry /\ (e.ofs = 0 \/ e.ref = NoOid) /\ e.ref # e.oid
<1>1. PICK pos : pos = t.rows[s].pos
  OBVIOUS
<1>2. pos \in Pos(t) /\ header(t, s) = EntryAt(t.packs, pos) /\ header(t, s) \in Entry
  BY <1>1, OidAtType DEF header
<1>3. t.packs \in Seq(Seq(Entry)) /\ \A p \in DOMAIN t.packs : SoundPack(t.packs[p])
  BY DEF TableType, Snapshot
<1>4. pos[1] \in DOMAIN t.packs /\ pos[2] \in DOMAIN t.packs[pos[1]] /\ EntryAt(t.packs, pos) = t.packs[pos[1]][pos[2]]
  BY <1>2, <1>3, PositionParts DEF Pos
<1>5. PICK pack, i : pack = t.packs[pos[1]] /\ i = pos[2]
  OBVIOUS
<1>6. SoundPack(pack) /\ i \in DOMAIN pack /\ header(t, s) = pack[i]
  BY <1>2, <1>3, <1>4, <1>5
<1> QED
  BY <1>2, <1>6 DEF SoundPack

LEMMA OutputEntryRight ==
  ASSUME NEW t, Table(t), OrderInv(t), NEW n \in DOMAIN t.order
  PROVE  OutRight(t, n, outputEntry(t, n))
<1>1. PICK s, row, h, e : s = t.order[n] /\ row = t.rows[s] /\ h = header(t, s) /\ e = outputEntry(t, n)
  OBVIOUS
<1>2. t.order \in Seq(t.live) /\ DOMAIN t.order \subseteq Nat \ {0}
  BY DEF OrderInv
<1>3. s \in t.live /\ s \in Pos(t)
  BY <1>1, <1>2 DEF OrderInv
<1>4. /\ row.kind \in {"full", "ofs", "ref"} /\ row.base \in t.live \cup {NoPos}
      /\ isDelta(row) => row.base # NoPos
  BY <1>1, <1>3 DEF OrderInv
<1>5. h \in Entry /\ (h.ofs = 0 \/ h.ref = NoOid) /\ h.ref # h.oid /\ h.oid = oidAt(t, s)
  BY <1>1, <1>3, SoundEntry DEF Table, Named, oidOf
<1>6. EdgeRight(t, s)
  BY <1>3 DEF Table, Edges
<1>7. e = CASE row.kind = "full" -> Whole(h.oid)
            [] row.kind = "ofs" -> [h EXCEPT !.ofs = CHOOSE m \in DOMAIN t.order : t.order[m] = row.base]
            [] row.kind = "ref" -> h
  BY <1>1 DEF outputEntry, header
<1>8. isDelta(row) => \E m \in DOMAIN t.order : m < n /\ t.order[m] = row.base
  BY <1>1, <1>4 DEF OrderInv
<1>9. CASE row.kind = "full"
  <2>1. e = Whole(h.oid)
    BY <1>7, <1>9
  <2>2. e \in Entry /\ e.oid = oidAt(t, s) /\ e.ofs = 0 /\ e.ref = NoOid
    BY <1>5, <2>1 DEF Whole, Entry
  <2> QED
    BY <1>1, <1>3, <1>9, <2>2 DEF OutRight
<1>10. CASE row.kind = "ofs"
  <2>1. PICK k : k = CHOOSE m \in DOMAIN t.order : t.order[m] = row.base
    OBVIOUS
  <2>2. PICK m \in DOMAIN t.order : m < n /\ t.order[m] = row.base
    BY <1>8, <1>10 DEF isDelta
  <2>3. k \in DOMAIN t.order /\ t.order[k] = row.base
    BY <2>1, <2>2
  <2>4. k = m
    BY <2>2, <2>3 DEF OrderInv
  <2>5. k < n /\ k \in Nat
    BY <1>2, <2>2, <2>4
  <2>6. e = [h EXCEPT !.ofs = k]
    BY <1>7, <1>10, <2>1
  <2>7. kindOf(h) = "ofs"
    BY <1>1, <1>6, <1>10 DEF EdgeRight, isDelta
  <2>8. h.ofs # 0 /\ h.ref = NoOid
    BY <2>7 DEF kindOf
  <2>9. e \in Entry /\ e.oid = oidAt(t, s) /\ e.ref = NoOid /\ e.ofs = k
    BY <1>5, <2>5, <2>6, <2>8 DEF Entry
  <2>10. oidAt(t, row.base) = oidAt(t, <<row.pos[1], h.ofs>>)
    BY <1>1, <1>4, <1>6, <1>10 DEF EdgeRight, isDelta
  <2> QED
    BY <1>1, <1>3, <1>10, <2>3, <2>5, <2>8, <2>9, <2>10 DEF OutRight
<1>11. CASE row.kind = "ref"
  <2>1. PICK m \in DOMAIN t.order : m < n /\ t.order[m] = row.base
    BY <1>8, <1>11 DEF isDelta
  <2>2. kindOf(h) = "ref" /\ oidAt(t, row.base) = h.ref
    BY <1>1, <1>4, <1>6, <1>11 DEF EdgeRight, isDelta
  <2>3. h.ref # NoOid
    BY <2>2 DEF kindOf
  <2>4. e = h
    BY <1>7, <1>11
  <2>5. e \in Entry /\ e.oid = oidAt(t, s) /\ e.ofs = 0 /\ e.ref # NoOid /\ e.ref # e.oid
    BY <1>5, <2>3, <2>4
  <2> QED
    BY <1>1, <1>3, <1>11, <2>1, <2>2, <2>4, <2>5 DEF OutRight
<1> QED
  BY <1>4, <1>9, <1>10, <1>11

\* The output of an order that took in every row.
LEMMA OrderedFinishes ==
  ASSUME NEW t, Table(t), OrderInv(t), ToSet(t.order) = t.live,
         NEW u, u.packs = t.packs, u.needed = t.needed, u.out = [n \in DOMAIN t.order |-> outputEntry(t, n)]
  PROVE  Finished(u)
<1>1. PICK out : out = u.out
  OBVIOUS
<1>2. t.order \in Seq(t.live) /\ DOMAIN t.order = 1 .. Len(t.order) /\ Len(t.order) \in Nat
  BY DEF OrderInv
<1>3. DOMAIN out = DOMAIN t.order /\ \A n \in DOMAIN out : OutRight(t, n, out[n])
  BY <1>1, OutputEntryRight
<1>4. out \in Seq(Entry)
  <2>1. out \in [1 .. Len(t.order) -> Entry]
    BY <1>1, <1>2, <1>3 DEF OutRight
  <2> QED
    BY <1>2, <2>1, SeqDef
<1>5. SoundPack(out)
  <2>1. ASSUME NEW i \in DOMAIN out
        PROVE  out[i].ofs < i /\ (out[i].ofs = 0 \/ out[i].ref = NoOid) /\ out[i].ref # out[i].oid
    <3>1. OutRight(t, i, out[i]) /\ i \in Nat \ {0} /\ out[i] \in Entry
      BY <1>2, <1>3, <1>4
    <3>2. out[i].ofs < i
      BY <3>1 DEF OutRight
    <3>3. out[i].ref # out[i].oid /\ (out[i].ofs = 0 \/ out[i].ref = NoOid)
      BY <3>1, OidAssumption DEF OutRight, Entry
    <3> QED
      BY <3>2, <3>3
  <2> QED
    BY <1>4, <2>1 DEF SoundPack
<1>6. ASSUME NEW i \in DOMAIN out, NEW j \in DOMAIN out, out[i].oid = out[j].oid PROVE i = j
  <2>1. /\ t.order[i] \in t.live /\ t.order[j] \in t.live
        /\ oidAt(t, t.order[i]) = oidAt(t, t.order[j])
    BY <1>3, <1>6 DEF OutRight
  <2> QED
    BY <1>3, <2>1 DEF OrderInv
<1>7. \A m \in DOMAIN out : oidAt(t, t.order[m]) \in Oids(out)
  BY <1>3 DEF OutRight, Oids
<1>8. DOMAIN out \subseteq grounded(out)
  <2>1. SUFFICES ASSUME NEW S \in SUBSET DOMAIN out, groundedFrom(out, S) \subseteq S PROVE DOMAIN out \subseteq S
    BY GroundedIn
  <2>2. SUFFICES ASSUME DOMAIN out \ S # {} PROVE FALSE
    OBVIOUS
  <2>3. PICK i \in DOMAIN out \ S : \A j \in DOMAIN out \ S : i <= j
    <3>1. DOMAIN out \ S \in SUBSET Nat
      BY <1>2, <1>3
    <3> QED
      BY <2>2, <3>1, LeastNat
  <2>4. OutRight(t, i, out[i])
    BY <1>3
  <2>5. \A m \in DOMAIN out : m < i => m \in S
    BY <1>2, <1>3, <2>3
  <2>6. i \in groundedFrom(out, S)
    <3>1. CASE t.rows[t.order[i]].kind = "full"
      BY <2>4, <3>1 DEF OutRight, groundedFrom, kindOf
    <3>2. CASE t.rows[t.order[i]].kind = "ofs"
      <4>1. out[i].ref = NoOid /\ out[i].ofs \in DOMAIN out /\ out[i].ofs < i /\ out[i].ofs # 0
        BY <1>2, <1>3, <2>4, <3>2 DEF OutRight
      <4> QED
        BY <2>5, <4>1 DEF groundedFrom, kindOf
    <3>3. CASE t.rows[t.order[i]].kind = "ref"
      <4>1. out[i].ref # NoOid /\ \E m \in DOMAIN out : m < i /\ oidAt(t, t.order[m]) = out[i].ref
        BY <1>3, <2>4, <3>3 DEF OutRight
      <4>2. PICK m \in DOMAIN out : m < i /\ oidAt(t, t.order[m]) = out[i].ref
        BY <4>1
      <4>3. out[m].oid = out[i].ref /\ m \in S
        BY <1>3, <2>5, <4>2 DEF OutRight
      <4> QED
        BY <4>1, <4>3 DEF groundedFrom, kindOf
    <3> QED
      BY <2>4, <3>1, <3>2, <3>3 DEF OutRight
  <2> QED
    BY <2>1, <2>3, <2>6
<1>9. GoodPack(out)
  <2>1. grounded(out) \subseteq DOMAIN out
    BY DEF grounded, Least
  <2> QED
    BY <1>5, <1>6, <1>8, <2>1 DEF GoodPack
<1>10. \A i \in DOMAIN out : out[i].ref \in {NoOid} \cup Oids(out)
  <2>1. TAKE i \in DOMAIN out
  <2>2. OutRight(t, i, out[i])
    BY <1>3
  <2>3. out[i].ref # NoOid => \E m \in DOMAIN out : oidAt(t, t.order[m]) = out[i].ref
    BY <1>3, <2>2 DEF OutRight
  <2> QED
    BY <1>7, <2>3
<1>11. t.needed \subseteq Oids(out)
  <2>1. SUFFICES ASSUME NEW oid \in t.needed PROVE oid \in Oids(out)
    OBVIOUS
  <2>2. PICK s \in t.live : oidAt(t, s) = oid
    BY DEF OrderInv
  <2>3. PICK n \in DOMAIN out : t.order[n] = s
    BY <1>3 DEF ToSet
  <2> QED
    BY <1>7, <2>2, <2>3
<1>12. ASSUME NEW i \in DOMAIN out, out[i].ofs # 0
       PROVE  \E pos \in Positions(t.packs) :
                LET e == EntryAt(t.packs, pos)
                IN  /\ e.oid = out[i].oid
                    /\ e.ofs # 0
                    /\ t.packs[pos[1]][e.ofs].oid = out[out[i].ofs].oid
  <2>1. PICK s, pos, e : s = t.order[i] /\ pos = t.rows[s].pos /\ e = EntryAt(t.packs, pos)
    OBVIOUS
  <2>2. OutRight(t, i, out[i])
    BY <1>3
  <2>3. /\ s \in Pos(t) /\ header(t, s) = e /\ out[i].ofs \in DOMAIN out /\ e.ofs # 0
        /\ oidAt(t, t.order[out[i].ofs]) = oidAt(t, <<pos[1], e.ofs>>)
        /\ out[i].oid = oidAt(t, s)
    BY <1>3, <1>12, <2>1, <2>2 DEF OutRight, header
  <2>4. pos \in Positions(t.packs)
    BY <2>1, <2>3, OidAtType DEF Table, Pos
  <2>5. e.oid = out[i].oid
    BY <2>3 DEF Table, Named, oidOf
  <2>6. out[out[i].ofs].oid = oidAt(t, t.order[out[i].ofs])
    BY <1>3, <2>3 DEF OutRight
  <2>7. oidAt(t, <<pos[1], e.ofs>>) = t.packs[pos[1]][e.ofs].oid
    BY DEF oidAt, EntryAt
  <2> QED
    BY <2>1, <2>3, <2>4, <2>5, <2>6, <2>7
<1>13. ASSUME NEW i \in DOMAIN u.out, u.out[i].ofs # 0
       PROVE  \E pos \in Positions(u.packs) :
                LET e == EntryAt(u.packs, pos)
                IN  /\ e.oid = u.out[i].oid
                    /\ e.ofs # 0
                    /\ u.packs[pos[1]][e.ofs].oid = u.out[u.out[i].ofs].oid
  <2>1. i \in DOMAIN out /\ out[i].ofs # 0
    BY <1>1, <1>13
  <2>2. PICK pos \in Positions(t.packs) :
            /\ EntryAt(t.packs, pos).oid = out[i].oid
            /\ EntryAt(t.packs, pos).ofs # 0
            /\ t.packs[pos[1]][EntryAt(t.packs, pos).ofs].oid = out[out[i].ofs].oid
    BY <1>12, <2>1
  <2> QED
    BY <1>1, <2>2
<1>14. GoodPack(u.out) /\ (\A i \in DOMAIN u.out : u.out[i].ref \in {NoOid} \cup Oids(u.out))
       /\ u.needed \subseteq Oids(u.out)
  BY <1>1, <1>9, <1>10, <1>11
<1> QED
  BY <1>13, <1>14 DEF Finished

\* A row goes behind its base.
LEMMA OrderGrows ==
  ASSUME NEW t, OrderInv(t), NEW s \in t.live, s \notin ToSet(t.order),
         t.rows[s].base \in ToSet(t.order) \cup {NoPos},
         NEW u, u.live = t.live, u.packs = t.packs, u.needed = t.needed, u.rows = t.rows,
         u.order = Append(t.order, s)
  PROVE  OrderInv(u)
<1>1. PICK k : k = Len(t.order)
  OBVIOUS
<1>2. t.order \in Seq(t.live) /\ k \in Nat /\ DOMAIN t.order = 1 .. k
  BY <1>1 DEF OrderInv
<1>3. /\ u.order \in Seq(t.live) /\ DOMAIN u.order = 1 .. k + 1
      /\ u.order[k + 1] = s /\ \A n \in 1 .. k : u.order[n] = t.order[n]
  <2>1. PICK q, live : q = t.order /\ live = t.live
    OBVIOUS
  <2>2. q \in Seq(live) /\ s \in live /\ k = Len(q) /\ u.order = Append(q, s)
    BY <1>1, <1>2, <2>1
  <2>3. /\ Append(q, s) \in Seq(live) /\ Len(Append(q, s)) = k + 1
        /\ Append(q, s)[k + 1] = s /\ \A n \in 1 .. k : Append(q, s)[n] = q[n]
    BY <2>2, AppendProperties
  <2>4. DOMAIN Append(q, s) = 1 .. k + 1
    BY <2>3
  <2> QED
    BY <2>1, <2>2, <2>3, <2>4
<1>4. \A n \in 1 .. k + 1 : n \in 1 .. k \/ n = k + 1
  BY <1>2
<1>5. \A n \in 1 .. k : t.order[n] # s /\ n \in 1 .. k + 1 /\ n < k + 1
  BY <1>2 DEF ToSet
<1>6. ASSUME NEW n \in 1 .. k + 1, NEW m \in 1 .. k + 1, u.order[n] = u.order[m] PROVE n = m
  <2>1. CASE n \in 1 .. k /\ m \in 1 .. k
    <3>1. t.order[n] = t.order[m]
      BY <1>3, <1>6, <2>1
    <3> QED
      BY <1>2, <2>1, <3>1 DEF OrderInv
  <2>2. CASE n \in 1 .. k /\ m = k + 1
    <3>1. t.order[n] = s /\ t.order[n] # s
      BY <1>3, <1>5, <1>6, <2>2
    <3> QED
      BY <3>1
  <2>3. CASE n = k + 1 /\ m \in 1 .. k
    <3>1. t.order[m] = s /\ t.order[m] # s
      BY <1>3, <1>5, <1>6, <2>3
    <3> QED
      BY <3>1
  <2> QED
    BY <1>4, <2>1, <2>2, <2>3
<1>7. ASSUME NEW n \in DOMAIN u.order, u.rows[u.order[n]].base # NoPos
      PROVE  \E m \in DOMAIN u.order : m < n /\ u.order[m] = u.rows[u.order[n]].base
  <2>1. CASE n \in 1 .. k
    <3>1. PICK m \in 1 .. k : m < n /\ t.order[m] = t.rows[t.order[n]].base
      BY <1>2, <1>3, <1>7, <2>1 DEF OrderInv
    <3> QED
      BY <1>3, <1>5, <2>1, <3>1
  <2>2. CASE n = k + 1
    <3>1. PICK m \in 1 .. k : t.order[m] = t.rows[s].base
      BY <1>2, <1>3, <1>7, <2>2 DEF ToSet
    <3> QED
      BY <1>3, <1>5, <2>2, <3>1
  <2> QED
    BY <1>3, <1>4, <2>1, <2>2
<1>8. Pos(u) = Pos(t) /\ \A r : oidAt(u, r) = oidAt(t, r)
  BY DEF Pos, oidAt
<1>9. /\ u.live \subseteq Pos(u)
      /\ \A oid \in u.needed : \E r \in u.live : oidAt(u, r) = oid
      /\ \A q, r \in u.live : oidAt(u, q) = oidAt(u, r) => q = r
  BY <1>8 DEF OrderInv
<1>10. \A r \in u.live : /\ u.rows[r].kind \in {"full", "ofs", "ref"}
                         /\ u.rows[r].base \in u.live \cup {NoPos}
                         /\ isDelta(u.rows[r]) => u.rows[r].base # NoPos
  BY DEF OrderInv
<1>11. /\ u.order \in Seq(u.live)
       /\ \A n, m \in DOMAIN u.order : u.order[n] = u.order[m] => n = m
  BY <1>3, <1>6
<1> QED
  BY <1>7, <1>9, <1>10, <1>11 DEF OrderInv

\* buildOutputOrder
LEMMA BuildOrderKeeps ==
  ASSUME RewriteInv(rewrite), buildOutputOrder
  PROVE  Continues(rewrite, rewrite')
<1>1. PICK t, u : t = rewrite /\ u = rewrite'
  OBVIOUS
<1>2. PICK done : done = ToSet(t.order)
  OBVIOUS
<1>3. PICK ready : ready = {s \in t.live \ done : t.rows[s].base \in done \cup {NoPos}}
  OBVIOUS
<1>4. PICK s, out : s = firstRow(t, ready) /\ out = [n \in DOMAIN t.order |-> outputEntry(t, n)]
  OBVIOUS
<1>5. /\ t.phase = "order"
      /\ u = IF ready # {} THEN [t EXCEPT !.order = Append(t.order, s)]
             ELSE IF done # t.live THEN fail(t, "topology-incomplete")
             ELSE [t EXCEPT !.phase = "done", !.out = out]
  BY <1>1, <1>2, <1>3, <1>4 DEF buildOutputOrder
<1>6. Table(t) /\ Progress(t, {}) /\ PhaseInv(t)
  BY <1>1, <1>5 DEF RewriteInv
<1>7. OrderInv(t)
  BY <1>5, <1>6 DEF PhaseInv
<1>8. DOMAIN t = Fields /\ t.batch \subseteq Pos(t) /\ t.queue \subseteq Pos(t) /\ TableType(t)
  BY <1>6 DEF Table, TableType
<1>9. CASE ready # {}
  <2>1. u = [t EXCEPT !.order = Append(t.order, s)]
    BY <1>5, <1>9
  <2>2. /\ SameLinks(t, u) /\ u.rows = t.rows /\ u.batch = t.batch /\ u.queue = t.queue /\ u.phase = "order"
        /\ u.live = t.live /\ u.packs = t.packs /\ u.needed = t.needed /\ u.order = Append(t.order, s)
    BY <1>5, <1>8, <2>1 DEF SameLinks, Fields
  <2>3. Reframes(t, u)
    BY <1>6, <2>2, Reframed
  <2>4. s \in ready
    <3>1. ready \subseteq Pos(t)
      BY <1>3, <1>7 DEF OrderInv
    <3> QED
      BY <1>4, <1>8, <1>9, <3>1, FirstRowIn
  <2>5. s \in t.live /\ s \notin ToSet(t.order) /\ t.rows[s].base \in ToSet(t.order) \cup {NoPos}
    BY <1>2, <1>3, <2>4
  <2>6. OrderInv(u)
    BY <1>7, <2>2, <2>5, OrderGrows
  <2>7. PhaseInv(u)
    BY <2>2, <2>6 DEF PhaseInv
  <2> QED
    BY <1>1, <2>3, <2>7, NotFailed DEF Continues, Reframes
<1>10. CASE ready = {} /\ done # t.live
  <2>1. u.phase = "failed" /\ u.live = t.live /\ u.rows = t.rows
    BY <1>5, <1>8, <1>10 DEF fail, Fields
  <2>2. PICK circle : circle = t.live \ done
    OBVIOUS
  <2>3. done \subseteq t.live
    <3>1. PICK q, live : q = t.order /\ live = t.live
      OBVIOUS
    <3>2. q \in Seq(live)
      BY <1>7, <3>1 DEF OrderInv
    <3>3. \A n \in DOMAIN q : q[n] \in live
      BY <3>2
    <3> QED
      BY <1>2, <3>1, <3>3 DEF ToSet
  <2>4. circle \in (SUBSET t.live) \ {{}}
    BY <1>10, <2>2, <2>3
  <2>5. ASSUME NEW r \in circle PROVE t.rows[r].base \in circle
    <3>1. r \in t.live \ done
      BY <2>2
    <3>2. t.rows[r].base \notin done \cup {NoPos}
      BY <1>3, <1>10, <3>1
    <3>3. t.rows[r].base \in t.live \cup {NoPos}
      BY <1>7, <3>1 DEF OrderInv
    <3> QED
      BY <2>2, <3>2, <3>3
  <2>6. Circular(u)
    BY <2>1, <2>4, <2>5 DEF Circular
  <2> QED
    BY <1>1, <2>1, <2>6 DEF Continues
<1>11. CASE ready = {} /\ done = t.live
  <2>1. u = [t EXCEPT !.phase = "done", !.out = out]
    BY <1>5, <1>11
  <2>2. /\ SameLinks(t, u) /\ u.rows = t.rows /\ u.batch = t.batch /\ u.queue = t.queue /\ u.phase = "done"
        /\ u.out = out /\ u.packs = t.packs /\ u.needed = t.needed
    BY <1>8, <2>1 DEF SameLinks, Fields
  <2>3. Reframes(t, u)
    BY <1>6, <2>2, Reframed
  <2>4. Finished(u)
    <3>1. ToSet(t.order) = t.live
      BY <1>2, <1>11
    <3> QED
      BY <1>4, <1>6, <1>7, <2>2, <3>1, OrderedFinishes
  <2>5. PhaseInv(u)
    BY <2>2, <2>4 DEF PhaseInv
  <2> QED
    BY <1>1, <2>3, <2>5, NotFailed DEF Continues, Reframes
<1> QED
  BY <1>9, <1>10, <1>11

LEMMA FindObjectIn ==
  ASSUME NEW packs \in Seq(Seq(Entry)), NEW oid
  PROVE  /\ findObject(packs, oid) # NoPos => /\ findObject(packs, oid) \in Positions(packs)
                                              /\ EntryAt(packs, findObject(packs, oid)).oid = oid
         /\ oid \in StoredOids(packs) => findObject(packs, oid) # NoPos
<1>1. PICK found : found = collectPackedObjectCandidates(packs, oid)
  OBVIOUS
<1>2. found \subseteq Positions(packs) /\ \A pos \in found : EntryAt(packs, pos).oid = oid /\ pos # NoPos
  BY <1>1, PositionParts DEF collectPackedObjectCandidates
<1>3. found # {} => First(found) \in found
  <2>1. found \subseteq Nat \X Nat
    BY <1>2, PositionParts
  <2> QED
    BY <2>1, FirstIn
<1>4. findObject(packs, oid) = IF found = {} THEN NoPos ELSE First(found)
  BY <1>1 DEF findObject
<1>5. oid \in StoredOids(packs) => found # {}
  BY <1>1 DEF StoredOids, collectPackedObjectCandidates
<1> QED
  BY <1>2, <1>3, <1>4, <1>5

\* beginRewrite
LEMMA BeginRewriteStarts ==
  ASSUME NEW packs, Snapshot(packs), NEW needed, needed \subseteq Oid, needed \subseteq StoredOids(packs),
         beginRewrite(packs, needed)
  PROVE  RewriteInv(rewrite') /\ (rewrite'.phase # "failed" => rewrite'.needed = needed)
<1>1. PICK P, found : P = Positions(packs) /\ found = {findObject(packs, oid) : oid \in needed}
  OBVIOUS
<1>2. PICK rows, dedup, owner, dead, since :
        /\ rows = [pos \in P |-> IF pos \in found THEN [noRow(pos) EXCEPT !.kind = "new"] ELSE noRow(pos)]
        /\ dedup = [pos \in P |-> IF pos \in found THEN pos ELSE NoPos]
        /\ owner = [oid \in Oid |-> NoPos]
        /\ dead = [pos \in P |-> NoPos]
        /\ since = [pos \in P |-> 0]
  OBVIOUS
<1>3. PICK t : t = [phase |-> "headers", reason |-> "", packs |-> packs, needed |-> needed,
                    rows |-> rows, dedup |-> dedup, owner |-> owner,
                    dead |-> dead, since |-> since, deaths |-> 0,
                    batch |-> found, queue |-> {}, retained |-> {},
                    safe |-> {}, at |-> 0, changed |-> FALSE, use |-> "",
                    live |-> {}, order |-> <<>>, out |-> <<>>]
  OBVIOUS
<1>4. PICK u : u = rewrite'
  OBVIOUS
<1>5. u = CASE NoPos \in found -> fail(t, "missing-needed-object")
            [] NoPos \notin found -> IF Len(packs) = 1 /\ found = P THEN passthroughSinglePack(t) ELSE t
  BY <1>1, <1>2, <1>3, <1>4 DEF beginRewrite
<1>6. /\ DOMAIN t = Fields /\ t.phase = "headers" /\ t.packs = packs /\ t.needed = needed /\ t.rows = rows
      /\ t.dedup = dedup /\ t.owner = owner /\ t.dead = dead /\ t.since = since /\ t.deaths = 0
      /\ t.batch = found /\ t.queue = {}
  BY <1>3 DEF Fields
<1>7. NoPos \notin found
  <2>1. packs \in Seq(Seq(Entry))
    BY DEF Snapshot
  <2>2. \A oid \in needed : findObject(packs, oid) # NoPos
    BY <2>1, FindObjectIn
  <2> QED
    BY <1>1, <2>2
<1>8. CASE NoPos \notin found
  <2>1. packs \in Seq(Seq(Entry))
    BY DEF Snapshot
  <2>2. found \subseteq P /\ \A oid \in needed : \E pos \in found : EntryAt(packs, pos).oid = oid
    BY <1>1, <1>8, <2>1, FindObjectIn
  <2>3. NoPos \notin P /\ Pos(t) = P /\ \A s : oidAt(t, s) = EntryAt(packs, s).oid
    BY <1>1, <1>6, <2>1, PositionParts DEF Pos, oidAt
  <2>4. \A s \in P : /\ t.rows[s].pos = s /\ t.rows[s].kind = (IF s \in found THEN "new" ELSE "none")
                     /\ t.rows[s].base = NoPos /\ t.rows[s].pinned = FALSE
                     /\ t.dedup[s] = (IF s \in found THEN s ELSE NoPos) /\ t.dead[s] = NoPos
    BY <1>2, <1>6 DEF noRow
  <2>5. TableType(t)
    <3>1. rows \in [P -> Row(P)]
      BY <1>2 DEF noRow, Row
    <3>2. dedup \in [P -> P \cup {NoPos}]
      BY <1>2
    <3>3. owner \in [Oid -> P \cup {NoPos}] /\ dead \in [P -> P \cup {NoPos}] /\ since \in [P -> Nat]
      BY <1>2
    <3> QED
      BY <1>6, <2>2, <2>3, <3>1, <3>2, <3>3 DEF TableType
  <2>6. Dead(t) = {}
    BY <1>2, <1>6 DEF Dead, Rows
  <2>7. Named(t)
    BY <1>6, <2>2, <2>3, <2>4 DEF Named, oidOf, header, oidAt, added
  <2>8. Owned(t) /\ Redirects(t) /\ Ordered(t)
    BY <1>2, <1>6, <2>6 DEF Owned, Redirects, Ordered
  <2>9. Edges(t)
    BY <2>3, <2>4 DEF Edges, EdgeRight, isDelta
  <2>10. Table(t) /\ Progress(t, {})
    <3>1. Progress(t, {})
      BY <1>6, <2>3, <2>4 DEF Progress, ReadOrQueued, isDelta
    <3> QED
      BY <2>5, <2>7, <2>8, <2>9, <3>1 DEF Table
  <2>11. CASE Len(packs) = 1 /\ found = P
    <3>1. u = passthroughSinglePack(t)
      BY <1>5, <1>8, <2>11
    <3>2. /\ SameLinks(t, u) /\ u.rows = t.rows /\ u.batch = t.batch /\ u.queue = t.queue /\ u.phase = "done"
          /\ u.out = t.packs[1] /\ u.packs = t.packs /\ u.needed = t.needed
      BY <1>6, <2>2, <2>3, <3>1 DEF SameLinks, passthroughSinglePack, Fields
    <3>3. Reframes(t, u)
      BY <2>10, <3>2, Reframed
    <3>4. Finished(u)
      <4>1. \A oid \in t.needed : \E s \in Pos(t) : oidAt(t, s) = oid
        BY <2>7 DEF Named
      <4> QED
        BY <1>6, <2>11, <3>2, <4>1, PassthroughFinishes
    <3>5. PhaseInv(u)
      BY <3>2, <3>4 DEF PhaseInv
    <3> QED
      BY <1>4, <1>6, <3>2, <3>3, <3>5 DEF RewriteInv, Reframes
  <2>12. CASE ~(Len(packs) = 1 /\ found = P)
    <3>1. u = t
      BY <1>5, <1>8, <2>12
    <3>2. PhaseInv(t)
      BY <1>6 DEF PhaseInv
    <3> QED
      BY <1>4, <1>6, <2>10, <3>1, <3>2 DEF RewriteInv
  <2> QED
    BY <2>11, <2>12
<1> QED
  BY <1>7, <1>8

\* Every step of a rewrite.
LEMMA RewriteStepKeeps ==
  ASSUME RewriteInv(rewrite), RewriteStep
  PROVE  RewriteInv(rewrite') /\ (rewrite'.phase # "failed" => rewrite'.needed = rewrite.needed)
<1>1. Continues(rewrite, rewrite')
  BY ProcessHeaderKeeps, DrainSecondaryKeeps, PruneKeeps, CollectRetainedKeeps, ResolveRetainedKeeps,
     CollapseKeeps, CompactKeeps, BuildOrderKeeps DEF RewriteStep
<1> QED
  BY <1>1 DEF Continues, RewriteInv


-----------------------------------------------------------------------------
(* The jobs of a repository's packs *)

\* Entry v of a read's first candidates is a delta, and its first base is in S.
LeadsInto(packs, v, S) ==
    LET e == EntryAt(packs, v)
    IN  /\ kindOf(e) # "full"
        /\ kindOf(e) = "ofs" => <<v[1], e.ofs>> \in S
        /\ kindOf(e) = "ref" => findObject(packs, e.ref) \in S

ReadFields == {"phase", "oid", "inflight", "visited", "pos"}

\* The entries a read has visited lead from one to the next, up to the open one.
ReadInv(r, packs) ==
    /\ DOMAIN r = ReadFields
    /\ r.phase \in {"open", "found", "threw", "waiting"}
    /\ r.visited \subseteq Positions(packs)
    /\ r.phase \in {"open", "threw"} =>
          /\ r.pos \in Positions(packs)
          /\ findObject(packs, r.oid) \in r.visited \cup {r.pos}
          /\ \A v \in r.visited : LeadsInto(packs, v, r.visited \cup {r.pos})
    /\ r.phase = "threw" => r.pos \in r.visited

PushInv ==
    /\ rewrite = NoRewrite /\ read = NoRead
    /\ index.slot = 0 /\ GoodPack(index.pack) /\ IndexInv(index, StoredOids(catalog))

\* The output is indexed when the rewrite has ended.
CompactInv ==
    /\ read = NoRead
    /\ job.lo \in DOMAIN catalog /\ job.hi \in DOMAIN catalog /\ job.lo < job.hi
    /\ RewriteInv(rewrite)
    /\ rewrite.phase # "failed" => rewrite.needed = StoredOids(SubSeq(catalog, job.lo, job.hi))
    /\ index # NoIndex => /\ rewrite.phase = "done"
                          /\ index.slot = 0 /\ index.pack = rewrite.out
                          /\ IndexInv(index, StoredOids(catalog))

BackfillInv ==
    /\ rewrite = NoRewrite /\ read = NoRead
    /\ index.slot \in DOMAIN catalog /\ index.pack = catalog[index.slot]
    /\ IndexInv(index, DecodableOids(RemoveAt(catalog, index.slot)))

FetchInv == index = NoIndex /\ read = NoRead /\ RewriteInv(rewrite)

RequestInv == index = NoIndex /\ rewrite = NoRewrite /\ ReadInv(read, catalog)

IdleInv == index = NoIndex /\ rewrite = NoRewrite /\ read = NoRead

JobInv ==
    /\ job.kind \in {"none", "push", "compact", "backfill", "fetch", "read"}
    /\ job.kind = "none" => IdleInv
    /\ job.kind = "push" => PushInv
    /\ job.kind = "compact" => CompactInv
    /\ job.kind = "backfill" => BackfillInv
    /\ job.kind = "fetch" => FetchInv
    /\ job.kind = "read" => RequestInv

PackInv == CatalogInv(catalog) /\ JobInv

-----------------------------------------------------------------------------
(* The passes of the indexer, job by job *)

\* What a git client sends decodes once its thin bases are at hand.
LEMMA ClientPacksGood ==
  ASSUME NEW pack \in ClientPacks
  PROVE  GoodPack(pack)
<1>1. MaxEntries \in Nat /\ ThinBases \subseteq Oid
  BY BoundsAssumption
<1>2. PICK n \in 1 .. MaxEntries : pack \in [1 .. n -> entriesAt(n)]
  BY DEF ClientPacks
<1>3. n \in Nat
  BY <1>1
<1>4. entriesAt(n) \subseteq Entry
  BY <1>1, <1>3 DEF entriesAt, Entry
<1>5. pack \in Seq(Entry) /\ DOMAIN pack = 1 .. n
  BY <1>2, <1>3, <1>4
<1>6. \A i \in DOMAIN pack : pack[i].ref # pack[i].oid /\ (pack[i].ofs = 0 \/ pack[i].ref = NoOid)
  BY <1>2, <1>5 DEF entriesAt
<1> QED
  BY <1>5, <1>6 DEF ClientPacks, GoodPack, SoundPack

\* A pass that is under way, and the bases it may find in other packs.
LEMMA PassOf ==
  ASSUME PackInv, Indexing
  PROVE  \E ext : /\ ext = DecodableOids(externalPacks)
                  /\ IndexInv(index, ext)
                  /\ GoodPack(index.pack)
                  /\ job.kind \in {"push", "compact", "backfill"}
                  /\ job.kind # "push" =>
                       \A i \in DOMAIN index.pack : index.pack[i].ref \in {NoOid} \cup Oids(index.pack) \cup ext
<1>1. index # NoIndex
  BY DEF Indexing, NoIndex
<1>2. job.kind \in {"push", "compact", "backfill"}
  BY <1>1 DEF PackInv, JobInv, IdleInv, FetchInv, RequestInv
<1>3. catalog \in Seq(Seq(Entry)) /\ DecodableOids(catalog) = StoredOids(catalog)
  BY StandingStored DEF PackInv, CatalogInv
<1>4. CASE job.kind = "push"
  <2>1. PushInv
    BY <1>4 DEF PackInv, JobInv
  <2>2. externalPacks = catalog
    BY <2>1 DEF PushInv, externalPacks
  <2> QED
    BY <1>3, <1>4, <2>1, <2>2 DEF PushInv
<1>5. CASE job.kind = "compact"
  <2>1. CompactInv
    BY <1>5 DEF PackInv, JobInv
  <2>2. externalPacks = catalog
    BY <1>1, <2>1 DEF CompactInv, externalPacks
  <2>3. Finished(rewrite) /\ index.pack = rewrite.out /\ IndexInv(index, StoredOids(catalog))
    BY <1>1, <2>1 DEF CompactInv, RewriteInv, PhaseInv
  <2> QED
    BY <1>3, <1>5, <2>2, <2>3 DEF Finished
<1>6. CASE job.kind = "backfill"
  <2>1. BackfillInv
    BY <1>6 DEF PackInv, JobInv
  <2>2. index.slot \in DOMAIN catalog /\ index.slot # 0
    BY <1>3, <2>1 DEF BackfillInv
  <2>3. externalPacks = RemoveAt(catalog, index.slot)
    BY <2>2 DEF externalPacks
  <2>4. GoodPack(catalog[index.slot])
    BY <1>3, <2>2 DEF PackInv, CatalogInv, Standing
  <2>5. \A i \in DOMAIN catalog[index.slot] :
           catalog[index.slot][i].ref \in {NoOid} \cup Oids(catalog[index.slot])
                                            \cup DecodableOids(RemoveAt(catalog, index.slot))
    BY <2>2, BackfillHasBases DEF PackInv
  <2> QED
    BY <1>6, <2>1, <2>3, <2>4, <2>5 DEF BackfillInv
<1> QED
  BY <1>2, <1>4, <1>5, <1>6

\* IndexStep
LEMMA IndexJob ==
  ASSUME PackInv, IndexStep, UNCHANGED <<catalog, rewrite, job, read, spent>>
  PROVE  PackInv'
<1>1. index.phase \in {"main", "deferred"}
  BY DEF IndexStep, mainPass, endMainPass, drainReadyDeferred, externalFallback, endIndex
<1>2. PICK ext : /\ ext = DecodableOids(externalPacks) /\ IndexInv(index, ext)
                 /\ job.kind \in {"push", "compact", "backfill"}
  BY <1>1, PassOf DEF Indexing
<1>3. IndexInv(index', ext) /\ index'.pack = index.pack /\ index'.slot = index.slot
  BY <1>2, IndexStepKeeps
<1>4. index # NoIndex
  BY <1>1 DEF NoIndex
<1>5. CatalogInv(catalog) /\ catalog \in Seq(Seq(Entry)) /\ DecodableOids(catalog) = StoredOids(catalog)
  BY StandingStored DEF PackInv, CatalogInv
<1>6. CASE job.kind = "push"
  <2>1. PushInv
    BY <1>6 DEF PackInv, JobInv
  <2>2. ext = StoredOids(catalog)
    BY <1>2, <1>5, <2>1 DEF PushInv, externalPacks
  <2>3. PushInv'
    BY <1>3, <2>1, <2>2 DEF PushInv
  <2> QED
    BY <1>5, <1>6, <2>3 DEF PackInv, JobInv
<1>7. CASE job.kind = "compact"
  <2>1. CompactInv
    BY <1>7 DEF PackInv, JobInv
  <2>2. ext = StoredOids(catalog)
    BY <1>2, <1>4, <1>5, <2>1 DEF CompactInv, externalPacks
  <2>3. CompactInv'
    BY <1>3, <1>4, <2>1, <2>2 DEF CompactInv
  <2> QED
    BY <1>5, <1>7, <2>3 DEF PackInv, JobInv
<1>8. CASE job.kind = "backfill"
  <2>1. BackfillInv
    BY <1>8 DEF PackInv, JobInv
  <2>2. index.slot # 0
    BY <1>5, <2>1 DEF BackfillInv
  <2>3. ext = DecodableOids(RemoveAt(catalog, index.slot))
    BY <1>2, <2>2 DEF externalPacks
  <2>4. BackfillInv'
    BY <1>3, <2>1, <2>3 DEF BackfillInv
  <2> QED
    BY <1>5, <1>8, <2>4 DEF PackInv, JobInv
<1> QED
  BY <1>2, <1>6, <1>7, <1>8

\* RewriteStep
LEMMA RewriteJob ==
  ASSUME PackInv, RewriteStep, UNCHANGED <<catalog, index, job, read, spent>>
  PROVE  PackInv'
<1>1. rewrite.phase \in {"headers", "prune", "retained", "repair", "collapse", "compact", "order"}
  BY DEF RewriteStep, processHeader, drainSecondaryQueue, pruneUnsafeDeadSlotRedirects,
         collectRetainedRedirects, resolveRetainedRedirect, collapseUnsafeRedirectOwners,
         compactDeadSlots, buildOutputOrder
<1>2. rewrite # NoRewrite
  BY <1>1 DEF NoRewrite
<1>3. job.kind \in {"compact", "fetch"}
  BY <1>2 DEF PackInv, JobInv, IdleInv, PushInv, BackfillInv, RequestInv
<1>4. CASE job.kind = "compact"
  <2>1. CompactInv /\ CatalogInv(catalog)
    BY <1>4 DEF PackInv, JobInv
  <2>2. RewriteInv(rewrite') /\ (rewrite'.phase # "failed" => rewrite'.needed = rewrite.needed)
    BY <2>1, RewriteStepKeeps DEF CompactInv
  <2>3. index = NoIndex
    BY <1>1, <2>1 DEF CompactInv
  <2>4. CompactInv'
    BY <1>1, <2>1, <2>2, <2>3 DEF CompactInv
  <2> QED
    BY <1>4, <2>1, <2>4 DEF PackInv, JobInv
<1>5. CASE job.kind = "fetch"
  <2>1. FetchInv /\ CatalogInv(catalog)
    BY <1>5 DEF PackInv, JobInv
  <2>2. RewriteInv(rewrite')
    BY <2>1, RewriteStepKeeps DEF FetchInv
  <2>3. FetchInv'
    BY <2>1, <2>2 DEF FetchInv
  <2> QED
    BY <1>5, <2>1, <2>3 DEF PackInv, JobInv
<1> QED
  BY <1>3, <1>4, <1>5

\* A job that ends leaves nothing behind.
LEMMA JobEnds ==
  ASSUME job' = NoJob, index' = NoIndex, rewrite' = NoRewrite, read' = NoRead
  PROVE  JobInv'
BY DEF JobInv, IdleInv, NoJob

\* pushPack
LEMMA PushBegins ==
  ASSUME PackInv, pushPack
  PROVE  PackInv'
<1>1. IdleInv /\ CatalogInv(catalog)
  BY DEF PackInv, JobInv, pushPack, NoJob
<1>2. PICK pack \in ClientPacks : beginIndex(pack, 0)
  BY DEF pushPack
<1>3. GoodPack(pack)
  BY ClientPacksGood
<1>4. IndexInv(index', StoredOids(catalog)) /\ index'.pack = pack /\ index'.slot = 0
  BY <1>2, <1>3, BeginIndexStarts
<1>5. UNCHANGED <<catalog, rewrite, read>> /\ job'.kind = "push"
  BY DEF pushPack
<1>6. PushInv'
  BY <1>1, <1>3, <1>4, <1>5 DEF PushInv, IdleInv
<1> QED
  BY <1>1, <1>5, <1>6 DEF PackInv, JobInv

\* endPush
LEMMA PushEnds ==
  ASSUME PackInv, endPush
  PROVE  PackInv'
<1>1. PushInv /\ CatalogInv(catalog)
  BY DEF PackInv, JobInv, endPush
<1>2. JobInv'
  BY <1>1, JobEnds DEF PushInv, endPush
<1>3. CASE index.phase = "indexed"
  <2>1. \A i \in DOMAIN index.pack : index.pack[i].ref \in {NoOid} \cup Oids(index.pack) \cup StoredOids(catalog)
    BY <1>1, <1>3, IndexedHasBases DEF PushInv
  <2>2. CatalogInv(<<index.pack>> \o catalog)
    BY <1>1, <2>1, PushedStands DEF PushInv
  <2> QED
    BY <1>2, <1>3, <2>2 DEF PackInv, endPush
<1>4. CASE index.phase # "indexed"
  BY <1>1, <1>2, <1>4 DEF PackInv, endPush
<1> QED
  BY <1>3, <1>4

\* The sources of a compaction and the other packs.
LEMMA CompactSnapshot ==
  ASSUME NEW packs, CatalogInv(packs), NEW lo \in DOMAIN packs, NEW hi \in DOMAIN packs, lo < hi
  PROVE  LET sources == SubSeq(packs, lo, hi)
             others  == SubSeq(packs, 1, lo - 1) \o SubSeq(packs, hi + 1, Len(packs))
         IN  /\ Snapshot(sources \o others)
             /\ StoredOids(sources) \subseteq Oid
             /\ StoredOids(sources) \subseteq StoredOids(sources \o others)
<1>1. PICK n, T : n \in Nat /\ T = Seq(Entry) /\ n = Len(packs) /\ DOMAIN packs = 1 .. n /\ packs \in Seq(T)
  <2>1. PICK T : T = Seq(Entry)
    OBVIOUS
  <2>2. packs \in Seq(T)
    BY <2>1 DEF CatalogInv
  <2>3. Len(packs) \in Nat /\ DOMAIN packs = 1 .. Len(packs)
    BY <2>2, LenProperties
  <2> QED
    BY <2>1, <2>2, <2>3
<1>2. PICK k0, k1, c : k0 = lo - 1 /\ k1 = hi + 1 /\ c = hi - lo + 1
  OBVIOUS
<1>3. lo \in 1 .. n /\ hi \in 1 .. n /\ lo \in Nat /\ hi \in Nat /\ n \in Nat
  BY <1>1
<1>4. /\ lo \in 1 .. n /\ hi \in 1 .. n /\ lo \in 1 .. n + 1 /\ hi \in lo - 1 .. n
      /\ 1 \in 1 .. n + 1 /\ k0 \in 1 - 1 .. n /\ k1 \in 1 .. n + 1 /\ n \in k1 - 1 .. n
      /\ k0 - 1 + 1 = k0 /\ k0 \in Nat /\ c \in Nat /\ c > 1 /\ n - k1 + 1 \in Nat
  BY <1>3, <1>2
<1>5. PICK sources, a, b : sources = SubSeq(packs, lo, hi) /\ a = SubSeq(packs, 1, k0) /\ b = SubSeq(packs, k1, n)
  OBVIOUS
<1>6. PICK d \in Nat : d = n - k1 + 1
  BY <1>4
<1>7. sources \in Seq(T) /\ Len(sources) = c /\ \A i \in 1 .. c : sources[i] = packs[lo + i - 1]
  <2>0. packs \in Seq(T) /\ lo \in 1 .. Len(packs) + 1 /\ hi \in lo - 1 .. Len(packs)
    BY <1>1, <1>4
  <2>1. sources \in Seq(T) /\ Len(sources) = hi - lo + 1 /\ \A i \in 1 .. hi - lo + 1 : sources[i] = packs[lo + i - 1]
    BY <1>5, <2>0, SubSeqParts
  <2> QED
    BY <1>2, <2>1
<1>8. a \in Seq(T) /\ Len(a) = k0 /\ \A i \in 1 .. k0 : a[i] = packs[1 + i - 1]
  <2>1. a \in Seq(T) /\ Len(a) = k0 - 1 + 1 /\ \A i \in 1 .. k0 - 1 + 1 : a[i] = packs[1 + i - 1]
    BY <1>1, <1>4, <1>5, SubSeqParts
  <2> QED
    BY <1>4, <2>1
<1>9. b \in Seq(T) /\ Len(b) = d /\ \A i \in 1 .. d : b[i] = packs[k1 + i - 1]
  <2>0. packs \in Seq(T) /\ k1 \in 1 .. Len(packs) + 1 /\ n \in k1 - 1 .. Len(packs)
    BY <1>1, <1>4
  <2>1. b \in Seq(T) /\ Len(b) = n - k1 + 1 /\ \A i \in 1 .. n - k1 + 1 : b[i] = packs[k1 + i - 1]
    BY <1>5, <2>0, SubSeqParts
  <2> QED
    BY <1>6, <2>1
<1>10. PICK others : others = a \o b
  OBVIOUS
<1>11. PICK m \in Nat : m = k0 + d
  BY <1>4
<1>12. others \in Seq(T) /\ Len(others) = m /\ \A i \in 1 .. m : others[i] = IF i <= k0 THEN a[i] ELSE b[i - k0]
  <2>1. a \in Seq(T) /\ b \in Seq(T) /\ k0 \in Nat /\ k0 = Len(a) /\ d = Len(b)
    BY <1>4, <1>8, <1>9
  <2>2. a \o b \in Seq(T) /\ Len(a \o b) = k0 + d /\ \A i \in 1 .. k0 + d : (a \o b)[i] = IF i <= k0 THEN a[i] ELSE b[i - k0]
    BY <2>1, ConcatParts
  <2> QED
    BY <1>10, <1>11, <2>2
<1>13. PICK all : all = sources \o others
  OBVIOUS
<1>14. /\ all \in Seq(T) /\ Len(all) = c + m /\ DOMAIN all = 1 .. c + m
       /\ \A i \in 1 .. c + m : all[i] = IF i <= c THEN sources[i] ELSE others[i - c]
  <2>1. sources \in Seq(T) /\ others \in Seq(T) /\ c \in Nat /\ c = Len(sources) /\ m = Len(others)
    BY <1>4, <1>7, <1>11, <1>12
  <2>2. /\ sources \o others \in Seq(T) /\ Len(sources \o others) = c + m /\ DOMAIN (sources \o others) = 1 .. c + m
        /\ \A i \in 1 .. c + m : (sources \o others)[i] = IF i <= c THEN sources[i] ELSE others[i - c]
    BY <2>1, ConcatParts
  <2> QED
    BY <1>13, <2>2
<1>15. \A i \in 1 .. c : \E p \in DOMAIN packs : sources[i] = packs[p]
  <2> TAKE i \in 1 .. c
  <2>1. lo + i - 1 \in 1 .. n
    BY <1>2, <1>4
  <2> QED
    BY <1>1, <1>7, <2>1
<1>16. \A i \in 1 .. k0 : \E p \in DOMAIN packs : a[i] = packs[p]
  <2> TAKE i \in 1 .. k0
  <2>1. 1 + i - 1 \in 1 .. n
    BY <1>4
  <2> QED
    BY <1>1, <1>8, <2>1
<1>17. \A i \in 1 .. d : \E p \in DOMAIN packs : b[i] = packs[p]
  <2> TAKE i \in 1 .. d
  <2>1. k1 + i - 1 \in 1 .. n
    BY <1>4, <1>6
  <2> QED
    BY <1>1, <1>9, <2>1
<1>18. \A i \in 1 .. m : \E p \in DOMAIN packs : others[i] = packs[p]
  <2> TAKE i \in 1 .. m
  <2>1. CASE i <= k0
    <3>1. i \in 1 .. k0 /\ others[i] = a[i]
      BY <1>4, <1>12, <2>1
    <3> QED
      BY <1>16, <3>1
  <2>2. CASE ~(i <= k0)
    <3>1. i - k0 \in 1 .. d
      BY <1>4, <1>11, <2>2
    <3>2. others[i] = b[i - k0]
      BY <1>12, <2>2
    <3> QED
      BY <1>17, <3>1, <3>2
  <2> QED
    BY <2>1, <2>2
<1>19. \A i \in DOMAIN all : \E p \in DOMAIN packs : all[i] = packs[p]
  <2> SUFFICES ASSUME NEW i \in 1 .. c + m PROVE \E p \in DOMAIN packs : all[i] = packs[p]
    BY <1>14
  <2>0. i \in Nat /\ c \in Nat /\ m \in Nat /\ 1 <= i /\ i <= c + m
    BY <1>4, <1>11
  <2>1. CASE i <= c
    <3>1. i \in 1 .. c /\ all[i] = sources[i]
      BY <1>14, <2>0, <2>1
    <3> QED
      BY <1>15, <3>1
  <2>2. CASE ~(i <= c)
    <3>1. i - c \in 1 .. m
      BY <2>0, <2>2
    <3>2. all[i] = others[i - c]
      BY <1>14, <2>2
    <3> QED
      BY <1>18, <3>1, <3>2
  <2> QED
    BY <2>1, <2>2
<1>20. \A p \in DOMAIN packs : \E i \in DOMAIN all : all[i] = packs[p]
  <2> SUFFICES ASSUME NEW p \in 1 .. n PROVE \E i \in 1 .. c + m : all[i] = packs[p]
    BY <1>1, <1>14
  <2>0. p \in Nat /\ c \in Nat /\ m \in Nat /\ k0 \in Nat /\ d \in Nat /\ m = k0 + d /\ 1 <= p /\ p <= n
    BY <1>3, <1>4, <1>11
  <2>1. ASSUME NEW j \in 1 .. m, others[j] = packs[p] PROVE \E i \in 1 .. c + m : all[i] = packs[p]
    <3>1. c + j \in 1 .. c + m /\ ~(c + j <= c) /\ (c + j) - c = j
      BY <2>0
    <3>2. all[c + j] = others[(c + j) - c]
      BY <1>14, <3>1
    <3> QED
      BY <2>1, <3>1, <3>2
  <2>2. CASE p < lo
    <3>1. p \in 1 .. k0 /\ 1 + p - 1 = p
      BY <1>2, <1>3, <2>0, <2>2
    <3>2. p \in 1 .. m /\ p <= k0
      BY <2>0, <3>1
    <3>3. others[p] = a[p] /\ a[p] = packs[1 + p - 1]
      BY <1>8, <1>12, <3>1, <3>2
    <3> QED
      BY <2>1, <3>1, <3>2, <3>3
  <2>3. CASE lo <= p /\ p <= hi
    <3>1. PICK i : i = p - lo + 1
      OBVIOUS
    <3>2. i \in 1 .. c /\ lo + i - 1 = p /\ i <= c /\ i \in 1 .. c + m
      BY <1>2, <1>3, <2>0, <2>3, <3>1
    <3>3. all[i] = sources[i] /\ sources[i] = packs[lo + i - 1]
      BY <1>7, <1>14, <3>2
    <3> QED
      BY <3>2, <3>3
  <2>4. CASE hi < p
    <3>1. PICK i, j : i = p - k1 + 1 /\ j = k0 + i
      OBVIOUS
    <3>2. i \in 1 .. d /\ k1 + i - 1 = p /\ j \in 1 .. m /\ ~(j <= k0) /\ j - k0 = i
      BY <1>2, <1>3, <1>6, <2>0, <2>4, <3>1
    <3>3. others[j] = b[j - k0] /\ b[i] = packs[k1 + i - 1]
      BY <1>9, <1>12, <3>2
    <3> QED
      BY <2>1, <3>2, <3>3
  <2> QED
    BY <1>3, <2>0, <2>2, <2>3, <2>4
<1>21. Len(all) # 1
  BY <1>4, <1>14
<1>22. Snapshot(all)
  <2>1. \A p \in DOMAIN packs : GoodPack(packs[p])
    <3> TAKE p \in DOMAIN packs
    <3>1. p > 0
      BY <1>1
    <3> QED
      BY <3>1 DEF CatalogInv, Standing
  <2>2. \A i \in DOMAIN all : GoodPack(all[i])
    BY <1>19, <2>1
  <2>3. StoredOids(all) \subseteq DecodableOids(all)
    <3>1. packs \in Seq(Seq(Entry)) /\ Decodable(packs) = Positions(packs) /\ all \in Seq(Seq(Entry))
      BY <1>1, <1>14, StandingStored DEF CatalogInv
    <3> QED
      BY <1>19, <1>20, <3>1, ReorderedDecodes
  <2> QED
    BY <1>1, <1>14, <1>21, <2>2, <2>3 DEF Snapshot, GoodPack
<1>23. StoredOids(sources) \subseteq Oid
  <2>1. \A pos \in Positions(sources) : EntryAt(sources, pos).oid \in Oid
    BY <1>1, <1>7, PositionParts DEF Entry
  <2> QED
    BY <2>1 DEF StoredOids
<1>24. StoredOids(sources) \subseteq StoredOids(all)
  <2>1. ASSUME NEW pos \in Positions(sources)
        PROVE  pos \in Positions(all) /\ EntryAt(all, pos) = EntryAt(sources, pos)
    <3>1. /\ pos[1] \in DOMAIN sources /\ pos[2] \in DOMAIN sources[pos[1]] /\ pos = <<pos[1], pos[2]>>
          /\ EntryAt(sources, pos) = sources[pos[1]][pos[2]]
      BY <1>1, <1>7, PositionParts
    <3>2. pos[1] \in 1 .. c
      BY <1>1, <1>7, <3>1
    <3>3. pos[1] \in DOMAIN all /\ all[pos[1]] = sources[pos[1]]
      BY <1>4, <1>11, <1>14, <3>2
    <3> QED
      BY <3>1, <3>3, PositionIn
  <2> QED
    BY <2>1 DEF StoredOids
<1> QED
  BY <1>1, <1>2, <1>5, <1>10, <1>13, <1>22, <1>23, <1>24

\* compactPacks
LEMMA CompactBegins ==
  ASSUME PackInv, compactPacks
  PROVE  PackInv'
<1>1. IdleInv /\ CatalogInv(catalog)
  BY DEF PackInv, JobInv, compactPacks, NoJob
<1>2. PICK lo \in DOMAIN catalog, hi \in DOMAIN catalog :
        /\ lo < hi
        /\ beginRewrite(SubSeq(catalog, lo, hi) \o (SubSeq(catalog, 1, lo - 1) \o SubSeq(catalog, hi + 1, Len(catalog))),
                        StoredOids(SubSeq(catalog, lo, hi)))
        /\ job' = [kind |-> "compact", lo |-> lo, hi |-> hi]
  BY DEF compactPacks
<1>3. PICK all, needed :
        /\ all = SubSeq(catalog, lo, hi) \o (SubSeq(catalog, 1, lo - 1) \o SubSeq(catalog, hi + 1, Len(catalog)))
        /\ needed = StoredOids(SubSeq(catalog, lo, hi))
  OBVIOUS
<1>4. Snapshot(all) /\ needed \subseteq Oid /\ needed \subseteq StoredOids(all)
  BY <1>1, <1>2, <1>3, CompactSnapshot
<1>5. RewriteInv(rewrite') /\ (rewrite'.phase # "failed" => rewrite'.needed = needed)
  BY <1>2, <1>3, <1>4, BeginRewriteStarts
<1>6. UNCHANGED <<catalog, index, read>> /\ job'.kind = "compact" /\ job'.lo = lo /\ job'.hi = hi
  BY <1>2 DEF compactPacks
<1>7. CompactInv'
  BY <1>1, <1>2, <1>3, <1>5, <1>6 DEF CompactInv, IdleInv
<1> QED
  BY <1>1, <1>6, <1>7 DEF PackInv, JobInv

\* indexCompacted
LEMMA CompactIndexes ==
  ASSUME PackInv, indexCompacted
  PROVE  PackInv'
<1>1. CompactInv /\ CatalogInv(catalog)
  BY DEF PackInv, JobInv, indexCompacted
<1>2. Finished(rewrite)
  BY <1>1 DEF CompactInv, RewriteInv, PhaseInv, indexCompacted
<1>3. beginIndex(rewrite.out, 0) /\ GoodPack(rewrite.out)
  BY <1>2 DEF indexCompacted, Finished
<1>4. IndexInv(index', StoredOids(catalog)) /\ index'.pack = rewrite.out /\ index'.slot = 0
  BY <1>3, BeginIndexStarts
<1>5. UNCHANGED <<catalog, rewrite, job, read>> /\ rewrite.phase = "done" /\ job.kind = "compact"
  BY DEF indexCompacted
<1>6. CompactInv'
  BY <1>1, <1>4, <1>5 DEF CompactInv
<1> QED
  BY <1>1, <1>5, <1>6 DEF PackInv, JobInv

\* endCompaction
LEMMA CompactEnds ==
  ASSUME PackInv, endCompaction
  PROVE  PackInv'
<1>1. CompactInv /\ CatalogInv(catalog)
  BY DEF PackInv, JobInv, endCompaction
<1>2. JobInv'
  BY <1>1, JobEnds DEF CompactInv, endCompaction
<1>3. CASE index.phase = "indexed"
  <2>1. index # NoIndex
    BY <1>3 DEF NoIndex
  <2>2. Finished(rewrite) /\ index.pack = rewrite.out
        /\ rewrite.needed = StoredOids(SubSeq(catalog, job.lo, job.hi))
    BY <1>1, <2>1 DEF CompactInv, RewriteInv, PhaseInv
  <2>3. job.lo \in DOMAIN catalog /\ job.hi \in DOMAIN catalog /\ job.lo < job.hi
    BY <1>1 DEF CompactInv
  <2>4. /\ GoodPack(rewrite.out) /\ \A i \in DOMAIN rewrite.out : rewrite.out[i].ref \in {NoOid} \cup Oids(rewrite.out)
        /\ StoredOids(SubSeq(catalog, job.lo, job.hi)) \subseteq Oids(rewrite.out)
    BY <2>2 DEF Finished
  <2>5. CatalogInv(SubSeq(catalog, 1, job.lo - 1) \o <<rewrite.out>> \o SubSeq(catalog, job.hi + 1, Len(catalog)))
    BY <1>1, <2>3, <2>4, ReplacedStands
  <2> QED
    BY <1>2, <1>3, <2>2, <2>5 DEF PackInv, endCompaction
<1>4. CASE index.phase # "indexed"
  BY <1>1, <1>2, <1>4 DEF PackInv, endCompaction
<1> QED
  BY <1>3, <1>4

\* backfillPack
LEMMA BackfillBegins ==
  ASSUME PackInv, backfillPack
  PROVE  PackInv'
<1>1. IdleInv /\ CatalogInv(catalog)
  BY DEF PackInv, JobInv, backfillPack, NoJob
<1>2. PICK slot \in DOMAIN catalog : beginIndex(catalog[slot], slot)
  BY DEF backfillPack
<1>3. slot \in Nat /\ GoodPack(catalog[slot])
  BY <1>1 DEF CatalogInv, Standing
<1>4. IndexInv(index', DecodableOids(RemoveAt(catalog, slot))) /\ index'.pack = catalog[slot] /\ index'.slot = slot
  BY <1>2, <1>3, BeginIndexStarts
<1>5. UNCHANGED <<catalog, rewrite, read>> /\ job'.kind = "backfill"
  BY DEF backfillPack
<1>6. BackfillInv'
  BY <1>1, <1>4, <1>5 DEF BackfillInv, IdleInv
<1> QED
  BY <1>1, <1>5, <1>6 DEF PackInv, JobInv

\* endBackfill, endFetch and endRead change no pack.
LEMMA OthersEnd ==
  ASSUME PackInv, endBackfill \/ endFetch \/ endRead
  PROVE  PackInv'
<1>1. CatalogInv(catalog) /\ catalog' = catalog
  BY DEF PackInv, endBackfill, endFetch, endRead
<1>2. CASE endBackfill
  <2>1. BackfillInv
    BY <1>2 DEF PackInv, JobInv, endBackfill
  <2> QED
    BY <1>1, <1>2, <2>1, JobEnds DEF PackInv, BackfillInv, endBackfill
<1>3. CASE endFetch
  <2>1. FetchInv
    BY <1>3 DEF PackInv, JobInv, endFetch
  <2> QED
    BY <1>1, <1>3, <2>1, JobEnds DEF PackInv, FetchInv, endFetch
<1>4. CASE endRead
  <2>1. read # NoRead
    BY <1>4 DEF endRead, NoRead
  <2>2. RequestInv
    BY <2>1 DEF PackInv, JobInv, IdleInv, PushInv, CompactInv, BackfillInv, FetchInv
  <2> QED
    BY <1>1, <1>4, <2>2, JobEnds DEF PackInv, RequestInv, endRead
<1> QED
  BY <1>2, <1>3, <1>4

\* fetchPack
LEMMA FetchBegins ==
  ASSUME PackInv, fetchPack
  PROVE  PackInv'
<1>1. IdleInv /\ CatalogInv(catalog) /\ catalog \in Seq(Seq(Entry))
  BY DEF PackInv, JobInv, fetchPack, NoJob, CatalogInv
<1>2. PICK needed \in SUBSET StoredOids(catalog) : beginRewrite(catalog, needed)
  BY DEF fetchPack
<1>3. needed \subseteq Oid
  <2>1. \A pos \in Positions(catalog) : EntryAt(catalog, pos).oid \in Oid
    BY <1>1, PositionParts DEF Entry
  <2> QED
    BY <1>2, <2>1 DEF StoredOids
<1>4. Snapshot(catalog)
  <2>1. \A p \in DOMAIN catalog : p > 0
    BY <1>1
  <2>2. \A p \in DOMAIN catalog : GoodPack(catalog[p])
    BY <1>1, <2>1 DEF CatalogInv, Standing
  <2>3. Standing(catalog, 0) /\ DecodableOids(catalog) = StoredOids(catalog)
    BY <1>1, StandingStored DEF CatalogInv
  <2> QED
    BY <1>1, <2>2, <2>3 DEF Snapshot, GoodPack
<1>5. RewriteInv(rewrite')
  BY <1>2, <1>3, <1>4, BeginRewriteStarts
<1>6. UNCHANGED <<catalog, index, read>> /\ job'.kind = "fetch"
  BY DEF fetchPack
<1>7. FetchInv'
  BY <1>1, <1>5, <1>6 DEF FetchInv, IdleInv
<1> QED
  BY <1>1, <1>6, <1>7 DEF PackInv, JobInv

\* An object that is stored, or the base of an entry of the catalog, is found.
LEMMA BaseStored ==
  ASSUME NEW packs, CatalogInv(packs), NEW pos \in Positions(packs)
  PROVE  LET e == EntryAt(packs, pos)
         IN  /\ e.ref # NoOid => e.ref \in StoredOids(packs)
             /\ kindOf(e) = "ofs" => <<pos[1], e.ofs>> \in Positions(packs)
<1>1. PICK p, i : /\ p = pos[1] /\ i = pos[2] /\ p \in DOMAIN packs /\ i \in DOMAIN packs[p] /\ p > 0
                  /\ EntryAt(packs, pos) = packs[p][i] /\ EntryAt(packs, pos) \in Entry
  BY PositionParts DEF CatalogInv
<1>2. /\ SoundPack(packs[p])
      /\ packs[p][i].ref \in {NoOid} \cup Oids(packs[p]) \cup UNION {Oids(packs[q]) : q \in {r \in DOMAIN packs : r > p}}
  BY <1>1 DEF CatalogInv, Standing, GoodPack
<1>3. \A q \in DOMAIN packs : Oids(packs[q]) \subseteq StoredOids(packs)
  BY StoredIn
<1>4. packs[p][i].ref # NoOid => packs[p][i].ref \in StoredOids(packs)
  BY <1>1, <1>2, <1>3
<1>5. ASSUME kindOf(packs[p][i]) = "ofs" PROVE <<p, packs[p][i].ofs>> \in Positions(packs)
  <2>1. packs[p][i].ofs # 0 /\ packs[p][i].ofs < i /\ packs[p][i].ofs \in Nat
    BY <1>1, <1>2, <1>5 DEF kindOf, SoundPack, Entry
  <2>2. packs[p] \in Seq(Entry)
    BY <1>2 DEF SoundPack
  <2>3. packs[p][i].ofs \in DOMAIN packs[p]
    BY <1>1, <2>1, <2>2
  <2> QED
    BY <1>1, <2>3, PositionIn
<1> QED
  BY <1>1, <1>4, <1>5

\* A call for a stored object waits or opens its first entry.
LEMMA CallOpens ==
  ASSUME CatalogInv(catalog), NEW oid \in StoredOids(catalog), NEW r, NEW u, u = callRead(r, oid),
         DOMAIN r = ReadFields
  PROVE  /\ DOMAIN u = ReadFields /\ u.oid = r.oid /\ u.visited = r.visited
         /\ \/ u.phase = "waiting"
            \/ /\ u.phase = r.phase /\ u.pos = findObject(catalog, oid)
               /\ u.pos \in Positions(catalog)
<1>1. PICK pos : pos = findObject(catalog, oid)
  OBVIOUS
<1>2. pos # NoPos /\ pos \in Positions(catalog)
  BY <1>1, FindObjectIn DEF CatalogInv
<1>3. CASE oid \in r.inflight
  BY <1>3 DEF callRead, ReadFields
<1>4. CASE oid \notin r.inflight
  <2>1. u = [r EXCEPT !.inflight = @ \cup {oid}, !.pos = pos]
    BY <1>1, <1>2, <1>4 DEF callRead
  <2> QED
    BY <1>1, <1>2, <2>1 DEF ReadFields
<1> QED
  BY <1>3, <1>4

\* beginRead
LEMMA ReadBegins ==
  ASSUME PackInv, beginRead
  PROVE  PackInv'
<1>1. IdleInv /\ CatalogInv(catalog)
  BY DEF PackInv, JobInv, beginRead, NoJob
<1>2. PICK oid, r :
        /\ oid \in StoredOids(catalog)
        /\ r = [phase |-> "open", oid |-> oid, inflight |-> {}, visited |-> {}, pos |-> NoPos]
        /\ read' = callRead(r, oid)
  BY DEF beginRead
<1>3. DOMAIN r = ReadFields /\ r.phase = "open" /\ r.oid = oid /\ r.visited = {}
  BY <1>2 DEF ReadFields
<1>4. PICK u : u = read'
  OBVIOUS
<1>5. /\ DOMAIN u = ReadFields /\ u.oid = oid /\ u.visited = {}
      /\ \/ u.phase = "waiting"
         \/ /\ u.phase = "open" /\ u.pos = findObject(catalog, oid)
            /\ u.pos \in Positions(catalog)
  BY <1>1, <1>2, <1>3, <1>4, CallOpens
<1>6. ReadInv(u, catalog)
  BY <1>5 DEF ReadInv
<1>7. UNCHANGED <<catalog, index, rewrite>> /\ job'.kind = "read"
  BY DEF beginRead
<1>8. RequestInv'
  BY <1>1, <1>4, <1>6, <1>7 DEF RequestInv, IdleInv
<1> QED
  BY <1>1, <1>7, <1>8 DEF PackInv, JobInv

\* materializeCandidate
LEMMA ReadGoesOn ==
  ASSUME PackInv, materializeCandidate
  PROVE  PackInv'
<1>1. read # NoRead /\ read.phase = "open"
  BY DEF materializeCandidate, NoRead
<1>2. job.kind = "read" /\ RequestInv /\ CatalogInv(catalog)
  BY <1>1 DEF PackInv, JobInv, IdleInv, PushInv, CompactInv, BackfillInv, FetchInv
<1>3. PICK r, u, e, next :
        /\ r = read /\ u = read' /\ e = EntryAt(catalog, r.pos)
        /\ next = [r EXCEPT !.visited = @ \cup {r.pos}]
  OBVIOUS
<1>4. ReadInv(r, catalog) /\ r.phase = "open"
  BY <1>1, <1>2, <1>3 DEF RequestInv
<1>5. u = IF r.pos \in r.visited THEN [r EXCEPT !.phase = "threw"]
          ELSE IF kindOf(e) = "full" THEN [next EXCEPT !.phase = "found"]
          ELSE IF kindOf(e) = "ofs" THEN [next EXCEPT !.pos = <<@[1], e.ofs>>]
          ELSE callRead(next, e.ref)
  BY <1>3 DEF materializeCandidate
<1>6. /\ DOMAIN next = ReadFields /\ next.phase = "open" /\ next.oid = r.oid
      /\ next.pos = r.pos /\ next.visited = r.visited \cup {r.pos}
  BY <1>3, <1>4 DEF ReadInv, ReadFields
<1>7. /\ r.pos \in Positions(catalog) /\ next.visited \subseteq Positions(catalog)
      /\ findObject(catalog, r.oid) \in next.visited
      /\ \A v \in r.visited : LeadsInto(catalog, v, next.visited)
  BY <1>4, <1>6 DEF ReadInv
<1>8. /\ e.ref # NoOid => e.ref \in StoredOids(catalog)
      /\ kindOf(e) = "ofs" => <<r.pos[1], e.ofs>> \in Positions(catalog)
  BY <1>2, <1>3, <1>7, BaseStored
<1>9. ASSUME NEW S, NEW S2, S \subseteq S2, NEW v, LeadsInto(catalog, v, S) PROVE LeadsInto(catalog, v, S2)
  BY <1>9 DEF LeadsInto
<1>10. ReadInv(u, catalog)
  <2>1. CASE r.pos \in r.visited
    <3>1. u = [r EXCEPT !.phase = "threw"]
      BY <1>5, <2>1
    <3>2. DOMAIN u = ReadFields /\ u.phase = "threw" /\ u.oid = r.oid /\ u.visited = r.visited /\ u.pos = r.pos
      BY <1>4, <3>1 DEF ReadInv, ReadFields
    <3> QED
      BY <1>4, <2>1, <3>2 DEF ReadInv
  <2>2. CASE r.pos \notin r.visited /\ kindOf(e) = "full"
    <3>1. u = [next EXCEPT !.phase = "found"]
      BY <1>5, <2>2
    <3>2. DOMAIN u = ReadFields /\ u.phase = "found" /\ u.visited = next.visited
      BY <1>6, <3>1 DEF ReadFields
    <3> QED
      BY <1>7, <3>2 DEF ReadInv
  <2>3. CASE r.pos \notin r.visited /\ kindOf(e) = "ofs"
    <3>1. u = [next EXCEPT !.pos = <<@[1], e.ofs>>]
      BY <1>5, <2>3
    <3>2. /\ DOMAIN u = ReadFields /\ u.phase = "open" /\ u.oid = r.oid /\ u.visited = next.visited
          /\ u.pos = <<r.pos[1], e.ofs>>
      BY <1>6, <3>1 DEF ReadFields
    <3>3. LeadsInto(catalog, r.pos, next.visited \cup {u.pos})
      BY <1>3, <2>3, <3>2 DEF LeadsInto
    <3>4. \A v \in u.visited : LeadsInto(catalog, v, u.visited \cup {u.pos})
      BY <1>6, <1>7, <1>9, <3>2, <3>3
    <3> QED
      BY <1>7, <1>8, <2>3, <3>2, <3>4 DEF ReadInv
  <2>4. CASE r.pos \notin r.visited /\ kindOf(e) = "ref"
    <3>1. u = callRead(next, e.ref)
      BY <1>5, <2>4
    <3>2. e.ref \in StoredOids(catalog)
      BY <1>8, <2>4 DEF kindOf
    <3>3. /\ DOMAIN u = ReadFields /\ u.oid = r.oid /\ u.visited = next.visited
          /\ \/ u.phase = "waiting"
             \/ /\ u.phase = "open" /\ u.pos = findObject(catalog, e.ref)
                /\ u.pos \in Positions(catalog)
      BY <1>2, <1>6, <3>1, <3>2, CallOpens
    <3>4. CASE u.phase = "waiting"
      BY <1>7, <3>3, <3>4 DEF ReadInv
    <3>5. CASE u.phase = "open"
      <4>1. u.pos = findObject(catalog, e.ref) /\ u.pos \in Positions(catalog)
        BY <3>3, <3>5
      <4>2. LeadsInto(catalog, r.pos, next.visited \cup {u.pos})
        BY <1>3, <2>4, <4>1 DEF LeadsInto
      <4>3. \A v \in u.visited : LeadsInto(catalog, v, u.visited \cup {u.pos})
        BY <1>6, <1>7, <1>9, <3>3, <4>2
      <4> QED
        BY <1>7, <3>3, <3>5, <4>1, <4>3 DEF ReadInv
    <3> QED
      BY <3>3, <3>4, <3>5
  <2> QED
    BY <2>1, <2>2, <2>3, <2>4 DEF kindOf
<1>11. UNCHANGED <<catalog, index, rewrite, job>>
  BY DEF materializeCandidate
<1>12. RequestInv'
  BY <1>2, <1>3, <1>10, <1>11 DEF RequestInv
<1> QED
  BY <1>2, <1>11, <1>12 DEF PackInv, JobInv

\* A read that comes back to a visited entry never leaves the visited ones.
LEMMA ThrewInCircle ==
  ASSUME NEW packs, NEW r, ReadInv(r, packs), r.phase = "threw"
  PROVE  findObject(packs, r.oid) \notin firstEntriesDecode(packs)
<1> DEFINE C == Positions(packs) \ r.visited
<1>1. \A v \in r.visited : LeadsInto(packs, v, r.visited)
  BY DEF ReadInv
<1>2. findObject(packs, r.oid) \in r.visited
  BY DEF ReadInv
<1>3. firstEntriesFrom(packs, C) \subseteq C
  <2>1. SUFFICES ASSUME NEW v \in firstEntriesFrom(packs, C), v \in r.visited PROVE FALSE
    BY DEF firstEntriesFrom
  <2>2. LeadsInto(packs, v, r.visited)
    BY <1>1, <2>1
  <2> QED
    BY <2>2 DEF firstEntriesFrom, LeadsInto
<1>4. firstEntriesDecode(packs) \subseteq C
  BY <1>3 DEF firstEntriesDecode, Least
<1> QED
  BY <1>2, <1>4

-----------------------------------------------------------------------------
(* What holds of every job *)

LEMMA PackInvInit == Init => PackInv
<1>1. SUFFICES ASSUME Init PROVE PackInv
  OBVIOUS
<1>2. CatalogInv(catalog)
  <2>1. catalog = <<>> /\ DOMAIN catalog = {}
    BY <1>1 DEF Init
  <2> QED
    BY <2>1 DEF CatalogInv, Standing
<1> QED
  BY <1>1, <1>2 DEF PackInv, JobInv, IdleInv, Init, NoJob

LEMMA PackInvStep == PackInv /\ [Next]_vars => PackInv'
<1>1. SUFFICES ASSUME PackInv, [Next]_vars PROVE PackInv'
  OBVIOUS
<1>2. CASE pushPack
  BY <1>1, <1>2, PushBegins
<1>3. CASE endPush
  BY <1>1, <1>3, PushEnds
<1>4. CASE compactPacks
  BY <1>1, <1>4, CompactBegins
<1>5. CASE indexCompacted
  BY <1>1, <1>5, CompactIndexes
<1>6. CASE endCompaction
  BY <1>1, <1>6, CompactEnds
<1>7. CASE backfillPack
  BY <1>1, <1>7, BackfillBegins
<1>8. CASE endBackfill \/ endFetch \/ endRead
  BY <1>1, <1>8, OthersEnd
<1>9. CASE fetchPack
  BY <1>1, <1>9, FetchBegins
<1>10. CASE beginRead
  BY <1>1, <1>10, ReadBegins
<1>11. CASE materializeCandidate
  BY <1>1, <1>11, ReadGoesOn
<1>12. CASE IndexStep /\ UNCHANGED <<catalog, rewrite, job, read, spent>>
  BY <1>1, <1>12, IndexJob
<1>13. CASE RewriteStep /\ UNCHANGED <<catalog, index, job, read, spent>>
  BY <1>1, <1>13, RewriteJob
<1>14. CASE UNCHANGED vars
  BY <1>1, <1>14 DEF vars, PackInv, JobInv, IdleInv, PushInv, CompactInv, BackfillInv, FetchInv, RequestInv
<1> QED
  BY <1>1, <1>2, <1>3, <1>4, <1>5, <1>6, <1>7, <1>8, <1>9, <1>10, <1>11, <1>12, <1>13, <1>14 DEF Next

LEMMA PackInvariant == Spec => []PackInv
BY PackInvInit, PackInvStep, PTL DEF Spec

\* The objects of a catalog with one more pack.
LEMMA PushedOids ==
  ASSUME NEW packs \in Seq(Seq(Entry)), NEW pack \in Seq(Entry)
  PROVE  /\ <<pack>> \o packs \in Seq(Seq(Entry))
         /\ StoredOids(<<pack>> \o packs) = Oids(pack) \cup StoredOids(packs)
<1> DEFINE all == <<pack>> \o packs
<1>1. /\ all \in Seq(Seq(Entry)) /\ DOMAIN all = 1 .. (Len(packs) + 1)
      /\ DOMAIN packs = 1 .. Len(packs) /\ Len(packs) \in Nat
      /\ all[1] = pack /\ \A p \in DOMAIN packs : all[p + 1] = packs[p]
  OBVIOUS
<1> HIDE DEF all
<1>2. 1 \in DOMAIN all /\ \A p \in DOMAIN packs : p + 1 \in DOMAIN all
  BY <1>1
<1>3. ASSUME NEW oid \in StoredOids(all) PROVE oid \in Oids(pack) \cup StoredOids(packs)
  <2>1. PICK p \in DOMAIN all : oid \in Oids(all[p])
    BY <1>1, OidsIn
  <2>2. CASE p = 1
    BY <1>1, <2>1, <2>2
  <2>3. CASE p # 1
    <3>1. p - 1 \in DOMAIN packs /\ (p - 1) + 1 = p
      BY <1>1, <2>3
    <3>2. all[p] = packs[p - 1]
      BY <1>1, <3>1
    <3> QED
      BY <2>1, <3>1, <3>2, StoredIn
  <2> QED
    BY <2>2, <2>3
<1>4. Oids(pack) \subseteq StoredOids(all)
  BY <1>1, <1>2, StoredIn
<1>5. ASSUME NEW oid \in StoredOids(packs) PROVE oid \in StoredOids(all)
  <2>1. PICK p \in DOMAIN packs : oid \in Oids(packs[p])
    BY OidsIn
  <2>2. oid \in Oids(all[p + 1])
    BY <1>1, <2>1
  <2> QED
    BY <1>2, <2>2, StoredIn
<1> QED
  BY <1>1, <1>3, <1>4, <1>5 DEF all

\* Without its base stored anywhere, a REF_DELTA does not decode.
LEMMA BaselessUndecodable ==
  ASSUME NEW packs \in Seq(Seq(Entry)), NEW p \in DOMAIN packs, NEW i \in DOMAIN packs[p],
         kindOf(packs[p][i]) = "ref", packs[p][i].ref \notin StoredOids(packs)
  PROVE  <<p, i>> \notin Decodable(packs)
<1> DEFINE S == Positions(packs) \ {<<p, i>>}
<1>1. EntryAt(packs, <<p, i>>) = packs[p][i]
  BY PositionIn
<1>2. <<p, i>> \notin decodesFrom(packs, S)
  <2>1. \A b \in S : EntryAt(packs, b).oid # packs[p][i].ref
    BY DEF StoredOids
  <2> QED
    BY <1>1, <2>1 DEF decodesFrom
<1>3. decodesFrom(packs, S) \subseteq S
  BY <1>2 DEF decodesFrom
<1>4. Decodable(packs) \subseteq S
  BY <1>3, DecodableOut
<1> QED
  BY <1>4

\* The objects of a catalog of which some packs gave way to one.
LEMMA ReplacedOids ==
  ASSUME NEW packs, CatalogInv(packs), NEW lo \in DOMAIN packs, NEW hi \in DOMAIN packs, lo < hi,
         NEW out \in Seq(Entry), StoredOids(SubSeq(packs, lo, hi)) \subseteq Oids(out)
  PROVE  StoredOids(packs) \subseteq
            StoredOids(SubSeq(packs, 1, lo - 1) \o <<out>> \o SubSeq(packs, hi + 1, Len(packs)))
<1>1. PICK n, T, new : /\ n = Len(packs) /\ T = Seq(Entry) /\ new = Spliced(packs, lo, hi, out)
  OBVIOUS
<1>2. n \in Nat /\ DOMAIN packs = 1 .. n /\ packs \in Seq(T) /\ out \in T
  BY <1>1 DEF CatalogInv
<1>3. lo \in 1 .. n /\ hi \in lo .. n /\ hi \in 1 .. n
  BY <1>2
<1>4. IsSpliced(new, packs, n, lo, hi, out)
  BY <1>1, <1>2, <1>3, SplicedParts
<1>5. PICK cut : cut = hi - lo
  OBVIOUS
<1>6. /\ DOMAIN new = 1 .. n - cut /\ new[lo] = out
      /\ \A q \in 1 .. lo - 1 : new[q] = packs[q]
      /\ \A q \in hi + 1 .. n : new[q - cut] = packs[q]
  BY <1>4, <1>5 DEF IsSpliced
<1>7. n \in Nat /\ cut \in Nat /\ lo \in 1 .. n - cut
  BY <1>2, <1>3, <1>5
<1>8. ASSUME NEW oid \in StoredOids(packs) PROVE oid \in StoredOids(new)
  <2>1. PICK p \in DOMAIN packs : oid \in Oids(packs[p])
    BY OidsIn DEF CatalogInv
  <2>2. p \in 1 .. n
    BY <1>2
  <2>3. CASE p < lo
    <3>1. p \in 1 .. lo - 1 /\ p \in 1 .. n - cut
      BY <1>3, <1>7, <2>2, <2>3
    <3> QED
      BY <1>6, <2>1, <3>1, StoredIn
  <2>4. CASE lo <= p /\ p <= hi
    <3>1. PICK k, m : k = p - lo + 1 /\ m = hi - lo + 1
      OBVIOUS
    <3>2. k \in 1 .. m /\ lo + k - 1 = p
      BY <1>3, <2>2, <2>4, <3>1
    <3>3. lo \in 1 .. Len(packs) + 1 /\ hi \in lo - 1 .. Len(packs)
      BY <1>1, <1>2, <1>3
    <3>4. DOMAIN SubSeq(packs, lo, hi) = 1 .. m /\ SubSeq(packs, lo, hi)[k] = packs[p]
      <4>1. PICK src : src = SubSeq(packs, lo, hi)
        OBVIOUS
      <4>2. DOMAIN src = 1 .. hi - lo + 1 /\ \A j \in 1 .. hi - lo + 1 : src[j] = packs[lo + j - 1]
        BY <1>2, <3>3, <4>1, SubSeqParts
      <4>3. src[k] = packs[lo + k - 1]
        BY <3>1, <3>2, <4>2
      <4> QED
        BY <3>1, <3>2, <4>1, <4>2, <4>3
    <3>5. oid \in StoredOids(SubSeq(packs, lo, hi))
      BY <2>1, <3>2, <3>4, StoredIn
    <3>6. oid \in Oids(new[lo]) /\ lo \in DOMAIN new
      BY <1>6, <1>7, <3>5
    <3> QED
      BY <3>6, StoredIn
  <2>5. CASE p > hi
    <3>1. p \in hi + 1 .. n /\ p - cut \in 1 .. n - cut
      BY <1>2, <1>3, <1>5, <1>7, <2>2, <2>5
    <3>2. oid \in Oids(new[p - cut]) /\ p - cut \in DOMAIN new
      BY <1>6, <2>1, <3>1
    <3> QED
      BY <3>2, StoredIn
  <2> QED
    BY <1>3, <2>2, <2>3, <2>4, <2>5
<1> QED
  BY <1>1, <1>8 DEF Spliced

-----------------------------------------------------------------------------
(* Theorems *)

\* No object is lost (StoredIsDecodable): whatever is pushed and compacted, a chain
\* of bases leads from every entry of the catalog to a whole object.
THEOREM StoredDecodes == Spec => []StoredIsDecodable
<1>1. PackInv => StoredIsDecodable
  BY StandingStored DEF PackInv, CatalogInv, StoredIsDecodable
<1> QED
  BY <1>1, PackInvariant, PTL

\* The indexer fails on nothing it could have resolved (FailsOnlyUndecodable): a
\* push is refused for a base that no pack has, and a backfill or the output of a
\* compaction never.
THEOREM RefusedLackBase == Spec => []FailsOnlyUndecodable
<1>1. ASSUME PackInv, index # NoIndex, index.phase = "failed"
      PROVE  job.kind = "push" /\ \E i \in Entries : <<1, i>> \notin Decodable(<<index.pack>> \o catalog)
  <2>1. Indexing
    BY <1>1 DEF Indexing
  <2>2. PICK ext : /\ ext = DecodableOids(externalPacks) /\ IndexInv(index, ext) /\ GoodPack(index.pack)
                   /\ job.kind \in {"push", "compact", "backfill"}
                   /\ job.kind # "push" =>
                        \A i \in DOMAIN index.pack : index.pack[i].ref \in {NoOid} \cup Oids(index.pack) \cup ext
    BY <1>1, <2>1, PassOf
  <2>3. PICK i \in DOMAIN index.pack : /\ kindOf(index.pack[i]) = "ref"
                                       /\ index.pack[i].ref \notin Oids(index.pack) \cup ext
    BY <1>1, <2>2, FailedLacksBase
  <2>4. index.pack[i].ref # NoOid
    BY <2>3 DEF kindOf
  <2>5. job.kind = "push"
    BY <2>2, <2>3, <2>4
  <2>6. PushInv /\ catalog \in Seq(Seq(Entry)) /\ DecodableOids(catalog) = StoredOids(catalog)
    BY <1>1, <2>5, StandingStored DEF PackInv, JobInv, CatalogInv
  <2>7. ext = StoredOids(catalog) /\ index.pack \in Seq(Entry)
    BY <2>2, <2>6 DEF PushInv, externalPacks, GoodPack, SoundPack
  <2>8. PICK all : all = <<index.pack>> \o catalog
    OBVIOUS
  <2>9. all \in Seq(Seq(Entry)) /\ index.pack[i].ref \notin StoredOids(all)
    BY <2>3, <2>6, <2>7, <2>8, PushedOids
  <2>10. 1 \in DOMAIN all /\ all[1] = index.pack
    BY <2>6, <2>7, <2>8
  <2>11. <<1, i>> \notin Decodable(all)
    BY <2>3, <2>9, <2>10, BaselessUndecodable
  <2> QED
    BY <2>5, <2>8, <2>11 DEF Entries
<1>2. PackInv => FailsOnlyUndecodable
  BY <1>1 DEF FailsOnlyUndecodable
<1> QED
  BY <1>2, PackInvariant, PTL

\* What was evicted from the payload cache can be computed again
\* (BasesRecomputable): base edges lead to a whole entry or out of the pack, and
\* a REF_DELTA's to the object it names.
THEOREM EdgesLeadOut == Spec => []BasesRecomputable
<1>1. ASSUME PackInv, Indexing PROVE BasesRecomputable
  <2>1. PICK ext : IndexInv(index, ext) /\ GoodPack(index.pack)
    BY <1>1, PassOf
  <2>2. Materializable = Entries
    BY <2>1, EdgesRecomputable
  <2>3. index.resolved \subseteq Entries
    BY <2>1 DEF IndexInv, IndexShape, Entries
  <2>4. \A i \in Entries : index.base[i] # 0 /\ kindOf(index.pack[i]) = "ref" =>
           index.pack[index.base[i]].oid = index.pack[i].ref
    BY <2>1 DEF IndexInv, EdgesRight, Entries
  <2> QED
    BY <2>2, <2>3, <2>4 DEF BasesRecomputable
<1>2. PackInv => BasesRecomputable
  BY <1>1 DEF BasesRecomputable
<1> QED
  BY <1>2, PackInvariant, PTL

\* The output of a rewrite (OutputStandsAlone) has every needed object once, is
\* decoded from itself, and applies each delta to the object it was made of.
THEOREM RewritesStandAlone == Spec => []OutputStandsAlone
<1>1. ASSUME PackInv, rewrite.phase = "done" PROVE OutputStandsAlone
  <2>1. rewrite # NoRewrite
    BY <1>1 DEF NoRewrite
  <2>2. RewriteInv(rewrite)
    BY <1>1, <2>1 DEF PackInv, JobInv, IdleInv, PushInv, CompactInv, BackfillInv, FetchInv, RequestInv
  <2>3. Finished(rewrite)
    BY <1>1, <2>2 DEF RewriteInv, PhaseInv
  <2>4. PICK out : out = rewrite.out
    OBVIOUS
  <2>5. GoodPack(out) /\ out \in Seq(Entry) /\ \A i \in DOMAIN out : out[i].ref \in {NoOid} \cup Oids(out)
    BY <2>3, <2>4 DEF Finished, GoodPack, SoundPack
  <2>6. Decodable(<<out>>) = Positions(<<out>>)
    <3>1. <<out>> \in Seq(Seq(Entry)) /\ DOMAIN <<out>> = {1} /\ <<out>>[1] = out
      BY <2>5
    <3>2. Standing(<<out>>, 0)
      BY <2>5, <3>1 DEF Standing
    <3> QED
      BY <3>1, <3>2, StandingStored
  <2>7. \A i, j \in DOMAIN out : out[i].oid = out[j].oid => i = j
    BY <2>5 DEF GoodPack
  <2> QED
    BY <2>3, <2>4, <2>6, <2>7 DEF OutputStandsAlone, Finished
<1>2. PackInv => OutputStandsAlone
  BY <1>1 DEF OutputStandsAlone
<1> QED
  BY <1>2, PackInvariant, PTL

\* A rewrite fails for nothing but bases that run in a circle (FailsOnlyInCircles):
\* rewritePackResult finds what it is asked for, never makes a row its own base,
\* and can send whole what has no base left.
THEOREM FailedInCircle == Spec => []FailsOnlyInCircles
<1>1. ASSUME PackInv, rewrite # NoRewrite, rewrite.phase = "failed" PROVE Circular(rewrite)
  <2>1. RewriteInv(rewrite)
    BY <1>1 DEF PackInv, JobInv, IdleInv, PushInv, CompactInv, BackfillInv, FetchInv, RequestInv
  <2> QED
    BY <1>1, <2>1 DEF RewriteInv
<1>2. PackInv => FailsOnlyInCircles
  BY <1>1 DEF FailsOnlyInCircles, Circular
<1> QED
  BY <1>2, PackInvariant, PTL

\* readObject misses no stored object, and throws only when the first entries of
\* the object and of its bases lead back to themselves (ReadsFindObjects).
THEOREM StoredAreFound == Spec => []ReadsFindObjects
<1>1. ASSUME PackInv PROVE ReadsFindObjects
  <2>1. CASE read = NoRead
    BY <2>1 DEF NoRead, ReadsFindObjects
  <2>2. CASE read # NoRead
    <3>1. ReadInv(read, catalog)
      BY <1>1, <2>2 DEF PackInv, JobInv, IdleInv, PushInv, CompactInv, BackfillInv, FetchInv, RequestInv
    <3> QED
      BY <3>1, ThrewInCircle DEF ReadsFindObjects, ReadInv
  <2> QED
    BY <2>1, <2>2
<1> QED
  BY <1>1, PackInvariant, PTL

\* No step takes an object out of the catalog: a push puts a pack on top, and a
\* compaction's output has every object of the packs it takes the place of.
THEOREM ObjectsStay == Spec => [][StoredOids(catalog) \subseteq StoredOids(catalog')]_vars
<1>1. ASSUME PackInv, [Next]_vars PROVE StoredOids(catalog) \subseteq StoredOids(catalog')
  <2>1. CASE endPush /\ index.phase = "indexed"
    <3>1. catalog' = <<index.pack>> \o catalog
      BY <2>1 DEF endPush
    <3>2. PushInv /\ catalog \in Seq(Seq(Entry))
      BY <1>1, <2>1 DEF PackInv, JobInv, endPush, CatalogInv
    <3>3. index.pack \in Seq(Entry)
      BY <3>2 DEF PushInv, GoodPack, SoundPack
    <3> QED
      BY <3>1, <3>2, <3>3, PushedOids
  <2>2. CASE endCompaction /\ index.phase = "indexed"
    <3>1. CompactInv /\ CatalogInv(catalog) /\ index # NoIndex
      BY <1>1, <2>2 DEF PackInv, JobInv, endCompaction, NoIndex
    <3>2. Finished(rewrite) /\ index.pack = rewrite.out
          /\ rewrite.needed = StoredOids(SubSeq(catalog, job.lo, job.hi))
          /\ job.lo \in DOMAIN catalog /\ job.hi \in DOMAIN catalog /\ job.lo < job.hi
      BY <3>1 DEF CompactInv, RewriteInv, PhaseInv
    <3>3. index.pack \in Seq(Entry) /\ StoredOids(SubSeq(catalog, job.lo, job.hi)) \subseteq Oids(index.pack)
      BY <3>2 DEF Finished, GoodPack, SoundPack
    <3>4. catalog' = SubSeq(catalog, 1, job.lo - 1) \o <<index.pack>> \o SubSeq(catalog, job.hi + 1, Len(catalog))
      BY <2>2 DEF endCompaction
    <3> QED
      BY <3>1, <3>2, <3>3, <3>4, ReplacedOids
  <2>3. CASE catalog' = catalog
    BY <2>3
  <2> QED
    BY <1>1, <2>1, <2>2, <2>3 DEF Next, vars, pushPack, endPush, compactPacks, indexCompacted, endCompaction,
       backfillPack, endBackfill, fetchPack, endFetch, beginRead, materializeCandidate, endRead
<1> QED
  BY <1>1, PackInvariant, PTL DEF Spec
=============================================================================
