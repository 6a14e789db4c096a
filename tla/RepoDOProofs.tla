---------------------------- MODULE RepoDOProofs ----------------------------
(***************************************************************************)
(* Theorems about the repository object, for every number of leases, packs *)
(* and refs, every FAN_IN and every choice of the delays.                  *)
(***************************************************************************)
EXTENDS RepoDO, FiniteSetTheorems, WellFoundedInduction, TLAPS

-----------------------------------------------------------------------------
(* The pack catalog and the compaction plan, for every FAN_IN and catalog *)

\* The least element Min chooses exists in every non-empty set of naturals.
LEMMA MinNat ==
    ASSUME NEW S \in SUBSET Nat, S # {}
    PROVE  /\ Min(S) \in S
           /\ \A y \in S : Min(S) <= y
<1>1. PICK x \in S : \A y \in S : ~ (<<y, x>> \in OpToRel(<, Nat))
  BY NatLessThanWellFounded, WFMin
<1>2. \A y \in S : x <= y
  <2>1. SUFFICES ASSUME NEW y \in S PROVE x <= y
    OBVIOUS
  <2>2. ~ (y < x)
    BY <1>1, <2>1 DEF OpToRel
  <2> QED
    BY <2>2
<1> QED
  BY <1>2 DEF Min

\* The greatest element Max chooses exists in every non-empty bounded set of
\* naturals.
LEMMA MaxNat ==
    ASSUME NEW S \in SUBSET Nat, S # {}, NEW n \in Nat, \A y \in S : y <= n
    PROVE  /\ Max(S) \in S
           /\ \A y \in S : y <= Max(S)
<1> DEFINE D == {n - y : y \in S}
<1>1. D \in SUBSET Nat
  <2>1. SUFFICES ASSUME NEW y \in S PROVE n - y \in Nat
    OBVIOUS
  <2> QED
    BY y <= n
<1>2. D # {}
  OBVIOUS
<1>3. PICK d \in D : \A e \in D : d <= e
  BY <1>1, <1>2, MinNat
<1>4. PICK x \in S : d = n - x
  BY <1>3
<1>5. \A y \in S : x >= y
  <2>1. SUFFICES ASSUME NEW y \in S PROVE x >= y
    OBVIOUS
  <2>2. n - x <= n - y
    BY <1>3, <1>4
  <2> QED
    BY <2>2
<1> QED
  BY <1>5 DEF Max

-----------------------------------------------------------------------------
LEMMA PackKeyFinite == IsFiniteSet(PackKey)
<1>1. IsFiniteSet({"rx", "cmp"})
  <2>1. IsFiniteSet({"rx"} \cup {"cmp"})
    BY FS_Singleton, FS_AddElement
  <2>2. {"rx", "cmp"} = {"rx"} \cup {"cmp"}
    OBVIOUS
  <2> QED
    BY <2>1, <2>2
<1> QED
  BY <1>1, CatalogAssumption, FS_Product DEF PackKey

\* The packs older than k among the packs of its tier
Older(cat, packs, k) == {j \in packs : cat[j].seqLo < cat[k].seqLo}

\* A plan that merging ranges is safe for: sources of one tier, none of that
\* tier's other packs older than a source.
PlanOf(cat, sources, tier) ==
    /\ sources # {}
    /\ sources \subseteq Active(cat)
    /\ \A k \in sources : cat[k].tier + 1 = tier
    /\ \A s \in sources, k \in Active(cat) \ sources :
           cat[k].tier + 1 = tier => cat[s].seqLo <= cat[k].seqLo

\* selectCompactionPlan returns such a plan for every catalog that overflows.
LEMMA PlanSourcesIsPlan ==
    ASSUME NEW cat \in Catalog, catalogNeedsCompaction(cat)
    PROVE  /\ planTier(cat) \in Nat
           /\ PlanOf(cat, planSources(cat), planTier(cat) + 1)
<1> DEFINE tier == planTier(cat)
           packs == TierPacks(cat, tier)
           srcs == planSources(cat)
<1>1. OverflowingTiers(cat) \in SUBSET Nat /\ OverflowingTiers(cat) # {}
  BY DEF catalogNeedsCompaction, OverflowingTiers, Active, Catalog, Row
<1>2. tier \in OverflowingTiers(cat)
  BY <1>1, MinNat DEF planTier
<1>3. tier \in Nat /\ Cardinality(packs) > FAN_IN
  BY <1>1, <1>2 DEF OverflowingTiers
<1>4. packs \subseteq PackKey /\ packs \subseteq Active(cat) /\ IsFiniteSet(packs)
  BY PackKeyFinite, FS_Subset DEF TierPacks, Active
<1>5. packs # {}
  <2>1. SUFFICES ASSUME packs = {} PROVE FALSE
    OBVIOUS
  <2>2. Cardinality(packs) = 0
    BY <2>1, FS_EmptySet
  <2> QED
    BY <2>2, <1>3, CatalogAssumption
<1>6. \A k \in packs : cat[k].seqLo \in Nat /\ cat[k].tier = tier
  BY <1>4 DEF Catalog, Row, TierPacks
<1>7. \A k \in packs : Cardinality(Older(cat, packs, k)) \in Nat /\ IsFiniteSet(Older(cat, packs, k))
  BY <1>4, FS_Subset, FS_CardinalityType DEF Older
<1>8. srcs = {k \in packs : Cardinality(Older(cat, packs, k)) < FAN_IN}
  BY DEF planSources, Oldest, Older
<1>9. srcs # {}
  <2>1. PICK k \in packs : \A j \in packs : cat[k].seqLo <= cat[j].seqLo
    <3> DEFINE L == {cat[j].seqLo : j \in packs}
    <3>1. L \in SUBSET Nat /\ L # {}
      BY <1>5, <1>6
    <3>2. Min(L) \in L /\ \A y \in L : Min(L) <= y
      BY <3>1, MinNat
    <3> QED
      BY <3>2
  <2>2. Older(cat, packs, k) = {}
    BY <2>1, <1>6 DEF Older
  <2>3. Cardinality(Older(cat, packs, k)) = 0
    BY <2>2, FS_EmptySet
  <2> QED
    BY <2>3, <1>8, CatalogAssumption
<1>10. ASSUME NEW s \in srcs, NEW k \in Active(cat) \ srcs, cat[k].tier + 1 = tier + 1
       PROVE  cat[s].seqLo <= cat[k].seqLo
  <2>1. s \in packs /\ k \in packs
    <3>1. cat[k].tier \in Nat
      BY DEF Active, Catalog, Row
    <3>2. cat[k].tier = tier
      BY <3>1, <1>3, <1>10
    <3> QED
      BY <1>8, <1>10, <3>2 DEF TierPacks
  <2>2. Cardinality(Older(cat, packs, s)) < FAN_IN /\ ~ (Cardinality(Older(cat, packs, k)) < FAN_IN)
    BY <1>8, <1>10, <2>1
  <2>3. SUFFICES ASSUME cat[k].seqLo < cat[s].seqLo PROVE FALSE
    BY <2>1, <1>6
  <2>4. Older(cat, packs, k) \subseteq Older(cat, packs, s)
    BY <2>1, <2>3, <1>6 DEF Older
  <2>5. Cardinality(Older(cat, packs, k)) <= Cardinality(Older(cat, packs, s))
    BY <2>1, <2>4, <1>7, FS_Subset
  <2> QED
    BY <2>1, <2>2, <2>5, <1>7, CatalogAssumption
<1>11. srcs \subseteq Active(cat) /\ \A k \in srcs : cat[k].tier + 1 = tier + 1
  BY <1>4, <1>6, <1>8
<1> QED
  BY <1>3, <1>9, <1>10, <1>11 DEF PlanOf

\* A plan only depends on the active rows.
LEMMA PlanOfActiveRows ==
    ASSUME NEW cat, NEW new, Active(new) = Active(cat), \A k \in Active(cat) : new[k] = cat[k],
           NEW sources, NEW tier, PlanOf(cat, sources, tier)
    PROVE  PlanOf(new, sources, tier)
<1>1. \A k \in sources : k \in Active(cat)
  BY DEF PlanOf
<1> QED
  BY <1>1 DEF PlanOf

-----------------------------------------------------------------------------
\* Ranges of active packs are non-empty and below the next receive sequence.
Bounded(cat, n) ==
    \A k \in Active(cat) : 1 <= cat[k].seqLo /\ cat[k].seqLo <= cat[k].seqHi /\ cat[k].seqHi < n

\* The ranges of the active packs tile 1 .. n - 1, older tiers first.
Tiled(cat, n) == Bounded(cat, n) /\ Covers(cat, n) /\ Separate(cat) /\ Layered(cat)

LEMMA RowTypes ==
    ASSUME NEW cat \in Catalog, NEW k \in PackKey
    PROVE  /\ cat[k] \in Row
           /\ cat[k].tier \in Nat /\ cat[k].seqLo \in Nat /\ cat[k].seqHi \in Nat
BY DEF Catalog, Row

\* finalizeReceive's row, under a key that is not active, keeps the tiling.
LEMMA ReceiveKeepsTiling ==
    ASSUME NEW cat \in Catalog, NEW n \in Nat \ {0}, NEW key \in PackKey \ Active(cat),
           NEW objs \in SUBSET Object, Tiled(cat, n)
    PROVE  Tiled([cat EXCEPT ![key] = ReceiveRow(n, objs)], n + 1)
<1> DEFINE new == [cat EXCEPT ![key] = ReceiveRow(n, objs)]
<1>1. /\ new[key].state = "active" /\ new[key].tier = 0
      /\ new[key].seqLo = n /\ new[key].seqHi = n
      /\ \A k \in PackKey \ {key} : new[k] = cat[k]
  BY DEF Catalog, ReceiveRow
<1>2. Active(new) = Active(cat) \cup {key}
  BY <1>1 DEF Active
<1>3. \A k \in Active(cat) : k \in PackKey /\ new[k] = cat[k]
  BY <1>1 DEF Active
<1> HIDE DEF new
<1>4. Bounded(new, n + 1)
  BY <1>1, <1>2, <1>3, RowTypes DEF Tiled, Bounded
<1>5. Covers(new, n + 1)
  <2>1. SUFFICES ASSUME NEW s \in 1 .. n PROVE \E k \in Active(new) : Within(s, new[k])
    BY DEF Covers
  <2>2. CASE s = n
    BY <2>2, <1>1, <1>2 DEF Within
  <2>3. CASE s # n
    <3>1. PICK k \in Active(cat) : Within(s, cat[k])
      BY <2>1, <2>3 DEF Tiled, Covers
    <3> QED
      BY <3>1, <1>2, <1>3
  <2> QED
    BY <2>2, <2>3
<1>6. Separate(new)
  BY <1>1, <1>2, <1>3, RowTypes DEF Tiled, Bounded, Separate
<1>7. Layered(new)
  BY <1>1, <1>2, <1>3, RowTypes DEF Tiled, Bounded, Layered
<1> QED
  BY <1>4, <1>5, <1>6, <1>7 DEF Tiled, new

\* commitCompaction's merge of a plan's sources into one row keeps the tiling.
LEMMA CompactKeepsTiling ==
    ASSUME NEW cat \in Catalog, NEW n \in Nat, NEW target \in PackKey \ Active(cat),
           NEW sources, NEW tier \in Nat, NEW objs \in SUBSET Object,
           PlanOf(cat, sources, tier), Tiled(cat, n)
    PROVE  Tiled(Supersede([cat EXCEPT ![target] = CompactRow(cat, sources, tier, objs)],
                           sources, target), n)
<1> DEFINE row == CompactRow(cat, sources, tier, objs)
           new == Supersede([cat EXCEPT ![target] = row], sources, target)
           los == {cat[k].seqLo : k \in sources}
           his == {cat[k].seqHi : k \in sources}
<1>1. /\ sources \subseteq Active(cat) /\ sources # {} /\ target \notin sources
      /\ Active(cat) \subseteq PackKey
  BY DEF PlanOf, Active
<1>2. /\ \A k \in sources : new[k].state = "superseded"
      /\ new[target] = row
      /\ \A k \in PackKey \ (sources \cup {target}) : new[k] = cat[k]
  BY <1>1 DEF Supersede, Catalog, Row
<1>3. row.state = "active" /\ row.tier = tier /\ row.seqLo = Min(los) /\ row.seqHi = Max(his)
  BY DEF CompactRow
<1>4. Min(los) \in los /\ \A y \in los : Min(los) <= y
  <2>1. los \in SUBSET Nat /\ los # {}
    BY <1>1, RowTypes
  <2> QED
    BY <2>1, MinNat
<1>5. Max(his) \in his /\ \A y \in his : y <= Max(his)
  <2>1. his \in SUBSET Nat /\ his # {}
    BY <1>1, RowTypes
  <2>2. \A y \in his : y <= n
    BY <1>1, RowTypes DEF Tiled, Bounded
  <2> QED
    BY <2>1, <2>2, MaxNat
<1>6. PICK first \in sources, last \in sources :
          row.seqLo = cat[first].seqLo /\ row.seqHi = cat[last].seqHi
  BY <1>3, <1>4, <1>5
<1>7. \A k \in sources : row.seqLo <= cat[k].seqLo /\ cat[k].seqHi <= row.seqHi
  BY <1>3, <1>4, <1>5
<1>8. Active(new) = (Active(cat) \ sources) \cup {target}
  BY <1>1, <1>2, <1>3 DEF Active
<1>9. \A k \in Active(cat) \ sources : new[k] = cat[k] /\ k # target
  BY <1>1, <1>2
<1> HIDE DEF row, new, los, his
\* Every other pack is older or newer than all the sources, by its tier
<1>10. ASSUME NEW k \in Active(cat) \ sources
       PROVE  /\ cat[k].seqHi < row.seqLo \/ row.seqHi < cat[k].seqLo
              /\ tier > cat[k].tier => row.seqHi < cat[k].seqLo
              /\ cat[k].tier > tier => cat[k].seqHi < row.seqLo
  <2>1. ASSUME NEW s \in sources
        PROVE  /\ cat[k].tier >= tier => cat[k].seqHi < cat[s].seqLo
               /\ cat[k].tier < tier => cat[s].seqHi < cat[k].seqLo
    <3>1. /\ cat[s].tier + 1 = tier
          /\ cat[s].tier \in Nat /\ cat[s].seqLo \in Nat /\ cat[s].seqHi \in Nat
          /\ cat[k].tier \in Nat /\ cat[k].seqLo \in Nat /\ cat[k].seqHi \in Nat
      BY <1>1, RowTypes DEF PlanOf
    <3>2. /\ cat[s].seqHi < cat[k].seqLo \/ cat[k].seqHi < cat[s].seqLo
          /\ cat[k].tier > cat[s].tier => cat[k].seqHi < cat[s].seqLo
          /\ cat[s].tier > cat[k].tier => cat[s].seqHi < cat[k].seqLo
          /\ cat[k].seqLo <= cat[k].seqHi
      BY <1>1, <1>10 DEF Tiled, Separate, Layered, Bounded
    <3>3. cat[k].tier + 1 = tier => cat[s].seqLo <= cat[k].seqLo
      BY DEF PlanOf
    <3> QED
      BY <3>1, <3>2, <3>3
  <2>2. cat[k].tier \in Nat
    BY <1>1, RowTypes
  <2>3. cat[k].tier >= tier => cat[k].seqHi < row.seqLo
    BY <2>1, <1>6
  <2>4. cat[k].tier < tier => row.seqHi < cat[k].seqLo
    BY <2>1, <1>6
  <2> QED
    BY <2>2, <2>3, <2>4
<1>11. Bounded(new, n)
  <2>1. 1 <= row.seqLo /\ row.seqLo <= row.seqHi /\ row.seqHi < n
    BY <1>1, <1>6, <1>7, RowTypes DEF Tiled, Bounded
  <2> QED
    BY <2>1, <1>2, <1>8, <1>9 DEF Tiled, Bounded
<1>12. Covers(new, n)
  <2>1. SUFFICES ASSUME NEW s \in 1 .. (n - 1) PROVE \E k \in Active(new) : Within(s, new[k])
    BY DEF Covers
  <2>2. PICK k \in Active(cat) : Within(s, cat[k])
    BY DEF Tiled, Covers
  <2>3. CASE k \in sources
    <3>1. /\ cat[k].seqLo \in Nat /\ cat[k].seqHi \in Nat
          /\ row.seqLo \in Nat /\ row.seqHi \in Nat
      BY <1>1, <1>6, RowTypes
    <3>2. Within(s, row)
      BY <3>1, <2>2, <2>3, <1>7 DEF Within
    <3> QED
      BY <3>2, <1>2, <1>8
  <2>4. CASE k \notin sources
    BY <2>2, <2>4, <1>8, <1>9
  <2> QED
    BY <2>3, <2>4
<1>13. Separate(new)
  BY <1>2, <1>8, <1>9, <1>10 DEF Tiled, Separate
<1>14. Layered(new)
  <2>1. row.tier = tier /\ row.tier \in Nat
    BY <1>3
  <2> QED
    BY <2>1, <1>2, <1>8, <1>9, <1>10 DEF Tiled, Layered
<1> QED
  BY <1>11, <1>12, <1>13, <1>14 DEF Tiled, new, row

-----------------------------------------------------------------------------
(* The objects in the active packs, and the need for compaction *)

LEMMA ActiveRowsDecide ==
    ASSUME NEW cat, NEW new, Active(new) = Active(cat), \A k \in Active(cat) : new[k] = cat[k]
    PROVE  /\ ActiveObjects(new) = ActiveObjects(cat)
           /\ catalogNeedsCompaction(new) <=> catalogNeedsCompaction(cat)
<1>1. ActiveObjects(new) = ActiveObjects(cat)
  BY DEF ActiveObjects
<1>2. \A t : TierPacks(new, t) = TierPacks(cat, t)
  BY DEF TierPacks
<1>3. {new[k].tier : k \in Active(new)} = {cat[k].tier : k \in Active(cat)}
  OBVIOUS
<1>4. OverflowingTiers(new) = OverflowingTiers(cat)
  BY <1>2, <1>3 DEF OverflowingTiers
<1> QED
  BY <1>1, <1>4 DEF catalogNeedsCompaction

LEMMA EmptyHasNothing ==
    /\ Active(EmptyCatalog) = {}
    /\ ActiveObjects(EmptyCatalog) = {}
    /\ ~ catalogNeedsCompaction(EmptyCatalog)
<1>1. Active(EmptyCatalog) = {}
  BY DEF Active, EmptyCatalog, NoRow
<1> QED
  BY <1>1 DEF ActiveObjects, catalogNeedsCompaction, OverflowingTiers

\* A push adds its objects, and never makes an overflowing tier fit.
LEMMA ReceiveAddsObjects ==
    ASSUME NEW cat \in Catalog, NEW n \in Nat, NEW key \in PackKey \ Active(cat),
           NEW objs \in SUBSET Object
    PROVE  /\ ActiveObjects([cat EXCEPT ![key] = ReceiveRow(n, objs)]) = ActiveObjects(cat) \cup objs
           /\ catalogNeedsCompaction(cat) =>
                  catalogNeedsCompaction([cat EXCEPT ![key] = ReceiveRow(n, objs)])
<1> DEFINE new == [cat EXCEPT ![key] = ReceiveRow(n, objs)]
<1>1. /\ new[key].state = "active" /\ new[key].objs = objs
      /\ \A k \in PackKey \ {key} : new[k] = cat[k]
  BY DEF Catalog, ReceiveRow
<1>2. Active(new) = Active(cat) \cup {key} /\ Active(cat) \subseteq PackKey
  BY <1>1 DEF Active
<1>3. \A k \in Active(cat) : new[k] = cat[k]
  BY <1>1, <1>2
<1> HIDE DEF new
<1>4. ActiveObjects(new) = ActiveObjects(cat) \cup objs
  BY <1>1, <1>2, <1>3 DEF ActiveObjects
<1>5. ASSUME NEW t \in OverflowingTiers(cat) PROVE t \in OverflowingTiers(new)
  <2>1. TierPacks(cat, t) \subseteq TierPacks(new, t) /\ TierPacks(new, t) \subseteq PackKey
    BY <1>2, <1>3 DEF TierPacks, Active
  <2>2. IsFiniteSet(TierPacks(new, t)) /\ IsFiniteSet(TierPacks(cat, t))
    BY <2>1, PackKeyFinite, FS_Subset
  <2>3. /\ Cardinality(TierPacks(cat, t)) <= Cardinality(TierPacks(new, t))
        /\ Cardinality(TierPacks(cat, t)) \in Nat /\ Cardinality(TierPacks(new, t)) \in Nat
    BY <2>1, <2>2, FS_Subset, FS_CardinalityType
  <2>4. Cardinality(TierPacks(cat, t)) > FAN_IN
    BY DEF OverflowingTiers
  <2>5. t \in {new[k].tier : k \in Active(new)}
    BY <1>2, <1>3 DEF OverflowingTiers
  <2> QED
    BY <2>3, <2>4, <2>5, CatalogAssumption DEF OverflowingTiers
<1> QED
  BY <1>4, <1>5 DEF new, catalogNeedsCompaction

\* A compaction that rewrote all objects of its sources loses none, and what it
\* supersedes is redundant.
LEMMA CompactKeepsObjects ==
    ASSUME NEW cat \in Catalog, NEW target \in PackKey \ Active(cat),
           NEW sources, NEW tier, PlanOf(cat, sources, tier), NEW objs \in SUBSET Object,
           \A k \in sources : cat[k].objs \subseteq objs
    PROVE  ActiveObjects(Supersede([cat EXCEPT ![target] = CompactRow(cat, sources, tier, objs)],
                                   sources, target))
               = ActiveObjects(cat) \cup objs
<1> DEFINE row == CompactRow(cat, sources, tier, objs)
           new == Supersede([cat EXCEPT ![target] = row], sources, target)
<1>1. sources \subseteq Active(cat) /\ target \notin sources /\ Active(cat) \subseteq PackKey
  BY DEF Active, PlanOf
<1>2. /\ \A k \in sources : new[k].state = "superseded"
      /\ new[target] = row
      /\ \A k \in PackKey \ (sources \cup {target}) : new[k] = cat[k]
  BY <1>1 DEF Supersede, Catalog, Row
<1>3. row.state = "active" /\ row.objs = objs
  BY DEF CompactRow
<1>4. Active(new) = (Active(cat) \ sources) \cup {target}
  BY <1>1, <1>2, <1>3 DEF Active
<1>5. \A k \in Active(cat) \ sources : new[k] = cat[k]
  BY <1>1, <1>2
<1> HIDE DEF row, new
<1>6. ActiveObjects(new) \subseteq ActiveObjects(cat) \cup objs
  BY <1>2, <1>3, <1>4, <1>5 DEF ActiveObjects
<1>7. ActiveObjects(cat) \subseteq ActiveObjects(new)
  <2>1. SUFFICES ASSUME NEW k \in Active(cat), NEW o \in cat[k].objs
                 PROVE  \E j \in Active(new) : o \in new[j].objs
    BY DEF ActiveObjects
  <2>2. CASE k \in sources
    BY <2>2, <1>2, <1>3, <1>4
  <2>3. CASE k \notin sources
    BY <2>3, <1>4, <1>5
  <2> QED
    BY <2>2, <2>3
<1>8. objs \subseteq ActiveObjects(new)
  BY <1>2, <1>3, <1>4 DEF ActiveObjects
<1> QED
  BY <1>6, <1>7, <1>8 DEF new, row

-----------------------------------------------------------------------------
(* Typing of the pieces the actions are built from *)

LEMMA AccessTypes ==
    ASSUME TypeOK
    PROVE  /\ touchedAccessMs \in Nat
           /\ touchedAlarm \in Nat
           /\ wokenAlarm \in Nat
           /\ ensureScheduled(0, lastAccessMs) \in Nat
<1> USE RepoAssumption DEF TypeOK
<1>1. touchedAccessMs \in Nat
  BY DEF touchedAccessMs
<1>2. ASSUME NEW access \in Nat PROVE planNextAlarm(access) \in Nat
  <2>1. receiveLease.expiresAt \in Nat /\ compactLease.expiresAt \in Nat
    BY DEF Lease
  <2>2. nextIdleAt(access) \in Nat
    BY <1>2 DEF nextIdleAt
  <2> QED
    BY <2>1, <2>2 DEF planNextAlarm
<1>3. ASSUME NEW prev \in Nat, NEW when \in Nat PROVE scheduleAlarmIfSooner(prev, when) \in Nat
  BY <1>3 DEF scheduleAlarmIfSooner
<1>4. ASSUME NEW prev \in Nat, NEW access \in Nat PROVE ensureScheduled(prev, access) \in Nat
  <2> DEFINE when == planNextAlarm(access)
             clamped == IF when < now + CLAMP THEN now + CLAMP ELSE when
  <2>1. when \in Nat
    BY <1>2, <1>4
  <2>2. clamped \in Nat
    BY <2>1
  <2>3. scheduleAlarmIfSooner(prev, clamped) \in Nat
    BY <1>3, <1>4, <2>2
  <2> QED
    BY <2>3 DEF ensureScheduled
<1>5. touchedAlarm \in Nat
  BY <1>1, <1>4 DEF touchedAlarm
<1>6. wokenAlarm \in Nat
  BY <1>3, <1>5 DEF wokenAlarm
<1> QED
  BY <1>1, <1>4, <1>5, <1>6

LEMMA TouchTypes ==
    ASSUME TypeOK, touch
    PROVE  lastAccessMs' \in Nat /\ lastAccessMemMs' \in Nat
BY AccessTypes DEF touch, TypeOK

LEMMA CallTypes ==
    ASSUME TypeOK, ensureAccessAndAlarm
    PROVE  lastAccessMs' \in Nat /\ lastAccessMemMs' \in Nat /\ alarm' \in Nat
BY AccessTypes, TouchTypes DEF ensureAccessAndAlarm

LEMMA LeaseTypes ==
    ASSUME NEW lease \in Lease
    PROVE  clearExpired(lease) \in {lease, NoLease} /\ NoLease \in Lease
BY DEF clearExpired, Lease, NoLease

LEMMA RowIsRow ==
    /\ NoRow \in Row
    /\ \A n \in Nat, objs \in SUBSET Object : ReceiveRow(n, objs) \in Row
BY DEF NoRow, Row, NoPack, ReceiveRow

LEMMA ViewIsCatalog ==
    ASSUME NEW cat \in Catalog
    PROVE  ActiveView(cat) \in Catalog
BY RowIsRow DEF ActiveView, Catalog

LEMMA NoGrantIsGrant == NoGrant \in Grant
BY RowIsRow DEF NoGrant, Grant, NoRefs, Refs, OidOrZero, EmptyCatalog, Catalog

LEMMA DefaultsTyped ==
    /\ NoRefs \in Refs /\ DEFAULT_HEAD \in HeadState /\ EmptyCatalog \in Catalog
    /\ NoLease \in Lease
BY RowIsRow, RefAssumption
   DEF NoRefs, Refs, OidOrZero, DEFAULT_HEAD, HeadState, EmptyCatalog, Catalog, NoLease, Lease

\* applyReceiveCommands takes the last command on a ref, and only a pushed oid,
\* the stored one or the zero oid ever results.
LEMMA ApplyTypes ==
    ASSUME NEW current \in Refs, NEW cmds \in Seq(Command)
    PROVE  /\ applyReceiveCommands(current, cmds) \in Refs
           /\ \A r \in RefName : applyReceiveCommands(current, cmds)[r]
                                     \in {current[r], ZeroOid} \cup newTips(cmds)
<1>1. ASSUME NEW r \in RefName, NEW i \in DOMAIN cmds, cmds[i].ref = r
      PROVE  lastCommandFor(cmds, r) \in DOMAIN cmds
  <2> DEFINE I == {j \in DOMAIN cmds : cmds[j].ref = r}
  <2>1. I \in SUBSET Nat /\ I # {} /\ Len(cmds) \in Nat /\ \A j \in I : j <= Len(cmds)
    BY <1>1
  <2> HIDE DEF I
  <2>2. Max(I) \in I /\ \A j \in I : j <= Max(I)
    BY <2>1, MaxNat
  <2> QED
    BY <2>2 DEF lastCommandFor, I
<1>2. ASSUME NEW r \in RefName
      PROVE  /\ applyReceiveCommands(current, cmds)[r] \in {current[r], ZeroOid} \cup newTips(cmds)
             /\ applyReceiveCommands(current, cmds)[r] \in OidOrZero
  <2>1. CASE \E i \in DOMAIN cmds : cmds[i].ref = r
    <3> DEFINE last == lastCommandFor(cmds, r)
    <3>1. last \in DOMAIN cmds
      BY <1>1, <2>1
    <3>2. cmds[last] \in Command
      BY <3>1
    <3>3. cmds[last].newOid \in OidOrZero
      BY <3>2 DEF Command
    <3>4. cmds[last].newOid \in {ZeroOid} \cup newTips(cmds)
      BY <3>1 DEF newTips
    <3> QED
      BY <2>1, <3>3, <3>4 DEF applyReceiveCommands
  <2>2. CASE ~ \E i \in DOMAIN cmds : cmds[i].ref = r
    BY <2>2 DEF applyReceiveCommands, Refs
  <2> QED
    BY <2>1, <2>2
<1> QED
  BY <1>2 DEF applyReceiveCommands, Refs

LEMMA HeadTypes ==
    ASSUME NEW h \in HeadState, NEW rs \in Refs
    PROVE  resolveHead(h, rs) \in HeadState
BY DEF resolveHead, HeadState, Refs

LEMMA GrantTypes ==
    ASSUME TypeOK
    PROVE  /\ receiveGrant \in Grant
           /\ receiveGrant.kind = "receive"
           /\ catalogNeedsCompaction(packCatalog) =>
                  /\ compactionGrant \in Grant
                  /\ compactionGrant.kind = "compact"
                  /\ compactionGrant.version = packsetVersion
                  /\ PlanOf(packCatalog, compactionGrant.sources, compactionGrant.tier)
<1>1. ActiveView(packCatalog) \in Catalog
  BY ViewIsCatalog DEF TypeOK
<1>2. receiveGrant \in Grant /\ receiveGrant.kind = "receive"
  BY <1>1, NoGrantIsGrant DEF receiveGrant, NoGrant, Grant, TypeOK
<1>3. ASSUME catalogNeedsCompaction(packCatalog)
      PROVE  /\ compactionGrant \in Grant
             /\ compactionGrant.kind = "compact"
             /\ compactionGrant.version = packsetVersion
             /\ compactionGrant.sources = planSources(packCatalog)
             /\ compactionGrant.tier = planTier(packCatalog) + 1
  <2>1. planTier(packCatalog) \in Nat /\ planSources(packCatalog) \subseteq PackKey
    BY <1>3, PlanSourcesIsPlan DEF TypeOK, PlanOf, Active
  <2>2. packsetVersion \in Nat /\ planTier(packCatalog) + 1 \in Nat /\ NoRefs \in Refs
    BY <2>1, DefaultsTyped DEF TypeOK
  <2> QED
    BY <1>1, <2>1, <2>2 DEF compactionGrant, NoGrant, Grant
<1> QED
  BY <1>2, <1>3, PlanSourcesIsPlan DEF TypeOK

LEMMA CompactRowIsRow ==
    ASSUME NEW cat \in Catalog, NEW n \in Nat, Bounded(cat, n), NEW tier \in Nat, NEW sources,
           PlanOf(cat, sources, tier), NEW objs \in SUBSET Object
    PROVE  CompactRow(cat, sources, tier, objs) \in Row
<1> DEFINE los == {cat[k].seqLo : k \in sources}
           his == {cat[k].seqHi : k \in sources}
<1>1. los \in SUBSET Nat /\ his \in SUBSET Nat /\ los # {} /\ his # {} /\ \A y \in his : y <= n
  BY RowTypes DEF PlanOf, Active, Bounded
<1>2. Min(los) \in Nat /\ Max(his) \in Nat
  BY <1>1, MinNat, MaxNat
<1> QED
  BY <1>2 DEF CompactRow, Row, NoPack

-----------------------------------------------------------------------------
(***************************************************************************)
(* The inductive invariant.  A lease that has not been used yet owns a key *)
(* no row has, so a commit, however late, adds a row and overwrites none;  *)
(* and while packsetVersion is the one a compaction was granted at, its    *)
(* plan still is one for the present catalog.                              *)
(***************************************************************************)
Unused(k) == packCatalog[k] = NoRow /\ k \notin removing

FreshKeys ==
    \A t \in Token :
        /\ t \notin issued \/ receiveLease.token = t => Unused(<<"rx", t>>)
        /\ t \notin issued \/ compactLease.token = t => Unused(<<"cmp", t>>)

GrantsIssued == \A t \in Token : grants[t].kind # "none" => t \in issued

RemovingInert == removing \cap Active(packCatalog) = {}

PlanHeld ==
    \A t \in Token :
        compactLease.token = t /\ grants[t].kind = "compact" =>
            /\ grants[t].version <= packsetVersion
            /\ grants[t].version = packsetVersion =>
                   PlanOf(packCatalog, grants[t].sources, grants[t].tier)

CatalogInv ==
    Tiled(packCatalog, nextPackSeq) /\ FreshKeys /\ GrantsIssued /\ RemovingInert /\ PlanHeld

IInv == TypeOK /\ CatalogInv

-----------------------------------------------------------------------------
(* Typing *)

LEMMA SupersedeTypes ==
    ASSUME NEW cat \in Catalog, NEW sources, NEW by \in PackKey
    PROVE  Supersede(cat, sources, by) \in Catalog
BY DEF Supersede, Catalog, Row

\* The sources' rows are the granted ones, so merging either gives one row.
LEMMA SameRowsSameMerge ==
    ASSUME NEW cat, NEW granted, NEW sources, NEW tier, NEW objs,
           rowsMatchForCommit(cat, granted, sources)
    PROVE  CompactRow(granted, sources, tier, objs) = CompactRow(cat, sources, tier, objs)
<1>1. /\ {granted[k].seqLo : k \in sources} = {cat[k].seqLo : k \in sources}
      /\ {granted[k].seqHi : k \in sources} = {cat[k].seqHi : k \in sources}
  BY DEF rowsMatchForCommit
<1> QED
  BY <1>1 DEF CompactRow

LEMMA InitTyped ==
    ASSUME Init
    PROVE  TypeOK
<1>1. refs \in Refs /\ head \in HeadState /\ packCatalog \in Catalog
  BY DefaultsTyped DEF Init
<1>2. receiveLease \in Lease /\ compactLease \in Lease
  BY DefaultsTyped DEF Init
<1>3. grants \in [Token -> Grant]
  BY NoGrantIsGrant DEF Init
<1>4. compactionWanted \in BOOLEAN
  BY Zenon DEF Init
<1> QED
  BY <1>1, <1>2, <1>3, <1>4 DEF Init, TypeOK

LEMMA DeleteAllTypes ==
    ASSUME deleteAll
    PROVE  /\ refs' \in Refs /\ head' \in HeadState /\ refsVersion' \in Nat
           /\ packCatalog' \in Catalog /\ packsetVersion' \in Nat /\ nextPackSeq' \in Nat \ {0}
           /\ receiveLease' \in Lease /\ compactLease' \in Lease
           /\ compactionWanted' \in BOOLEAN
           /\ lastAccessMs' \in Nat /\ alarm' \in Nat
<1>1. refs' \in Refs /\ head' \in HeadState /\ packCatalog' \in Catalog
  BY DefaultsTyped DEF deleteAll
<1>2. receiveLease' \in Lease /\ compactLease' \in Lease
  BY DefaultsTyped DEF deleteAll
<1>3. compactionWanted' \in BOOLEAN
  BY Zenon DEF deleteAll
<1> QED
  BY <1>1, <1>2, <1>3 DEF deleteAll

LEMMA WakeTypes ==
    ASSUME TypeOK, NEW cat, wakeIfNeeded(cat)
    PROVE  alarm' \in Nat
BY AccessTypes DEF wakeIfNeeded

LEMMA ReceiveTyped ==
    ASSUME TypeOK, ReceiveNext
    PROVE  TypeOK'
<1> USE CallTypes, LeaseTypes, NoGrantIsGrant
    DEF refVars, packVars, leaseVars, accessVars, callerVars
<1>1. CASE beginReceiveBusy
  BY <1>1 DEF beginReceiveBusy, clearExpiredLeases, TypeOK
<1>2. ASSUME NEW t \in Token, beginReceive(t) PROVE TypeOK'
  <2>1. receiveLease' \in Lease
    BY <1>2, RepoAssumption DEF beginReceive, Lease, TypeOK
  <2> QED
    BY <1>2, <2>1, GrantTypes DEF beginReceive, TypeOK
<1>3. ASSUME NEW t \in Token, abortReceive(t) PROVE TypeOK'
  BY <1>3 DEF abortReceive, TypeOK
<1>4. ASSUME NEW t \in Token, finalizeReceiveMismatch(t) PROVE TypeOK'
  BY <1>4 DEF finalizeReceiveMismatch, TypeOK
<1>5. ASSUME NEW t \in Token, NEW cmds \in CommandLists, finalizeReceiveConflict(t, cmds)
      PROVE  TypeOK'
  BY <1>5 DEF finalizeReceiveConflict, TypeOK
<1>6. ASSUME NEW t \in Token, NEW cmds \in CommandLists, NEW objs \in StagedObjects,
             finalizeReceive(t, cmds, objs)
      PROVE  TypeOK'
  <2>1. refs' \in Refs /\ head' \in HeadState
    BY <1>6, ApplyTypes, HeadTypes, RepoAssumption DEF finalizeReceive, TypeOK
  <2>2. ReceiveRow(nextPackSeq, objs) \in Row /\ <<"rx", t>> \in PackKey
    BY RowIsRow, RepoAssumption DEF TypeOK, PackKey
  <2>3. /\ packCatalog' \in Catalog /\ packsetVersion' \in Nat /\ nextPackSeq' \in Nat \ {0}
        /\ compactionWanted' \in BOOLEAN /\ alarm' \in Nat
    <3>1. CASE hasNonDelete(cmds)
      <4>1. commitReceivedPack(t, objs)
        BY <1>6, <3>1 DEF finalizeReceive
      <4>2. packCatalog' \in Catalog /\ packsetVersion' \in Nat /\ nextPackSeq' \in Nat \ {0}
        BY <4>1, <2>2 DEF commitReceivedPack, Catalog, TypeOK
      <4>3. compactionWanted' \in BOOLEAN
        BY <4>1 DEF commitReceivedPack, catalogNeedsCompaction, TypeOK
      <4>4. alarm' \in Nat
        BY <4>1, WakeTypes DEF commitReceivedPack
      <4> QED
        BY <4>2, <4>3, <4>4
    <3>2. CASE ~ hasNonDelete(cmds)
      BY <1>6, <3>2, AccessTypes DEF finalizeReceive, TypeOK
    <3> QED
      BY <3>1, <3>2
  <2> QED
    BY <1>6, <2>1, <2>3, TouchTypes DEF finalizeReceive, TypeOK
<1> QED
  BY <1>1, <1>2, <1>3, <1>4, <1>5, <1>6 DEF ReceiveNext

\* Only the commit needs more than the types: the range of the merged row
\* exists because the plan has a source and the ranges are bounded.
LEMMA CompactionTyped ==
    ASSUME IInv, CompactionNext
    PROVE  TypeOK'
<1> USE CallTypes, LeaseTypes, NoGrantIsGrant
    DEF refVars, packVars, leaseVars, accessVars, callerVars, IInv
<1>1. CASE beginCompactionSkip
  BY <1>1 DEF beginCompactionSkip, clearExpiredLeases, compactionDue, TypeOK
<1>2. ASSUME NEW t \in Token, beginCompaction(t) PROVE TypeOK'
  <2>1. compactLease' \in Lease
    BY <1>2, RepoAssumption DEF beginCompaction, Lease, TypeOK
  <2> QED
    BY <1>2, <2>1, GrantTypes DEF beginCompaction, TypeOK
<1>3. ASSUME NEW t \in Token, abortCompaction(t) PROVE TypeOK'
  BY <1>3 DEF abortCompaction, TypeOK
<1>4. ASSUME NEW t \in Token, commitCompactionRetry(t) PROVE TypeOK'
  BY <1>4 DEF commitCompactionRetry, TypeOK
<1>5. ASSUME NEW t \in Token, NEW objs \in SUBSET Object, commitCompaction(t, objs)
      PROVE  TypeOK'
  <2> DEFINE g == grants[t]
             target == <<"cmp", t>>
             row == CompactRow(g.catalog, g.sources, g.tier, objs)
  <2>1. /\ g \in Grant /\ g.catalog \in Catalog /\ g.tier \in Nat /\ target \in PackKey
        /\ packCatalog \in Catalog
    BY DEF TypeOK, Grant, PackKey
  <2>2. row = CompactRow(packCatalog, g.sources, g.tier, objs)
    BY <1>5, SameRowsSameMerge DEF commitCompaction, commitAllowed
  <2>3. PlanOf(packCatalog, g.sources, g.tier)
    BY <1>5 DEF commitCompaction, commitAllowed, CatalogInv, PlanHeld, TypeOK
  <2>4. row \in Row
    BY <2>1, <2>2, <2>3, CompactRowIsRow DEF CatalogInv, Tiled, TypeOK
  <2>5. packCatalog' \in Catalog
    <3>1. [packCatalog EXCEPT ![target] = row] \in Catalog
      BY <2>1, <2>4 DEF Catalog
    <3>2. packCatalog' = Supersede([packCatalog EXCEPT ![target] = row], g.sources, target)
      BY <1>5 DEF commitCompaction
    <3> QED
      BY <2>1, <3>1, <3>2, SupersedeTypes
  <2>6. alarm' \in Nat
    BY <1>5, WakeTypes DEF commitCompaction
  <2>7. compactionWanted' \in BOOLEAN
    BY <1>5 DEF commitCompaction, catalogNeedsCompaction
  <2> QED
    BY <1>5, <2>5, <2>6, <2>7, TouchTypes DEF commitCompaction, TypeOK
<1>6. CASE requestCompaction
  BY <1>6, WakeTypes, TouchTypes DEF requestCompaction, catalogNeedsCompaction, TypeOK
<1>7. CASE clearCompactionRequest
  BY <1>7 DEF clearCompactionRequest, TypeOK
<1> QED
  BY <1>1, <1>2, <1>3, <1>4, <1>5, <1>6, <1>7 DEF CompactionNext

LEMMA AdminTyped ==
    ASSUME TypeOK, AdminNext
    PROVE  TypeOK'
<1> USE CallTypes DEF refVars, packVars, leaseVars, accessVars, callerVars
<1>1. CASE read
  BY <1>1 DEF read, TypeOK
<1>2. CASE getHead
  BY <1>2, HeadTypes DEF getHead, TypeOK
<1>3. ASSUME NEW newRefs \in AdminRefs, setRefs(newRefs) PROVE TypeOK'
  BY <1>3, RepoAssumption DEF setRefs, TypeOK
<1>4. ASSUME NEW newHead \in AdminHeads, setHead(newHead) PROVE TypeOK'
  BY <1>4, RepoAssumption DEF setHead, TypeOK
<1>5. ASSUME NEW k \in PackKey, removePackCheck(k) PROVE TypeOK'
  BY <1>5 DEF removePackCheck, TypeOK
<1>6. ASSUME NEW k \in PackKey, removePackRow(k) PROVE TypeOK'
  BY <1>6, RowIsRow DEF removePackRow, TypeOK, Catalog
<1>7. CASE clearRepositoryStorage
  BY <1>7, DeleteAllTypes DEF clearRepositoryStorage, TypeOK
<1> QED
  BY <1>1, <1>2, <1>3, <1>4, <1>5, <1>6, <1>7 DEF AdminNext

LEMMA AlarmTyped ==
    ASSUME TypeOK, AlarmNext
    PROVE  TypeOK'
<1> USE LeaseTypes, AccessTypes, RepoAssumption
    DEF refVars, packVars, leaseVars, accessVars, callerVars, clearExpiredLeases
<1>1. ASSUME NEW sent \in BOOLEAN, alarmRearm(sent) PROVE TypeOK'
  BY <1>1 DEF alarmRearm, TypeOK
<1>2. CASE alarmActive
  BY <1>2 DEF alarmActive, TypeOK
<1>3. CASE alarmEmptyIdle
  BY <1>3, DeleteAllTypes DEF alarmEmptyIdle, TypeOK
<1>4. CASE alarmNonEmptyIdle
  BY <1>4 DEF alarmNonEmptyIdle, TypeOK
<1> QED
  BY <1>1, <1>2, <1>3, <1>4 DEF AlarmNext

LEMMA TypeStep ==
    ASSUME IInv, [Next]_vars
    PROVE  TypeOK'
<1>1. CASE restart
  BY <1>1 DEF restart, refVars, packVars, leaseVars, callerVars, IInv, TypeOK
<1>2. CASE tick
  BY <1>2 DEF tick, refVars, packVars, leaseVars, accessVars, callerVars, IInv, TypeOK
<1>3. CASE UNCHANGED vars
  BY <1>3 DEF vars, refVars, packVars, leaseVars, accessVars, callerVars, IInv, TypeOK
<1> QED
  BY <1>1, <1>2, <1>3, ReceiveTyped, CompactionTyped, AdminTyped, AlarmTyped DEF Next, IInv

-----------------------------------------------------------------------------
(* The catalog *)

LEMMA InitCatalog ==
    ASSUME Init
    PROVE  CatalogInv
<1>1. Active(packCatalog) = {}
  BY DEF Init, EmptyCatalog, NoRow, Active
<1>2. Tiled(packCatalog, nextPackSeq)
  BY <1>1 DEF Init, Tiled, Bounded, Covers, Separate, Layered
<1>3. FreshKeys
  BY DEF Init, FreshKeys, Unused, EmptyCatalog, PackKey
<1>4. GrantsIssued /\ RemovingInert /\ PlanHeld
  BY DEF Init, GrantsIssued, NoGrant, RemovingInert, PlanHeld
<1> QED
  BY <1>2, <1>3, <1>4 DEF CatalogInv

\* Steps that leave the catalog and its callers alone, except that a lease may
\* go, a grant may be dropped, and a removePack may be forgotten.
LeaseMayGo ==
    /\ receiveLease' \in {receiveLease, NoLease}
    /\ compactLease' \in {compactLease, NoLease}

GrantMayGo ==
    grants' = grants \/ \E t \in Token : grants' = [grants EXCEPT ![t] = NoGrant]

Quiet ==
    /\ UNCHANGED <<packVars, issued>>
    /\ removing' \subseteq removing
    /\ LeaseMayGo
    /\ GrantMayGo

LEMMA GrantGoes ==
    ASSUME TypeOK, GrantMayGo, NEW t \in Token
    PROVE  grants'[t] \in {grants[t], NoGrant}
BY DEF GrantMayGo, TypeOK

LEMMA QuietKeeps ==
    ASSUME IInv, Quiet
    PROVE  CatalogInv'
<1> USE DEF IInv, CatalogInv, Quiet
<1>1. Tiled(packCatalog, nextPackSeq)'
  BY DEF packVars
<1>2. \A t \in Token : /\ receiveLease'.token = t => receiveLease.token = t
                       /\ compactLease'.token = t => compactLease = compactLease' /\ compactLease.token = t
  BY CatalogAssumption DEF LeaseMayGo, NoLease
<1>3. FreshKeys'
  BY <1>2 DEF FreshKeys, Unused, packVars
<1>4. GrantsIssued'
  BY GrantGoes DEF GrantsIssued, NoGrant
<1>5. RemovingInert'
  BY DEF RemovingInert, packVars
<1>6. PlanHeld'
  BY <1>2, GrantGoes DEF PlanHeld, NoGrant, packVars
<1> QED
  BY <1>1, <1>3, <1>4, <1>5, <1>6

LEMMA UnusedIsInactive ==
    ASSUME NEW k, Unused(k)
    PROVE  packCatalog[k].state = "none" /\ k \notin Active(packCatalog) /\ k \notin removing
BY DEF Unused, NoRow, Active

\* The holder of a lease owns its key.
LEMMA LeaseKey ==
    ASSUME IInv, NEW t \in Token
    PROVE  /\ receiveLease.token = t => Unused(<<"rx", t>>)
           /\ compactLease.token = t => Unused(<<"cmp", t>>)
           /\ <<"rx", t>> \in PackKey /\ <<"cmp", t>> \in PackKey
           /\ grants[t].kind # "none" => t \in issued
BY DEF IInv, CatalogInv, FreshKeys, GrantsIssued, PackKey

LEMMA ClearingIsQuiet ==
    /\ clearExpiredLeases => LeaseMayGo
    /\ UNCHANGED leaseVars => LeaseMayGo
BY DEF clearExpiredLeases, clearExpired, LeaseMayGo, leaseVars

\* A granted lease owns keys nobody has used.
LEMMA BeginReceiveKeeps ==
    ASSUME IInv, NEW t \in Token, beginReceive(t)
    PROVE  CatalogInv'
<1> USE DEF IInv, CatalogInv
<1>1. /\ UNCHANGED <<packVars, removing>>
      /\ issued' = issued \cup {t} /\ t \notin issued
      /\ receiveLease'.token = t
      /\ compactLease' \in {compactLease, NoLease}
      /\ grants' = [grants EXCEPT ![t] = receiveGrant]
  BY DEF beginReceive, clearExpired
<1>2. \A u \in Token : compactLease'.token = u => compactLease.token = u
  BY <1>1, CatalogAssumption DEF NoLease
<1>3. /\ grants'[t].kind = "receive"
      /\ \A u \in Token \ {t} : grants'[u] = grants[u]
  BY <1>1, GrantTypes DEF TypeOK
<1>4. FreshKeys'
  BY <1>1, <1>2 DEF FreshKeys, Unused, packVars
<1>5. GrantsIssued'
  BY <1>1, <1>3 DEF GrantsIssued
<1>6. PlanHeld'
  BY <1>1, <1>2, <1>3 DEF PlanHeld, packVars
<1>7. Tiled(packCatalog, nextPackSeq)' /\ RemovingInert'
  BY <1>1 DEF RemovingInert, packVars
<1> QED
  BY <1>4, <1>5, <1>6, <1>7

LEMMA BeginCompactionKeeps ==
    ASSUME IInv, NEW t \in Token, beginCompaction(t)
    PROVE  CatalogInv'
<1> USE DEF IInv, CatalogInv
<1>1. /\ UNCHANGED <<packVars, removing>>
      /\ issued' = issued \cup {t} /\ t \notin issued
      /\ receiveLease' = NoLease
      /\ compactLease'.token = t
      /\ grants' = [grants EXCEPT ![t] = compactionGrant]
      /\ catalogNeedsCompaction(packCatalog)
  BY DEF beginCompaction
<1>2. \A u \in Token : receiveLease'.token # u
  BY <1>1, CatalogAssumption DEF NoLease
<1>3. /\ grants'[t] = compactionGrant
      /\ \A u \in Token \ {t} : grants'[u] = grants[u]
  BY <1>1 DEF TypeOK
<1>4. FreshKeys'
  BY <1>1, <1>2 DEF FreshKeys, Unused, packVars
<1>5. GrantsIssued'
  BY <1>1, <1>3 DEF GrantsIssued
<1>6. PlanHeld'
  BY <1>1, <1>3, GrantTypes DEF PlanHeld, packVars, TypeOK
<1>7. Tiled(packCatalog, nextPackSeq)' /\ RemovingInert'
  BY <1>1 DEF RemovingInert, packVars
<1> QED
  BY <1>4, <1>5, <1>6, <1>7

\* The row of a commit, however late it comes, is a new one, numbered above all
\* others.
LEMMA FinalizeKeeps ==
    ASSUME IInv, NEW t \in Token, NEW cmds \in CommandLists, NEW objs \in StagedObjects,
           finalizeReceive(t, cmds, objs)
    PROVE  CatalogInv'
<1> USE DEF IInv, CatalogInv
<1> DEFINE key == <<"rx", t>>
<1>1. /\ grants[t].kind = "receive" /\ receiveLease.token = t
      /\ receiveLease' = NoLease /\ compactLease' = compactLease
      /\ grants' = [grants EXCEPT ![t] = NoGrant]
      /\ UNCHANGED <<issued, removing>>
  BY DEF finalizeReceive
<1>2. CASE hasNonDelete(cmds)
  <2>1. /\ packCatalog' = [packCatalog EXCEPT ![key] = ReceiveRow(nextPackSeq, objs)]
        /\ nextPackSeq' = nextPackSeq + 1
        /\ packsetVersion' = packsetVersion + 1
    BY <1>2 DEF finalizeReceive, commitReceivedPack
  <2>2. key \in PackKey \ Active(packCatalog) /\ t \in issued /\ key \notin removing
    BY <1>1, LeaseKey, UnusedIsInactive
  <2>3. Tiled(packCatalog, nextPackSeq)'
    <3>1. objs \in SUBSET Object
      BY RepoAssumption
    <3> QED
      BY <2>1, <2>2, <3>1, ReceiveKeepsTiling DEF TypeOK
  <2>4. /\ \A k \in PackKey \ {key} : packCatalog'[k] = packCatalog[k]
        /\ Active(packCatalog') \subseteq Active(packCatalog) \cup {key}
    BY <2>1 DEF TypeOK, Catalog, Active
  <2>5. FreshKeys'
    <3>1. \A u \in Token : /\ <<"cmp", u>> \in PackKey \ {key}
                           /\ u # t => <<"rx", u>> \in PackKey \ {key}
      BY DEF PackKey
    <3>2. \A u \in Token : receiveLease'.token # u
      BY <1>1, CatalogAssumption DEF NoLease
    <3> QED
      BY <1>1, <2>2, <2>4, <3>1, <3>2 DEF FreshKeys, Unused
  <2>6. GrantsIssued'
    BY <1>1, GrantGoes DEF GrantsIssued, GrantMayGo, NoGrant
  <2>7. RemovingInert'
    BY <1>1, <2>2, <2>4 DEF RemovingInert
  <2>8. PlanHeld'
    <3>1. SUFFICES ASSUME NEW u \in Token, compactLease.token = u, grants'[u].kind = "compact"
                   PROVE  /\ grants'[u].version <= packsetVersion'
                          /\ grants'[u].version # packsetVersion'
      BY <1>1 DEF PlanHeld
    <3>2. grants'[u] = grants[u]
      BY <1>1, <3>1, GrantGoes DEF GrantMayGo, NoGrant
    <3>3. grants[u].version <= packsetVersion /\ grants[u].version \in Nat
      BY <3>1, <3>2 DEF PlanHeld, TypeOK, Grant
    <3> QED
      BY <2>1, <3>2, <3>3 DEF TypeOK
  <2> QED
    BY <2>3, <2>5, <2>6, <2>7, <2>8
<1>3. CASE ~ hasNonDelete(cmds)
  <2>1. Quiet
    BY <1>1, <1>3 DEF finalizeReceive, Quiet, LeaseMayGo, GrantMayGo
  <2> QED
    BY <2>1, QuietKeeps
<1> QED
  BY <1>2, <1>3

LEMMA CommitCompactionKeeps ==
    ASSUME IInv, NEW t \in Token, NEW objs \in SUBSET Object, commitCompaction(t, objs)
    PROVE  CatalogInv'
<1> USE DEF IInv, CatalogInv
<1> DEFINE key == <<"cmp", t>>
           g == grants[t]
           row == CompactRow(packCatalog, g.sources, g.tier, objs)
<1>1. /\ g.kind = "compact" /\ compactLease.token = t
      /\ compactLease' = NoLease /\ receiveLease' = receiveLease
      /\ grants' = [grants EXCEPT ![t] = NoGrant]
      /\ UNCHANGED <<issued, removing, nextPackSeq>>
      /\ packsetVersion = g.version
  BY DEF commitCompaction, commitAllowed
<1>2. packCatalog' = Supersede([packCatalog EXCEPT ![key] = row], g.sources, key)
  <2>1. row = CompactRow(g.catalog, g.sources, g.tier, objs)
    BY SameRowsSameMerge DEF commitCompaction, commitAllowed
  <2> QED
    BY <2>1 DEF commitCompaction
<1>3. PlanOf(packCatalog, g.sources, g.tier) /\ g.tier \in Nat
  BY <1>1 DEF PlanHeld, TypeOK, Grant
<1>4. key \in PackKey \ Active(packCatalog) /\ t \in issued /\ key \notin removing
  BY <1>1, LeaseKey, UnusedIsInactive
<1>5. Tiled(packCatalog, nextPackSeq)'
  BY <1>1, <1>2, <1>3, <1>4, CompactKeepsTiling DEF TypeOK
<1>6. /\ g.sources \subseteq Active(packCatalog)
      /\ \A k \in PackKey \ (g.sources \cup {key}) : packCatalog'[k] = packCatalog[k]
      /\ Active(packCatalog') \subseteq Active(packCatalog) \cup {key}
  BY <1>2, <1>3 DEF PlanOf, Supersede, Active, TypeOK, Catalog
<1>7. FreshKeys'
  <2>1. \A u \in Token : compactLease'.token # u
    BY <1>1, CatalogAssumption DEF NoLease
  <2>2. \A k \in PackKey : packCatalog[k] = NoRow /\ k # key => packCatalog'[k] = NoRow
    BY <1>6 DEF Active, NoRow
  <2>3. \A u \in Token : /\ <<"rx", u>> \in PackKey /\ <<"rx", u>> # key
                         /\ <<"cmp", u>> \in PackKey /\ (u # t => <<"cmp", u>> # key)
    BY DEF PackKey
  <2> QED
    BY <1>1, <1>4, <2>1, <2>2, <2>3 DEF FreshKeys, Unused
<1>8. GrantsIssued'
  BY <1>1, GrantGoes DEF GrantsIssued, GrantMayGo, NoGrant
<1>9. RemovingInert'
  BY <1>1, <1>4, <1>6 DEF RemovingInert
<1>10. PlanHeld'
  BY <1>1, CatalogAssumption DEF PlanHeld, NoLease
<1> QED
  BY <1>5, <1>7, <1>8, <1>9, <1>10

\* Deleting the row of a pack that is not active keeps the tiling.
LEMMA DroppedRow ==
    ASSUME packCatalog \in Catalog, nextPackSeq \in Nat, Tiled(packCatalog, nextPackSeq),
           NEW k \in PackKey \ Active(packCatalog),
           packCatalog' = [packCatalog EXCEPT ![k] = NoRow]
    PROVE  /\ Tiled(packCatalog', nextPackSeq)
           /\ Active(packCatalog') = Active(packCatalog)
           /\ \A j \in Active(packCatalog) : packCatalog'[j] = packCatalog[j]
<1>1. packCatalog'[k].state = "none"
      /\ \A j \in PackKey \ {k} : packCatalog'[j] = packCatalog[j]
  BY DEF Catalog, NoRow
<1>2. /\ Active(packCatalog') = Active(packCatalog)
      /\ \A j \in Active(packCatalog) : packCatalog'[j] = packCatalog[j]
  BY <1>1 DEF Active
<1>3. Tiled(packCatalog', nextPackSeq)
  BY <1>2 DEF Tiled, Bounded, Covers, Within, Separate, Layered
<1> QED
  BY <1>2, <1>3

\* removePack looks at the row before its R2 deletes and drops it afterwards;
\* a row that is not active then is not active ever again.
LEMMA RemovePackKeeps ==
    ASSUME IInv, NEW k \in PackKey, removePackCheck(k) \/ removePackRow(k)
    PROVE  CatalogInv'
<1> USE DEF IInv, CatalogInv
<1>1. CASE removePackCheck(k)
  <2>1. /\ UNCHANGED <<packVars, leaseVars, callerVars>>
        /\ removing' = removing \cup {k} /\ packCatalog[k].state = "superseded"
    BY <1>1 DEF removePackCheck
  <2>2. FreshKeys'
    <3>1. \A j : Unused(j) => Unused(j)'
      BY <2>1, UnusedIsInactive DEF Unused, packVars
    <3> QED
      BY <2>1, <3>1 DEF FreshKeys, leaseVars, callerVars
  <2>3. RemovingInert'
    BY <2>1 DEF RemovingInert, Active, packVars
  <2> QED
    BY <2>1, <2>2, <2>3 DEF GrantsIssued, PlanHeld, packVars, leaseVars, callerVars
<1>2. CASE removePackRow(k)
  <2>1. /\ UNCHANGED <<packsetVersion, nextPackSeq, leaseVars, callerVars>>
        /\ removing' = removing \ {k} /\ k \in removing
        /\ packCatalog' = [packCatalog EXCEPT ![k] = NoRow]
    BY <1>2 DEF removePackRow
  <2>2. k \in PackKey \ Active(packCatalog)
    BY <2>1 DEF RemovingInert
  <2>3. /\ Tiled(packCatalog, nextPackSeq)'
        /\ Active(packCatalog)' = Active(packCatalog)
        /\ \A j \in Active(packCatalog) : packCatalog'[j] = packCatalog[j]
    <3>1. packCatalog \in Catalog /\ nextPackSeq \in Nat /\ Tiled(packCatalog, nextPackSeq)
      BY DEF TypeOK
    <3>2. /\ Tiled(packCatalog', nextPackSeq)
          /\ Active(packCatalog') = Active(packCatalog)
          /\ \A j \in Active(packCatalog) : packCatalog'[j] = packCatalog[j]
      BY <2>1, <2>2, <3>1, DroppedRow, Zenon
    <3> QED
      BY <2>1, <3>2, Zenon
  <2>4. FreshKeys'
    <3>1. \A j \in PackKey : packCatalog[j] = NoRow => packCatalog'[j] = NoRow
      BY <2>1 DEF TypeOK, Catalog
    <3> QED
      BY <2>1, <3>1 DEF FreshKeys, Unused, PackKey, leaseVars, callerVars
  <2>5. RemovingInert'
    BY <2>1, <2>3 DEF RemovingInert
  <2>6. PlanHeld'
    BY <2>1, <2>3, PlanOfActiveRows DEF PlanHeld, leaseVars, callerVars
  <2> QED
    BY <2>1, <2>3, <2>4, <2>5, <2>6 DEF GrantsIssued, callerVars
<1> QED
  BY <1>1, <1>2

LEMMA DeleteAllKeeps ==
    ASSUME IInv, deleteAll, UNCHANGED <<callerVars, removing>>
    PROVE  CatalogInv'
<1> USE DEF IInv, CatalogInv
<1>1. /\ packCatalog' = EmptyCatalog /\ nextPackSeq' = 1
      /\ receiveLease' = NoLease /\ compactLease' = NoLease
  BY DEF deleteAll
<1>2. Active(packCatalog') = {}
  BY <1>1 DEF EmptyCatalog, NoRow, Active
<1>3. Tiled(packCatalog, nextPackSeq)'
  BY <1>1, <1>2 DEF Tiled, Bounded, Covers, Separate, Layered
<1>4. \A u \in Token : receiveLease'.token # u /\ compactLease'.token # u
  BY <1>1, CatalogAssumption DEF NoLease
<1>5. FreshKeys'
  BY <1>1, <1>4 DEF FreshKeys, Unused, EmptyCatalog, PackKey, callerVars
<1>6. RemovingInert'
  BY <1>2 DEF RemovingInert
<1>7. GrantsIssued' /\ PlanHeld'
  BY <1>4 DEF GrantsIssued, PlanHeld, callerVars
<1> QED
  BY <1>3, <1>5, <1>6, <1>7

LEMMA CatalogStep ==
    ASSUME IInv, [Next]_vars
    PROVE  CatalogInv'
<1> USE DEF leaseVars, callerVars
<1>1. CASE ReceiveNext
  <2>1. CASE beginReceiveBusy
    BY <2>1, ClearingIsQuiet, QuietKeeps DEF beginReceiveBusy, Quiet, GrantMayGo
  <2>2. ASSUME NEW t \in Token, \/ abortReceive(t) \/ finalizeReceiveMismatch(t)
                                \/ \E cmds \in CommandLists : finalizeReceiveConflict(t, cmds)
        PROVE  CatalogInv'
    BY <2>2, QuietKeeps
       DEF abortReceive, finalizeReceiveMismatch, finalizeReceiveConflict, Quiet, LeaseMayGo, GrantMayGo
  <2> QED
    BY <1>1, <2>1, <2>2, BeginReceiveKeeps, FinalizeKeeps DEF ReceiveNext
<1>2. CASE CompactionNext
  <2>1. CASE beginCompactionSkip
    BY <2>1, ClearingIsQuiet, QuietKeeps DEF beginCompactionSkip, Quiet, GrantMayGo
  <2>2. ASSUME NEW t \in Token, abortCompaction(t) \/ commitCompactionRetry(t)
        PROVE  CatalogInv'
    BY <2>2, QuietKeeps DEF abortCompaction, commitCompactionRetry, Quiet, LeaseMayGo, GrantMayGo
  <2>3. CASE requestCompaction \/ clearCompactionRequest
    BY <2>3, QuietKeeps DEF requestCompaction, clearCompactionRequest, Quiet, LeaseMayGo, GrantMayGo
  <2> QED
    BY <1>2, <2>1, <2>2, <2>3, BeginCompactionKeeps, CommitCompactionKeeps DEF CompactionNext
<1>3. CASE AdminNext
  <2>1. CASE read \/ getHead
    BY <2>1, QuietKeeps DEF read, getHead, Quiet, LeaseMayGo, GrantMayGo
  <2>2. ASSUME \/ \E newRefs \in AdminRefs : setRefs(newRefs)
               \/ \E newHead \in AdminHeads : setHead(newHead)
        PROVE  CatalogInv'
    BY <2>2, QuietKeeps DEF setRefs, setHead, Quiet, LeaseMayGo, GrantMayGo
  <2>3. CASE clearRepositoryStorage
    BY <2>3, DeleteAllKeeps DEF clearRepositoryStorage
  <2> QED
    BY <1>3, <2>1, <2>2, <2>3, RemovePackKeeps DEF AdminNext
<1>4. CASE AlarmNext
  <2>1. ASSUME (\E sent \in BOOLEAN : alarmRearm(sent)) \/ alarmActive \/ alarmNonEmptyIdle
        PROVE  CatalogInv'
    BY <2>1, ClearingIsQuiet, QuietKeeps
       DEF alarmRearm, alarmActive, alarmNonEmptyIdle, Quiet, GrantMayGo
  <2>2. CASE alarmEmptyIdle
    BY <2>2, DeleteAllKeeps DEF alarmEmptyIdle
  <2> QED
    BY <1>4, <2>1, <2>2 DEF AlarmNext
<1>5. CASE restart \/ tick \/ UNCHANGED vars
  BY <1>5, QuietKeeps DEF restart, tick, vars, Quiet, LeaseMayGo, GrantMayGo
<1> QED
  BY <1>1, <1>2, <1>3, <1>4, <1>5 DEF Next

LEMMA Inductive == IInv /\ [Next]_vars => IInv'
BY TypeStep, CatalogStep DEF IInv

LEMMA Invariance == Spec => []IInv
<1>1. Init => IInv
  BY InitTyped, InitCatalog DEF IInv
<1> QED
  BY <1>1, Inductive, PTL DEF Spec

-----------------------------------------------------------------------------
\* Every row, lease, grant and counter keeps its type under every RPC and alarm
\* outcome; in particular the merged range of a compaction is always a number.
THEOREM TypeCorrect == Spec => []TypeOK
<1>1. IInv => TypeOK
  BY DEF IInv
<1> QED
  BY <1>1, Invariance, PTL

\* Whatever expires, arrives late or is removed, the active packs cover every
\* receive sequence number handed out exactly once.
THEOREM CoverIsDisjoint == Spec => []DisjointCover
<1>1. IInv => DisjointCover
  BY DEF IInv, CatalogInv, Tiled, DisjointCover
<1> QED
  BY <1>1, Invariance, PTL

\* Packs of a higher tier are older than all packs of a lower tier, so readers
\* that go newest first by seqHi go tier by tier.
THEOREM TiersAreOrdered == Spec => []TierOrder
<1>1. IInv => TierOrder
  BY DEF IInv, CatalogInv, Tiled, TierOrder
<1> QED
  BY <1>1, Invariance, PTL

-----------------------------------------------------------------------------
(* One step, as the packs see it *)

\* The pack rows readers use stay as they are.
ActiveRowsStay ==
    /\ Active(packCatalog') = Active(packCatalog)
    /\ \A k \in Active(packCatalog) : packCatalog'[k] = packCatalog[k]

\* Of the superseded rows, some may go.
SupersededRowsGo ==
    \A k \in PackKey :
        packCatalog'[k].state = "superseded" => packCatalog'[k] = packCatalog[k]

Receives(t, objs) ==
    /\ <<"rx", t>> \in PackKey \ Active(packCatalog)
    /\ packCatalog' = [packCatalog EXCEPT ![<<"rx", t>>] = ReceiveRow(nextPackSeq, objs)]
    /\ packsetVersion' = packsetVersion + 1

Compacts(t, objs) ==
    LET g == grants[t]
        key == <<"cmp", t>>
    IN  /\ key \in PackKey \ Active(packCatalog)
        /\ PlanOf(packCatalog, g.sources, g.tier)
        /\ \A k \in g.sources : packCatalog[k].objs \subseteq objs
        /\ packCatalog' = Supersede([packCatalog EXCEPT ![key] =
                              CompactRow(packCatalog, g.sources, g.tier, objs)], g.sources, key)
        /\ packsetVersion' = packsetVersion + 1

\* finalizeReceive either adds one pack or touches none.
LEMMA FinalizeReceives ==
    ASSUME IInv, NEW t \in Token, NEW cmds \in CommandLists, NEW objs \in StagedObjects,
           finalizeReceive(t, cmds, objs)
    PROVE  IF hasNonDelete(cmds) THEN Receives(t, objs) ELSE UNCHANGED packVars
<1>1. <<"rx", t>> \in PackKey \ Active(packCatalog)
  BY LeaseKey, UnusedIsInactive DEF finalizeReceive
<1> QED
  BY <1>1 DEF finalizeReceive, commitReceivedPack, Receives

LEMMA CommitCompacts ==
    ASSUME IInv, NEW t \in Token, NEW objs \in SUBSET Object, commitCompaction(t, objs)
    PROVE  Compacts(t, objs)
<1> DEFINE g == grants[t]
           key == <<"cmp", t>>
<1>1. key \in PackKey \ Active(packCatalog)
  BY LeaseKey, UnusedIsInactive DEF commitCompaction
<1>2. \A k \in g.sources : packCatalog[k] = g.catalog[k]
  BY DEF commitCompaction, commitAllowed, rowsMatchForCommit
<1>3. PlanOf(packCatalog, g.sources, g.tier)
  BY DEF commitCompaction, commitAllowed, IInv, CatalogInv, PlanHeld
<1>4. \A k \in g.sources : packCatalog[k].objs \subseteq objs
  BY <1>2 DEF commitCompaction, rewritten
<1>5. /\ packCatalog' = Supersede([packCatalog EXCEPT ![key] =
                            CompactRow(packCatalog, g.sources, g.tier, objs)], g.sources, key)
      /\ packsetVersion' = packsetVersion + 1
  <2>1. CompactRow(g.catalog, g.sources, g.tier, objs) = CompactRow(packCatalog, g.sources, g.tier, objs)
    BY SameRowsSameMerge DEF commitCompaction, commitAllowed
  <2> QED
    BY <2>1 DEF commitCompaction
<1> QED
  BY <1>1, <1>3, <1>4, <1>5 DEF Compacts

\* Any other step leaves the active rows and the version alone, or erases all.
PacksStay == ActiveRowsStay /\ SupersededRowsGo /\ packsetVersion' = packsetVersion

LEMMA OtherStepsKeepPacks ==
    ASSUME IInv, [Next]_vars
    PROVE  \/ \E t \in Token, cmds \in CommandLists, objs \in StagedObjects :
                  finalizeReceive(t, cmds, objs)
           \/ \E t \in Token, objs \in SUBSET Object : commitCompaction(t, objs)
           \/ deleteAll
           \/ PacksStay
<1>1. UNCHANGED packVars => PacksStay
  BY DEF packVars, PacksStay, ActiveRowsStay, SupersededRowsGo
<1>2. ASSUME NEW k \in PackKey, removePackRow(k) PROVE PacksStay
  <2>1. k \in PackKey \ Active(packCatalog)
    BY <1>2 DEF removePackRow, IInv, CatalogInv, RemovingInert
  <2>2. packCatalog' = [packCatalog EXCEPT ![k] = NoRow]
    BY <1>2 DEF removePackRow
  <2>3. ActiveRowsStay
    <3>1. packCatalog \in Catalog /\ nextPackSeq \in Nat /\ Tiled(packCatalog, nextPackSeq)
      BY DEF IInv, CatalogInv, TypeOK
    <3>2. /\ Active(packCatalog') = Active(packCatalog)
          /\ \A j \in Active(packCatalog) : packCatalog'[j] = packCatalog[j]
      BY <2>1, <2>2, <3>1, DroppedRow, Zenon
    <3> QED
      BY <3>2 DEF ActiveRowsStay
  <2>4. SupersededRowsGo
    BY <2>2 DEF SupersededRowsGo, NoRow, IInv, TypeOK, Catalog
  <2> QED
    BY <1>2, <2>3, <2>4 DEF PacksStay, removePackRow
<1>3. ASSUME ReceiveNext,
             ~ \E t \in Token, cmds \in CommandLists, objs \in StagedObjects :
                   finalizeReceive(t, cmds, objs)
      PROVE  UNCHANGED packVars
  BY <1>3 DEF ReceiveNext, beginReceiveBusy, beginReceive, abortReceive,
              finalizeReceiveMismatch, finalizeReceiveConflict
<1>4. ASSUME CompactionNext,
             ~ \E t \in Token, objs \in SUBSET Object : commitCompaction(t, objs)
      PROVE  UNCHANGED packVars
  BY <1>4 DEF CompactionNext, beginCompactionSkip, beginCompaction, abortCompaction,
              commitCompactionRetry, requestCompaction, clearCompactionRequest
<1>5. ASSUME AdminNext PROVE UNCHANGED packVars \/ deleteAll \/ PacksStay
  BY <1>2, <1>5 DEF AdminNext, read, getHead, setRefs, setHead, removePackCheck,
                    clearRepositoryStorage
<1>6. ASSUME AlarmNext PROVE UNCHANGED packVars \/ deleteAll
  BY <1>6 DEF AlarmNext, alarmRearm, alarmActive, alarmEmptyIdle, alarmNonEmptyIdle
<1>7. ASSUME restart \/ tick \/ UNCHANGED vars PROVE UNCHANGED packVars
  BY <1>7 DEF restart, tick, vars
<1> QED
  BY <1>1, <1>3, <1>4, <1>5, <1>6, <1>7 DEF Next

LEMMA ReceivesObjects ==
    ASSUME IInv, NEW t \in Token, NEW objs \in StagedObjects, Receives(t, objs)
    PROVE  /\ ActiveObjects(packCatalog') = ActiveObjects(packCatalog) \cup objs
           /\ catalogNeedsCompaction(packCatalog) => catalogNeedsCompaction(packCatalog')
           /\ packsetVersion' = packsetVersion + 1
<1>1. packCatalog \in Catalog /\ nextPackSeq \in Nat /\ objs \in SUBSET Object
  BY RepoAssumption DEF IInv, TypeOK
<1>2. /\ <<"rx", t>> \in PackKey \ Active(packCatalog)
      /\ packCatalog' = [packCatalog EXCEPT ![<<"rx", t>>] = ReceiveRow(nextPackSeq, objs)]
      /\ packsetVersion' = packsetVersion + 1
  BY DEF Receives
<1>3. LET new == [packCatalog EXCEPT ![<<"rx", t>>] = ReceiveRow(nextPackSeq, objs)]
      IN  /\ ActiveObjects(new) = ActiveObjects(packCatalog) \cup objs
          /\ catalogNeedsCompaction(packCatalog) => catalogNeedsCompaction(new)
  BY <1>1, <1>2, ReceiveAddsObjects
<1> QED
  BY <1>2, <1>3

LEMMA CompactsObjects ==
    ASSUME IInv, NEW t \in Token, NEW objs \in SUBSET Object, Compacts(t, objs)
    PROVE  /\ ActiveObjects(packCatalog') = ActiveObjects(packCatalog) \cup objs
           /\ packsetVersion' = packsetVersion + 1
<1> DEFINE g == grants[t]
           key == <<"cmp", t>>
           new == Supersede([packCatalog EXCEPT ![key] =
                      CompactRow(packCatalog, g.sources, g.tier, objs)], g.sources, key)
<1>1. packCatalog \in Catalog
  BY DEF IInv, TypeOK
<1>2. /\ key \in PackKey \ Active(packCatalog)
      /\ PlanOf(packCatalog, g.sources, g.tier)
      /\ \A k \in g.sources : packCatalog[k].objs \subseteq objs
      /\ packCatalog' = new
      /\ packsetVersion' = packsetVersion + 1
  BY DEF Compacts
<1>3. ActiveObjects(new) = ActiveObjects(packCatalog) \cup objs
  BY <1>1, <1>2, CompactKeepsObjects
<1> QED
  BY <1>2, <1>3

LEMMA ErasureEmpties ==
    ASSUME deleteAll
    PROVE  /\ Active(packCatalog') = {} /\ ActiveObjects(packCatalog') = {}
           /\ ~ catalogNeedsCompaction(packCatalog')
           /\ \A k \in PackKey : packCatalog'[k].state = "none"
BY EmptyHasNothing DEF deleteAll, EmptyCatalog, NoRow

\* What a step does to the objects and the version.
LEMMA ObjectsStep ==
    ASSUME IInv, [Next]_vars
    PROVE  \/ deleteAll
           \/ /\ ActiveObjects(packCatalog) \subseteq ActiveObjects(packCatalog')
              /\ packsetVersion <= packsetVersion'
<1> DEFINE Kept == /\ ActiveObjects(packCatalog) \subseteq ActiveObjects(packCatalog')
                   /\ packsetVersion <= packsetVersion'
<1>1. packCatalog \in Catalog /\ packsetVersion \in Nat /\ nextPackSeq \in Nat
  BY DEF IInv, TypeOK
<1>2. ASSUME PacksStay PROVE Kept
  BY <1>1, <1>2, ActiveRowsDecide DEF PacksStay, ActiveRowsStay
<1>3. ASSUME NEW t \in Token, NEW cmds \in CommandLists, NEW objs \in StagedObjects,
             finalizeReceive(t, cmds, objs)
      PROVE  Kept
  <2>1. Receives(t, objs) \/ UNCHANGED packVars
    BY <1>3, FinalizeReceives
  <2>2. CASE Receives(t, objs)
    BY <1>1, <2>2, ReceivesObjects
  <2>3. CASE UNCHANGED packVars
    BY <1>1, <2>3 DEF packVars
  <2> QED
    BY <2>1, <2>2, <2>3
<1>4. ASSUME NEW t \in Token, NEW objs \in SUBSET Object, commitCompaction(t, objs)
      PROVE  Kept
  BY <1>1, <1>4, CommitCompacts, CompactsObjects
<1> QED
  BY <1>2, <1>3, <1>4, OtherStepsKeepPacks

\* No RPC, alarm or restart takes an object out of the active packs, or the
\* version backwards, unless it erases the repository.
THEOREM NoObjectIsLost == Spec => ObjectsAreKept
<1>1. deleteAll => Erased
  BY DEF deleteAll, Erased
<1>2. IInv /\ [Next]_vars =>
          [ \/ Erased
            \/ /\ ActiveObjects(packCatalog) \subseteq ActiveObjects(packCatalog)'
               /\ packsetVersion <= packsetVersion' ]_vars
  BY <1>1, ObjectsStep
<1> QED
  BY <1>2, Invariance, PTL DEF Spec, ObjectsAreKept

-----------------------------------------------------------------------------
(* Superseded packs are redundant *)

LEMMA SupersededStep ==
    ASSUME IInv, SupersededIsRedundant, [Next]_vars
    PROVE  SupersededIsRedundant'
<1>1. packCatalog \in Catalog
  BY DEF IInv, TypeOK
<1>2. CASE deleteAll
  BY <1>2, ErasureEmpties DEF SupersededIsRedundant
<1>3. ASSUME ActiveObjects(packCatalog) \subseteq ActiveObjects(packCatalog'), SupersededRowsGo
      PROVE  SupersededIsRedundant'
  BY <1>3 DEF SupersededIsRedundant, SupersededRowsGo
<1>4. ASSUME PacksStay PROVE SupersededIsRedundant'
  BY <1>3, <1>4, ActiveRowsDecide DEF PacksStay, ActiveRowsStay
<1>5. ASSUME NEW t \in Token, NEW cmds \in CommandLists, NEW objs \in StagedObjects,
             finalizeReceive(t, cmds, objs)
      PROVE  SupersededIsRedundant'
  <2>1. Receives(t, objs) \/ UNCHANGED packVars
    BY <1>5, FinalizeReceives
  <2>2. SupersededRowsGo
    BY <1>1, <2>1 DEF Receives, ReceiveRow, SupersededRowsGo, packVars, Catalog
  <2>3. ActiveObjects(packCatalog) \subseteq ActiveObjects(packCatalog')
    BY <2>1, ReceivesObjects DEF packVars
  <2> QED
    BY <1>3, <2>2, <2>3
<1>6. ASSUME NEW t \in Token, NEW objs \in SUBSET Object, commitCompaction(t, objs)
      PROVE  SupersededIsRedundant'
  <2> DEFINE sources == grants[t].sources
             key == <<"cmp", t>>
  <2>1. Compacts(t, objs)
    BY <1>6, CommitCompacts
  <2>2. ActiveObjects(packCatalog') = ActiveObjects(packCatalog) \cup objs
    BY <2>1, CompactsObjects
  <2>3. \A k \in PackKey \ (sources \cup {key}) : packCatalog'[k] = packCatalog[k]
    BY <1>1, <2>1 DEF Compacts, Supersede, Catalog
  <2>4. key \notin sources
    BY <2>1 DEF Compacts, PlanOf
  <2>5. \A k \in sources : packCatalog'[k].objs \subseteq objs
    <3>1. \A k \in sources : k \in PackKey /\ packCatalog'[k].objs = packCatalog[k].objs
      BY <1>1, <2>1, <2>4 DEF Compacts, PlanOf, Supersede, Catalog, Row, Active
    <3> QED
      BY <2>1, <3>1 DEF Compacts
  <2>6. packCatalog'[key].state = "active"
    BY <1>1, <2>1, <2>4 DEF Compacts, Supersede, CompactRow, Catalog
  <2> QED
    BY <2>2, <2>3, <2>5, <2>6 DEF SupersededIsRedundant
<1> QED
  BY <1>2, <1>4, <1>5, <1>6, OtherStepsKeepPacks

\* Deleting the artifacts and rows of superseded packs loses no object.
THEOREM SupersededPacksAreRedundant == Spec => []SupersededIsRedundant
<1>1. Init => SupersededIsRedundant
  BY DEF Init, SupersededIsRedundant, EmptyCatalog, NoRow
<1> QED
  BY <1>1, SupersededStep, Invariance, PTL DEF Spec

-----------------------------------------------------------------------------
(* What lease holders were given stays true of the catalog *)

\* The objects a lease holder found active still are, and while a receive lease
\* is unexpired its holder's whole catalog is the present one.
SnapshotsHold ==
    \A t \in Token :
        /\ receiveLease.token = t \/ compactLease.token = t =>
               ActiveObjects(grants[t].catalog) \subseteq ActiveObjects(packCatalog)
        /\ receiveLease.token = t /\ activeLease(receiveLease) /\ grants[t].kind = "receive" =>
               grants[t].catalog = ActiveView(packCatalog)

LEMMA ViewHasObjects ==
    ASSUME NEW cat \in Catalog
    PROVE  ActiveObjects(ActiveView(cat)) = ActiveObjects(cat)
<1>1. \A k \in PackKey : k \in Active(cat) => ActiveView(cat)[k] = cat[k]
  BY DEF ActiveView
<1>2. Active(ActiveView(cat)) = Active(cat)
  BY DEF ActiveView, Active, NoRow
<1> QED
  BY <1>1, <1>2 DEF ActiveObjects, Active

LEMMA ViewStays ==
    ASSUME ActiveRowsStay
    PROVE  ActiveView(packCatalog') = ActiveView(packCatalog)
BY DEF ActiveRowsStay, ActiveView

\* Leases and grants are only created by begin calls, under a new token.
LEMMA LeaseStep ==
    ASSUME IInv, [Next]_vars
    PROVE  \/ \E t \in Token : beginReceive(t)
           \/ \E t \in Token : beginCompaction(t)
           \/ deleteAll /\ receiveLease' = NoLease /\ compactLease' = NoLease
           \/ LeaseMayGo /\ GrantMayGo
<1> USE DEF leaseVars, callerVars
<1>1. ASSUME ReceiveNext, ~ \E t \in Token : beginReceive(t)
      PROVE  LeaseMayGo /\ GrantMayGo
  BY <1>1, ClearingIsQuiet
     DEF ReceiveNext, beginReceiveBusy, abortReceive, finalizeReceiveMismatch,
         finalizeReceiveConflict, finalizeReceive, LeaseMayGo, GrantMayGo
<1>2. ASSUME CompactionNext, ~ \E t \in Token : beginCompaction(t)
      PROVE  LeaseMayGo /\ GrantMayGo
  <2>1. CASE beginCompactionSkip
    BY <2>1, ClearingIsQuiet DEF beginCompactionSkip, GrantMayGo
  <2>2. ASSUME NEW t \in Token, abortCompaction(t) \/ commitCompactionRetry(t)
        PROVE  LeaseMayGo /\ GrantMayGo
    BY <2>2 DEF abortCompaction, commitCompactionRetry, LeaseMayGo, GrantMayGo
  <2>3. ASSUME NEW t \in Token, NEW objs \in SUBSET Object, commitCompaction(t, objs)
        PROVE  LeaseMayGo /\ GrantMayGo
    BY <2>3 DEF commitCompaction, LeaseMayGo, GrantMayGo
  <2>4. CASE requestCompaction \/ clearCompactionRequest
    BY <2>4 DEF requestCompaction, clearCompactionRequest, LeaseMayGo, GrantMayGo
  <2> QED
    BY <1>2, <2>1, <2>2, <2>3, <2>4 DEF CompactionNext
<1>3. ASSUME AdminNext, ~ clearRepositoryStorage PROVE LeaseMayGo /\ GrantMayGo
  BY <1>3 DEF AdminNext, read, getHead, setRefs, setHead, removePackCheck, removePackRow,
              LeaseMayGo, GrantMayGo
<1>4. ASSUME AlarmNext, ~ alarmEmptyIdle PROVE LeaseMayGo /\ GrantMayGo
  BY <1>4, ClearingIsQuiet DEF AlarmNext, alarmRearm, alarmActive, alarmNonEmptyIdle, GrantMayGo
<1>5. ASSUME restart \/ tick \/ UNCHANGED vars PROVE LeaseMayGo /\ GrantMayGo
  BY <1>5 DEF restart, tick, vars, LeaseMayGo, GrantMayGo
<1>6. ASSUME clearRepositoryStorage \/ alarmEmptyIdle
      PROVE  deleteAll /\ receiveLease' = NoLease /\ compactLease' = NoLease
  BY <1>6 DEF clearRepositoryStorage, alarmEmptyIdle, deleteAll
<1> QED
  BY <1>1, <1>2, <1>3, <1>4, <1>5, <1>6 DEF Next

LEMMA ClockStep ==
    ASSUME IInv, [Next]_vars
    PROVE  now' \in Nat /\ now' >= now
<1> USE DEF IInv, TypeOK
<1>1. CASE tick
  BY <1>1 DEF tick
<1>2. ASSUME ReceiveNext PROVE now' = now
  BY <1>2 DEF ReceiveNext, beginReceiveBusy, beginReceive, abortReceive,
              finalizeReceiveMismatch, finalizeReceiveConflict, finalizeReceive
<1>3. ASSUME CompactionNext PROVE now' = now
  BY <1>3 DEF CompactionNext, beginCompactionSkip, beginCompaction, abortCompaction,
              commitCompactionRetry, commitCompaction, requestCompaction, clearCompactionRequest
<1>4. ASSUME AdminNext PROVE now' = now
  BY <1>4 DEF AdminNext, read, getHead, setRefs, setHead, removePackCheck, removePackRow,
              clearRepositoryStorage
<1>5. ASSUME AlarmNext PROVE now' = now
  BY <1>5 DEF AlarmNext, alarmRearm, alarmActive, alarmEmptyIdle, alarmNonEmptyIdle
<1>6. ASSUME restart \/ UNCHANGED vars PROVE now' = now
  BY <1>6 DEF restart, vars
<1> QED
  BY <1>1, <1>2, <1>3, <1>4, <1>5, <1>6 DEF Next

LEMMA SnapshotsStep ==
    ASSUME IInv, SnapshotsHold, [Next]_vars
    PROVE  SnapshotsHold'
<1> USE CatalogAssumption
<1>1. packCatalog \in Catalog
  BY DEF IInv, TypeOK
<1>2. ASSUME receiveLease' = NoLease, compactLease' = NoLease PROVE SnapshotsHold'
  BY <1>2 DEF SnapshotsHold, NoLease
<1>3. ASSUME NEW t \in Token, beginReceive(t) PROVE SnapshotsHold'
  <2>1. /\ packCatalog' = packCatalog /\ now' = now
        /\ receiveLease'.token = t /\ compactLease' \in {compactLease, NoLease}
        /\ grants'[t] = receiveGrant
        /\ \A u \in Token \ {t} : grants'[u] = grants[u]
    BY <1>3 DEF beginReceive, clearExpired, packVars, IInv, TypeOK
  <2>2. receiveGrant.catalog = ActiveView(packCatalog)
    BY DEF receiveGrant, NoGrant
  <2>3. \A u \in Token : compactLease'.token = u => compactLease.token = u
    BY <2>1 DEF NoLease
  <2> QED
    BY <1>1, <2>1, <2>2, <2>3, ViewHasObjects DEF SnapshotsHold
<1>4. ASSUME NEW t \in Token, beginCompaction(t) PROVE SnapshotsHold'
  <2>1. /\ packCatalog' = packCatalog
        /\ receiveLease' = NoLease /\ compactLease'.token = t
        /\ grants'[t] = compactionGrant
    BY <1>4 DEF beginCompaction, packVars, IInv, TypeOK
  <2>2. compactionGrant.catalog = ActiveView(packCatalog)
    BY DEF compactionGrant, NoGrant
  <2>3. \A u \in Token : receiveLease'.token # u
    BY <2>1 DEF NoLease
  <2> QED
    BY <1>1, <2>1, <2>2, <2>3, ViewHasObjects DEF SnapshotsHold
<1>5. ASSUME LeaseMayGo, GrantMayGo, ~ deleteAll PROVE SnapshotsHold'
  <2>1. SUFFICES ASSUME NEW u \in Token
        PROVE  /\ receiveLease'.token = u \/ compactLease'.token = u =>
                      ActiveObjects(grants'[u].catalog) \subseteq ActiveObjects(packCatalog')
               /\ receiveLease'.token = u /\ activeLease(receiveLease)' /\ grants'[u].kind = "receive" =>
                      grants'[u].catalog = ActiveView(packCatalog')
    BY DEF SnapshotsHold
  <2>2. /\ receiveLease'.token = u => receiveLease' = receiveLease /\ receiveLease.token = u
        /\ compactLease'.token = u => compactLease.token = u
    BY <1>5 DEF LeaseMayGo, NoLease
  <2>3. /\ grants'[u] \in {grants[u], NoGrant}
        /\ NoGrant.kind = "none" /\ NoGrant.catalog = EmptyCatalog
    BY <1>5, GrantGoes DEF NoGrant, IInv
  <2>4. receiveLease'.token = u \/ compactLease'.token = u =>
            ActiveObjects(grants'[u].catalog) \subseteq ActiveObjects(packCatalog')
    BY <1>5, <2>2, <2>3, ObjectsStep, EmptyHasNothing DEF SnapshotsHold
  <2>5. ASSUME receiveLease'.token = u, activeLease(receiveLease)', grants'[u].kind = "receive"
        PROVE  grants'[u].catalog = ActiveView(packCatalog')
    <3>1. activeLease(receiveLease)
      BY <2>2, <2>5, ClockStep DEF activeLease, IInv, TypeOK, Lease
    <3>2. grants'[u].catalog = ActiveView(packCatalog)
      BY <2>2, <2>3, <2>5, <3>1 DEF SnapshotsHold
    <3>3. ~ \E t \in Token, cmds \in CommandLists, objs \in StagedObjects :
                finalizeReceive(t, cmds, objs)
      BY <2>5 DEF finalizeReceive, NoLease
    <3>4. ~ \E t \in Token, objs \in SUBSET Object : commitCompaction(t, objs)
      BY <3>1 DEF commitCompaction, commitAllowed
    <3>5. PacksStay
      BY <1>5, <3>3, <3>4, OtherStepsKeepPacks
    <3> QED
      BY <3>2, <3>5, ViewStays DEF PacksStay
  <2> QED
    BY <2>4, <2>5
<1>6. deleteAll => receiveLease' = NoLease /\ compactLease' = NoLease
  BY DEF deleteAll
<1> QED
  BY <1>2, <1>3, <1>4, <1>5, <1>6, LeaseStep

LEMMA SnapshotsInvariance == Spec => []SnapshotsHold
<1>1. Init => SnapshotsHold
  BY CatalogAssumption DEF Init, SnapshotsHold, NoLease
<1> QED
  BY <1>1, SnapshotsStep, Invariance, PTL DEF Spec

\* An unexpired receive lease has a holder.
LeaseIsHeld == receiveLease.token = NoToken => receiveLease = NoLease

LEMMA LeaseIsHeldInvariance == Spec => []LeaseIsHeld
<1>1. Init => LeaseIsHeld
  BY DEF Init, LeaseIsHeld
<1>2. ASSUME IInv, LeaseIsHeld, [Next]_vars PROVE LeaseIsHeld'
  <2>1. ASSUME NEW t \in Token, beginReceive(t) PROVE LeaseIsHeld'
    BY <2>1, CatalogAssumption DEF beginReceive, LeaseIsHeld
  <2>2. ASSUME NEW t \in Token, beginCompaction(t) PROVE LeaseIsHeld'
    BY <2>2 DEF beginCompaction, LeaseIsHeld
  <2> QED
    BY <1>2, <2>1, <2>2, LeaseStep DEF LeaseIsHeld, LeaseMayGo
<1> QED
  BY <1>1, <1>2, Invariance, PTL DEF Spec

\* While a push holds an unexpired lease, the catalog it was given is the
\* catalog: neither a compaction nor another push commits under it.
THEOREM ReceiveSnapshotIsStable == Spec => []ReceiveSnapshotStable
<1>1. IInv /\ SnapshotsHold /\ LeaseIsHeld => ReceiveSnapshotStable
  <2>1. SUFFICES ASSUME IInv, SnapshotsHold, LeaseIsHeld, activeLease(receiveLease),
                        grants[receiveLease.token].kind = "receive"
                 PROVE  grants[receiveLease.token].catalog = ActiveView(packCatalog)
    BY DEF ReceiveSnapshotStable
  <2>2. receiveLease.token \in Token
    BY <2>1 DEF LeaseIsHeld, NoLease, activeLease, IInv, TypeOK, Lease
  <2> QED
    BY <2>1, <2>2 DEF SnapshotsHold
<1> QED
  BY <1>1, Invariance, SnapshotsInvariance, LeaseIsHeldInvariance, PTL

-----------------------------------------------------------------------------
(* Refs *)

LEMMA RefsStep ==
    ASSUME [Next]_vars
    PROVE  \/ \E t \in Token, cmds \in CommandLists, objs \in StagedObjects :
                  finalizeReceive(t, cmds, objs)
           \/ \E newRefs \in AdminRefs : setRefs(newRefs)
           \/ \E newHead \in AdminHeads : setHead(newHead)
           \/ getHead
           \/ deleteAll
           \/ UNCHANGED <<refs, head>>
<1> USE DEF refVars
<1>1. ASSUME ReceiveNext,
             ~ \E t \in Token, cmds \in CommandLists, objs \in StagedObjects :
                   finalizeReceive(t, cmds, objs)
      PROVE  UNCHANGED <<refs, head>>
  BY <1>1 DEF ReceiveNext, beginReceiveBusy, beginReceive, abortReceive,
              finalizeReceiveMismatch, finalizeReceiveConflict
<1>2. ASSUME CompactionNext PROVE UNCHANGED <<refs, head>>
  BY <1>2 DEF CompactionNext, beginCompactionSkip, beginCompaction, abortCompaction,
              commitCompactionRetry, commitCompaction, requestCompaction, clearCompactionRequest
<1>3. ASSUME AdminNext
      PROVE  \/ \E newRefs \in AdminRefs : setRefs(newRefs)
             \/ \E newHead \in AdminHeads : setHead(newHead)
             \/ getHead
             \/ deleteAll
             \/ UNCHANGED <<refs, head>>
  BY <1>3 DEF AdminNext, read, removePackCheck, removePackRow, clearRepositoryStorage
<1>4. ASSUME AlarmNext PROVE deleteAll \/ UNCHANGED <<refs, head>>
  BY <1>4 DEF AlarmNext, alarmRearm, alarmActive, alarmEmptyIdle, alarmNonEmptyIdle
<1>5. ASSUME restart \/ tick \/ UNCHANGED vars PROVE UNCHANGED <<refs, head>>
  BY <1>5 DEF restart, tick, vars
<1> QED
  BY <1>1, <1>2, <1>3, <1>4, <1>5 DEF Next

\* The tips of an accepted push are in the packs that are active after it.
LEMMA TipsHeld ==
    ASSUME IInv, SnapshotsHold, NEW t \in Token, NEW cmds \in CommandLists,
           NEW objs \in StagedObjects, finalizeReceive(t, cmds, objs)
    PROVE  /\ newTips(cmds) \subseteq ActiveObjects(packCatalog) \cup objs
           /\ newTips(cmds) \subseteq ActiveObjects(packCatalog')
<1>1. newTips(cmds) \subseteq ActiveObjects(packCatalog) \cup objs
  BY DEF finalizeReceive, connected, SnapshotsHold
<1>2. CASE hasNonDelete(cmds)
  BY <1>1, <1>2, FinalizeReceives, ReceivesObjects
<1>3. CASE ~ hasNonDelete(cmds)
  <2>1. newTips(cmds) = {}
    BY <1>3 DEF hasNonDelete, isDelete, newTips
  <2> QED
    BY <1>1, <2>1
<1> QED
  BY <1>1, <1>2, <1>3

LEMMA RefsResolveStep ==
    ASSUME IInv, SnapshotsHold, RefsResolve, [Next]_vars
    PROVE  RefsResolve'
<1>1. CASE deleteAll
  BY <1>1 DEF deleteAll, RefsResolve, NoRefs
<1>2. ASSUME NEW t \in Token, NEW cmds \in CommandLists, NEW objs \in StagedObjects,
             finalizeReceive(t, cmds, objs), ~ deleteAll
      PROVE  RefsResolve'
  <2>1. refs' = applyReceiveCommands(refs, cmds) /\ refs \in Refs /\ cmds \in Seq(Command)
    BY <1>2, RepoAssumption DEF finalizeReceive, IInv, TypeOK
  <2>2. \A r \in RefName : refs'[r] \in {refs[r], ZeroOid} \cup newTips(cmds)
    BY <2>1, ApplyTypes
  <2> QED
    BY <1>2, <2>2, TipsHeld, ObjectsStep DEF RefsResolve
<1>3. ASSUME NEW newRefs \in AdminRefs, setRefs(newRefs) PROVE RefsResolve'
  BY <1>3 DEF setRefs, packVars, RefsResolve
<1>4. ASSUME refs' = refs, ~ deleteAll PROVE RefsResolve'
  BY <1>4, ObjectsStep DEF RefsResolve
<1>5. getHead \/ (\E newHead \in AdminHeads : setHead(newHead)) => refs' = refs
  BY DEF getHead, setHead
<1> QED
  BY <1>1, <1>2, <1>3, <1>4, <1>5, RefsStep

\* A ref never points at an object that is in no active pack, unless the operator
\* wrote it by hand.
THEOREM RefsAlwaysResolve == Spec => []RefsResolve
<1>1. Init => RefsResolve
  BY DEF Init, NoRefs, RefsResolve
<1> QED
  BY <1>1, RefsResolveStep, Invariance, SnapshotsInvariance, PTL DEF Spec

-----------------------------------------------------------------------------
(* The compaction request *)

NeedStays == catalogNeedsCompaction(packCatalog') <=> catalogNeedsCompaction(packCatalog)

RequestFollowsNeed == compactionWanted' <=> catalogNeedsCompaction(packCatalog')

RequestGrows ==
    /\ catalogNeedsCompaction(packCatalog) => catalogNeedsCompaction(packCatalog')
    /\ catalogNeedsCompaction(packCatalog') => compactionWanted'
    /\ compactionWanted' => compactionWanted \/ catalogNeedsCompaction(packCatalog')

\* A row is only dropped when it is not active.
LEMMA RemovalKeepsNeed ==
    ASSUME IInv, NEW k \in PackKey, removePackRow(k)
    PROVE  NeedStays
<1>1. k \in PackKey \ Active(packCatalog)
  BY DEF removePackRow, IInv, CatalogInv, RemovingInert
<1>2. packCatalog \in Catalog /\ nextPackSeq \in Nat /\ Tiled(packCatalog, nextPackSeq)
  BY DEF IInv, CatalogInv, TypeOK
<1>3. ActiveRowsStay
  <2>1. packCatalog' = [packCatalog EXCEPT ![k] = NoRow]
    BY DEF removePackRow
  <2>2. /\ Active(packCatalog') = Active(packCatalog)
        /\ \A j \in Active(packCatalog) : packCatalog'[j] = packCatalog[j]
    BY <1>1, <1>2, <2>1, DroppedRow, Zenon
  <2> QED
    BY <2>2 DEF ActiveRowsStay
<1> QED
  BY <1>2, <1>3, ActiveRowsDecide DEF ActiveRowsStay, NeedStays

LEMMA PushRecordsNeed ==
    ASSUME IInv, NEW t \in Token, NEW cmds \in CommandLists, NEW objs \in StagedObjects,
           finalizeReceive(t, cmds, objs)
    PROVE  UNCHANGED <<compactionWanted, packCatalog>> \/ RequestGrows
<1>1. CASE hasNonDelete(cmds)
  <2>1. catalogNeedsCompaction(packCatalog) => catalogNeedsCompaction(packCatalog')
    BY <1>1, FinalizeReceives, ReceivesObjects
  <2>2. compactionWanted' = (compactionWanted \/ catalogNeedsCompaction(packCatalog'))
    BY <1>1 DEF finalizeReceive, commitReceivedPack
  <2> QED
    BY <2>1, <2>2, Zenon DEF RequestGrows
<1>2. CASE ~ hasNonDelete(cmds)
  BY <1>2 DEF finalizeReceive, packVars
<1> QED
  BY <1>1, <1>2

\* What a step does to the need for compaction and to its record.
LEMMA RequestStep ==
    ASSUME IInv, [Next]_vars
    PROVE  \/ compactionWanted' = compactionWanted /\ NeedStays
           \/ RequestFollowsNeed
           \/ RequestGrows
           \/ beginCompactionSkip
           \/ clearCompactionRequest
<1> DEFINE Same == UNCHANGED <<compactionWanted, packCatalog>>
<1>1. Same => compactionWanted' = compactionWanted /\ NeedStays
  BY DEF NeedStays
<1>2. ASSUME ReceiveNext PROVE Same \/ RequestGrows
  <2>1. ASSUME ~ \E t \in Token, cmds \in CommandLists, objs \in StagedObjects :
                     finalizeReceive(t, cmds, objs)
        PROVE  Same
    BY <1>2, <2>1 DEF ReceiveNext, beginReceiveBusy, beginReceive, abortReceive,
                      finalizeReceiveMismatch, finalizeReceiveConflict, packVars
  <2> QED
    BY <2>1, PushRecordsNeed
<1>3. ASSUME CompactionNext, ~ beginCompactionSkip, ~ clearCompactionRequest
      PROVE  Same \/ RequestFollowsNeed
  <2>1. ASSUME NEW t \in Token, \/ beginCompaction(t) \/ abortCompaction(t)
                                \/ commitCompactionRetry(t)
        PROVE  Same
    BY <2>1 DEF beginCompaction, abortCompaction, commitCompactionRetry, packVars
  <2>2. ASSUME NEW t \in Token, NEW objs \in SUBSET Object, commitCompaction(t, objs)
        PROVE  RequestFollowsNeed
    <3>1. compactionWanted' = catalogNeedsCompaction(packCatalog')
      BY <2>2 DEF commitCompaction
    <3> QED
      BY <3>1, Zenon DEF RequestFollowsNeed
  <2>3. CASE requestCompaction
    <3>1. compactionWanted' = catalogNeedsCompaction(packCatalog) /\ packCatalog' = packCatalog
      BY <2>3 DEF requestCompaction, packVars
    <3> QED
      BY <3>1, Zenon DEF RequestFollowsNeed
  <2> QED
    BY <1>3, <2>1, <2>2, <2>3 DEF CompactionNext
<1>4. ASSUME deleteAll PROVE RequestFollowsNeed
  BY <1>4, ErasureEmpties DEF deleteAll, RequestFollowsNeed
<1>5. ASSUME AdminNext, ~ clearRepositoryStorage
      PROVE  Same \/ (compactionWanted' = compactionWanted /\ NeedStays)
  <2>1. ASSUME NEW k \in PackKey, removePackRow(k)
        PROVE  compactionWanted' = compactionWanted /\ NeedStays
    BY <2>1, RemovalKeepsNeed DEF removePackRow
  <2>2. CASE read \/ getHead
    BY <2>2 DEF read, getHead, packVars
  <2>3. ASSUME \/ \E newRefs \in AdminRefs : setRefs(newRefs)
               \/ \E newHead \in AdminHeads : setHead(newHead)
               \/ \E k \in PackKey : removePackCheck(k)
        PROVE  Same
    BY <2>3 DEF setRefs, setHead, removePackCheck, packVars
  <2> QED
    BY <1>5, <2>1, <2>2, <2>3 DEF AdminNext
<1>6. ASSUME AlarmNext, ~ alarmEmptyIdle PROVE Same
  BY <1>6 DEF AlarmNext, alarmRearm, alarmActive, alarmNonEmptyIdle, packVars
<1>7. ASSUME restart \/ tick \/ UNCHANGED vars PROVE Same
  BY <1>7 DEF restart, tick, vars, packVars
<1>8. clearRepositoryStorage \/ alarmEmptyIdle => deleteAll
  BY DEF clearRepositoryStorage, alarmEmptyIdle
<1> QED
  BY <1>1, <1>2, <1>3, <1>4, <1>5, <1>6, <1>7, <1>8 DEF Next

\* A recorded request always comes with a tier that overflows.
THEOREM RequestsAreReal == Spec => []RequestIsReal
<1>1. Init => RequestIsReal
  BY DEF Init, RequestIsReal
<1>2. ASSUME IInv, RequestIsReal, [Next]_vars PROVE RequestIsReal'
  <2>1. CASE compactionWanted' = compactionWanted /\ NeedStays
    BY <1>2, <2>1 DEF RequestIsReal, NeedStays
  <2>2. CASE RequestFollowsNeed \/ RequestGrows
    BY <1>2, <2>2, Zenon DEF RequestIsReal, RequestFollowsNeed, RequestGrows
  <2>3. CASE beginCompactionSkip
    <3>1. /\ compactionWanted' = (compactionWanted /\ ~ compactionDue)
          /\ packCatalog' = packCatalog
      BY <2>3 DEF beginCompactionSkip, packVars
    <3> QED
      BY <1>2, <3>1, Zenon DEF RequestIsReal
  <2>4. CASE clearCompactionRequest
    BY <2>4 DEF clearCompactionRequest, RequestIsReal
  <2> QED
    BY <1>2, <2>1, <2>2, <2>3, <2>4, RequestStep
<1> QED
  BY <1>1, <1>2, Invariance, PTL DEF Spec

\* A need for compaction is recorded by the step that creates it and stays
\* recorded until it is served, whatever queue message is lost meanwhile.
THEOREM NeedIsNeverLost == Spec => NeedStaysRecorded
<1> DEFINE Recorded == catalogNeedsCompaction(packCatalog)' /\ ~ compactionWanted' =>
                           \/ catalogNeedsCompaction(packCatalog) /\ ~ compactionWanted
                           \/ clearCompactionRequest
<1>1. ASSUME IInv, [Next]_vars PROVE Recorded
  <2>1. CASE compactionWanted' = compactionWanted /\ NeedStays
    BY <2>1 DEF NeedStays
  <2>2. CASE RequestFollowsNeed \/ RequestGrows
    BY <2>2, Zenon DEF RequestFollowsNeed, RequestGrows
  <2>3. CASE beginCompactionSkip
    <3>1. /\ compactionWanted' = (compactionWanted /\ ~ compactionDue)
          /\ ~ compactionDue \/ ~ catalogNeedsCompaction(packCatalog)
          /\ packCatalog' = packCatalog
      BY <2>3 DEF beginCompactionSkip, packVars
    <3> QED
      BY <3>1, Zenon
  <2> QED
    BY <1>1, <2>1, <2>2, <2>3, RequestStep
<1>2. IInv /\ [Next]_vars => [Recorded]_vars
  BY <1>1
<1> QED
  BY <1>2, Invariance, PTL DEF Spec, NeedStaysRecorded

-----------------------------------------------------------------------------
(* Refinement *)

\* A compaction neither adds nor loses an object, so besides a push only erasure
\* changes the objects.
LEMMA ObjectsStay ==
    ASSUME IInv, SnapshotsHold, [Next]_vars, ~ deleteAll,
           ~ \E t \in Token, cmds \in CommandLists, objs \in StagedObjects :
                 finalizeReceive(t, cmds, objs)
    PROVE  ActiveObjects(packCatalog') = ActiveObjects(packCatalog)
<1>1. ASSUME NEW t \in Token, NEW objs \in SUBSET Object, commitCompaction(t, objs)
      PROVE  ActiveObjects(packCatalog') = ActiveObjects(packCatalog)
  <2>1. ActiveObjects(packCatalog') = ActiveObjects(packCatalog) \cup objs
    BY <1>1, CommitCompacts, CompactsObjects
  <2>2. objs \subseteq ActiveObjects(grants[t].catalog) /\ compactLease.token = t
    BY <1>1 DEF commitCompaction, rewritten
  <2>3. objs \subseteq ActiveObjects(packCatalog)
    BY <2>2 DEF SnapshotsHold
  <2> QED
    BY <2>1, <2>3
<1>2. PacksStay => ActiveObjects(packCatalog') = ActiveObjects(packCatalog)
  BY ActiveRowsDecide DEF PacksStay, ActiveRowsStay
<1> QED
  BY <1>1, <1>2, OtherStepsKeepPacks

\* GitRepo computes with refs as the object does.
LEMMA SameRefArithmetic ==
    /\ Repo!NoRefs = NoRefs
    /\ Repo!DEFAULT_HEAD = DEFAULT_HEAD
    /\ \A h, rs : Repo!resolveHead(h, rs) = resolveHead(h, rs)
    /\ \A cmds : /\ Repo!allValidRefNames(cmds) <=> allValidRefNames(cmds)
                 /\ Repo!hasNonDelete(cmds) <=> hasNonDelete(cmds)
                 /\ Repo!newTips(cmds) = newTips(cmds)
    /\ \A rs, cmds : /\ Repo!validateReceiveCommands(rs, cmds) <=> validateReceiveCommands(rs, cmds)
                     /\ Repo!applyReceiveCommands(rs, cmds) = applyReceiveCommands(rs, cmds)
<1>1. Repo!NoRefs = NoRefs /\ Repo!DEFAULT_HEAD = DEFAULT_HEAD
  BY DEF Repo!NoRefs, NoRefs, Repo!DEFAULT_HEAD, DEFAULT_HEAD
<1>2. \A h, rs : Repo!resolveHead(h, rs) = resolveHead(h, rs)
  BY DEF Repo!resolveHead, resolveHead
<1>3. \A c : Repo!isDelete(c) <=> isDelete(c)
  BY DEF Repo!isDelete, isDelete
<1>4. \A cmds : /\ Repo!allValidRefNames(cmds) <=> allValidRefNames(cmds)
                /\ Repo!hasNonDelete(cmds) <=> hasNonDelete(cmds)
                /\ Repo!newTips(cmds) = newTips(cmds)
  BY <1>3 DEF Repo!allValidRefNames, allValidRefNames, Repo!hasNonDelete, hasNonDelete,
              Repo!newTips, newTips
<1>5. \A rs, cmds : Repo!validateReceiveCommands(rs, cmds) <=> validateReceiveCommands(rs, cmds)
  BY <1>3 DEF Repo!validateReceiveCommands, validateReceiveCommands,
              Repo!validateReceiveCommand, validateReceiveCommand
<1>6. \A cmds, r : Repo!lastCommandFor(cmds, r) = lastCommandFor(cmds, r)
  BY DEF Repo!lastCommandFor, lastCommandFor
<1>7. \A rs, cmds : Repo!applyReceiveCommands(rs, cmds) = applyReceiveCommands(rs, cmds)
  BY <1>6 DEF Repo!applyReceiveCommands, applyReceiveCommands
<1> QED
  BY <1>1, <1>2, <1>4, <1>5, <1>7

\* Every step of the object is a step of the abstract repository or invisible.
LEMMA StepRefines ==
    ASSUME IInv, SnapshotsHold, [Next]_vars
    PROVE  [Repo!Next]_(Repo!repoVars)
<1> DEFINE held == ActiveObjects(packCatalog)
           heldNext == ActiveObjects(packCatalog')
<1>1. ASSUME NEW t \in Token, NEW cmds \in CommandLists, NEW objs \in StagedObjects,
             finalizeReceive(t, cmds, objs)
      PROVE  Repo!Push(cmds, objs)
  <2>1. /\ allValidRefNames(cmds) /\ validateReceiveCommands(refs, cmds)
        /\ refs' = applyReceiveCommands(refs, cmds)
        /\ head' = resolveHead(head, refs')
    BY <1>1 DEF finalizeReceive
  <2>2. newTips(cmds) \subseteq held \cup objs
    BY <1>1, TipsHeld
  <2>3. CASE hasNonDelete(cmds)
    <3>1. heldNext = held \cup objs
      BY <1>1, <2>3, FinalizeReceives, ReceivesObjects
    <3> QED
      BY <2>1, <2>2, <2>3, <3>1, SameRefArithmetic DEF Repo!Push
  <2>4. CASE ~ hasNonDelete(cmds)
    <3>1. heldNext = held
      BY <1>1, <2>4 DEF finalizeReceive, packVars
    <3> QED
      BY <2>1, <2>2, <2>4, <3>1, SameRefArithmetic DEF Repo!Push
  <2> QED
    BY <2>3, <2>4
<1>2. ASSUME NEW newRefs \in AdminRefs, setRefs(newRefs) PROVE Repo!OperatorSetsRefs(newRefs)
  BY <1>2 DEF setRefs, packVars, Repo!OperatorSetsRefs
<1>3. ASSUME NEW newHead \in AdminHeads, setHead(newHead) PROVE Repo!OperatorSetsHead(newHead)
  BY <1>3 DEF setHead, refVars, packVars, Repo!OperatorSetsHead
<1>4. ASSUME getHead PROVE Repo!ResolveHead
  BY <1>4, SameRefArithmetic DEF getHead, packVars, Repo!ResolveHead
<1>5. ASSUME deleteAll PROVE Repo!Erase
  BY <1>5, ErasureEmpties, SameRefArithmetic DEF deleteAll, Repo!Erase
<1>6. ASSUME UNCHANGED <<refs, head>>, ~ deleteAll,
             ~ \E t \in Token, cmds \in CommandLists, objs \in StagedObjects :
                   finalizeReceive(t, cmds, objs)
      PROVE  UNCHANGED Repo!repoVars
  BY <1>6, ObjectsStay DEF Repo!repoVars
<1> QED
  BY <1>1, <1>2, <1>3, <1>4, <1>5, <1>6, RefsStep DEF Repo!Next

\* To its users the object is a ref map with a set of objects: every committed
\* push is one atomic compare-and-swap, and leases, compaction, alarms, restarts
\* and refusals are invisible.
THEOREM RepoDOImplementsGitRepo == Spec => ImplementsGitRepo
<1>1. Init => Repo!Init
  BY EmptyHasNothing, SameRefArithmetic DEF Init, Repo!Init
<1> QED
  BY <1>1, StepRefines, Invariance, SnapshotsInvariance, PTL
     DEF Spec, ImplementsGitRepo, Repo!Spec
=============================================================================
