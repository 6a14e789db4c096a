---------------------------- MODULE PackCatalog ----------------------------
(***************************************************************************)
(* The pack_catalog table of a repository and the tiered compaction plan   *)
(* computed from it.                                                       *)
(*                                                                         *)
(* A pack is named after the lease that produced it: pack-rx-<token> for a *)
(* push, pack-cmp-<token> for a compaction, so the row's "kind" column is  *)
(* the first component of its key.  The table is a total function on pack  *)
(* keys, NoRow standing for "no such row".                                 *)
(***************************************************************************)
EXTENDS Naturals, FiniteSetsExt

CONSTANTS
    Token,     \* lease tokens (crypto.randomUUID)
    NoToken,   \* "no lease"
    Object,    \* git objects a pack can hold
    FAN_IN     \* COMPACTION_FAN_IN

ASSUME CatalogAssumption ==
    /\ NoToken \notin Token
    /\ IsFiniteSet(Token)
    /\ FAN_IN \in Nat \ {0}

PackKey == {"rx", "cmp"} \X Token

NoPack == <<"none", NoToken>>

Row == [state        : {"none", "active", "superseded"},
        tier         : Nat,
        seqLo        : Nat,
        seqHi        : Nat,
        objs         : SUBSET Object,   \* objectCount, packBytes, idxBytes
        supersededBy : PackKey \cup {NoPack}]

NoRow == [state |-> "none", tier |-> 0, seqLo |-> 0, seqHi |-> 0,
          objs |-> {}, supersededBy |-> NoPack]

Catalog == [PackKey -> Row]

EmptyCatalog == [k \in PackKey |-> NoRow]

\* listActivePackCatalog
Active(cat) == {k \in PackKey : cat[k].state = "active"}

ActiveObjects(cat) == UNION {cat[k].objs : k \in Active(cat)}

-----------------------------------------------------------------------------
(***************************************************************************)
(* selectCompactionPlan: the lowest tier holding more than FAN_IN active   *)
(* packs is compacted, its FAN_IN oldest packs being the sources.          *)
(***************************************************************************)
TierPacks(cat, tier) == {k \in Active(cat) : cat[k].tier = tier}

OverflowingTiers(cat) ==
    {t \in {cat[k].tier : k \in Active(cat)} : Cardinality(TierPacks(cat, t)) > FAN_IN}

catalogNeedsCompaction(cat) == OverflowingTiers(cat) # {}

planTier(cat) == Min(OverflowingTiers(cat))

\* sort by seqLo ascending, slice(0, FAN_IN)
Oldest(cat, packs) ==
    {k \in packs : Cardinality({j \in packs : cat[j].seqLo < cat[k].seqLo}) < FAN_IN}

\* Mutant: the newest packs of the tier are picked (sort order reversed)
planSourcesNewest(cat) ==
    LET packs == TierPacks(cat, planTier(cat))
    IN  {k \in packs : Cardinality({j \in packs : cat[j].seqLo > cat[k].seqLo}) < FAN_IN}

planSources(cat) == Oldest(cat, TierPacks(cat, planTier(cat)))

(***************************************************************************)
(* The rows a commit compares with the rows the lease was granted for.     *)
(***************************************************************************)
rowsMatchForCommit(cat, granted, sources) ==
    \A k \in sources : cat[k].state = "active" /\ cat[k] = granted[k]

ReceiveRow(seq, objs) ==
    [state |-> "active", tier |-> 0, seqLo |-> seq, seqHi |-> seq,
     objs |-> objs, supersededBy |-> NoPack]

\* Mutant: the range is not widened to the last source
CompactRowNarrow(cat, sources, tier, objs) ==
    [state |-> "active", tier |-> tier,
     seqLo |-> Min({cat[k].seqLo : k \in sources}),
     seqHi |-> Min({cat[k].seqHi : k \in sources}),
     objs |-> objs, supersededBy |-> NoPack]

CompactRow(cat, sources, tier, objs) ==
    [state |-> "active", tier |-> tier,
     seqLo |-> Min({cat[k].seqLo : k \in sources}),
     seqHi |-> Max({cat[k].seqHi : k \in sources}),
     objs |-> objs, supersededBy |-> NoPack]

\* supersedePackCatalogRows
Supersede(cat, sources, by) ==
    [k \in PackKey |->
        IF k \in sources
        THEN [cat[k] EXCEPT !.state = "superseded", !.supersededBy = by]
        ELSE cat[k]]

-----------------------------------------------------------------------------
(***************************************************************************)
(* What the sequence ranges of the active packs owe each other, for the    *)
(* receive-sequence numbers 1 .. n - 1.                                    *)
(***************************************************************************)
Within(seq, row) == row.seqLo <= seq /\ seq <= row.seqHi

Covers(cat, n) == \A s \in 1 .. (n - 1) : \E k \in Active(cat) : Within(s, cat[k])

Separate(cat) ==
    \A j, k \in Active(cat) :
        j = k \/ cat[j].seqHi < cat[k].seqLo \/ cat[k].seqHi < cat[j].seqLo

Layered(cat) ==
    \A j, k \in Active(cat) : cat[j].tier > cat[k].tier => cat[j].seqHi < cat[k].seqLo
=============================================================================
