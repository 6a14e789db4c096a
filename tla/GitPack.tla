------------------------------ MODULE GitPack ------------------------------
(***************************************************************************)
(* Packs and the ways of finding and decoding an object in them.           *)
(*                                                                         *)
(* A pack is the sequence of its entries in offset order.  An entry holds  *)
(* an object whole, as an OFS_DELTA of an earlier entry of its pack, or as *)
(* a REF_DELTA of an object named by its id.  Offsets are entry indices    *)
(* and an object is its id: a delta decodes to its object exactly when it  *)
(* is applied to the object it was computed from.  A position <<p, i>> is  *)
(* entry i of the p-th pack of a snapshot, newest pack first.              *)
(***************************************************************************)
EXTENDS Naturals, SequencesExt

CONSTANTS
    Oid,    \* object ids
    NoOid   \* "not a REF_DELTA"

ASSUME OidAssumption == NoOid \notin Oid

\* An entry stored whole; an OFS_DELTA has the entry ofs of its pack for a base, a
\* REF_DELTA the object ref.
Whole(oid) == [oid |-> oid, ofs |-> 0, ref |-> NoOid]

kindOf(entry) == IF entry.ref # NoOid THEN "ref"
                 ELSE IF entry.ofs # 0 THEN "ofs" ELSE "full"

Oids(pack) == {pack[i].oid : i \in DOMAIN pack}

Positions(packs) == UNION {{p} \X DOMAIN packs[p] : p \in DOMAIN packs}

NoPos == <<0, 0>>

EntryAt(packs, pos) == packs[pos[1]][pos[2]]

\* Snapshot order: by pack, then by offset.
Before(p, q) == p[1] < q[1] \/ (p[1] = q[1] /\ p[2] < q[2])

First(S) == CHOOSE p \in S : \A q \in S \ {p} : Before(p, q)

\* The least subset of D that is closed under step, a monotone operator.
Least(D, step(_)) ==
    LET closed == {S \in SUBSET D : step(S) \subseteq S}
    IN  {x \in UNION closed : \A S \in closed : x \in S}

-----------------------------------------------------------------------------
\* collectPackedObjectCandidates: every entry of an object; the code tries
\* them in snapshot order.
collectPackedObjectCandidates(packs, oid) ==
    {pos \in Positions(packs) : EntryAt(packs, pos).oid = oid}

\* findObject: the first pack that has the object; NoPos when none has.
findObject(packs, oid) ==
    LET found == collectPackedObjectCandidates(packs, oid)
    IN  IF found = {} THEN NoPos ELSE First(found)

\* The entries that decode once those of S do.
decodesFrom(packs, S) ==
    {q \in Positions(packs) :
        LET e == EntryAt(packs, q)
        IN  \/ kindOf(e) = "full"
            \/ kindOf(e) = "ofs" /\ <<q[1], e.ofs>> \in S
            \/ kindOf(e) = "ref" /\ \E b \in S : EntryAt(packs, b).oid = e.ref}

\* materializeCandidate under the cycle policy "miss", with every candidate of
\* a base tried in turn: an entry decodes when some acyclic chain of bases
\* ends in a whole object, so that the least set closed under decoding has it.
Decodable(packs) == Least(Positions(packs), LAMBDA S : decodesFrom(packs, S))

DecodableOids(packs) == {EntryAt(packs, q).oid : q \in Decodable(packs)}

StoredOids(packs) == {EntryAt(packs, q).oid : q \in Positions(packs)}
=============================================================================
