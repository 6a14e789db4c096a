----------------------------- MODULE PackStore -----------------------------
(***************************************************************************)
(* What a repository's packs go through: a push stages a (thin) pack that  *)
(* is indexed against the active packs, a compaction rewrites a run of     *)
(* packs into one that is indexed and takes their place, a fetch rewrites  *)
(* the objects it sends, the ref-index backfill indexes an active pack     *)
(* again, and a request reads an object.                                   *)
(*                                                                         *)
(* Jobs follow each other: the receive and compaction leases exclude each  *)
(* other (RepoDO), and the other jobs work on the snapshot of the catalog  *)
(* they loaded.                                                            *)
(***************************************************************************)
EXTENDS PackIndexer, PackRewrite

CONSTANTS
    ThinBases,       \* objects that a pushed REF_DELTA may name
    MaxEntries,      \* entries of a pushed pack
    MaxStored,       \* entries of all pushed packs
    MaxPushes,
    MaxCompactions

ASSUME BoundsAssumption ==
    /\ ThinBases \subseteq Oid
    /\ {MaxEntries, MaxStored, MaxPushes, MaxCompactions} \subseteq Nat

VARIABLES
    job,     \* the job under way
    read,    \* the readObject call of the request under way
    spent    \* pushes accepted and compactions begun, against their bounds

vars == <<catalog, index, rewrite, job, read, spent>>

NoJob  == [kind |-> "none"]
NoRead == [phase |-> "none"]

Init ==
    /\ catalog = <<>>
    /\ index = NoIndex
    /\ rewrite = NoRewrite
    /\ job = NoJob
    /\ read = NoRead
    /\ spent = [pushes |-> 0, entries |-> 0, compactions |-> 0]

-----------------------------------------------------------------------------
(***************************************************************************)
(* The packs a git client sends: an object once, deltas of objects of the  *)
(* pack or, thin, of others, and no object a delta of what is computed     *)
(* from it.                                                                *)
(***************************************************************************)
\* Entries whose object follows from whole entries and from thin bases.
groundedFrom(pack, S) ==
    {i \in DOMAIN pack :
        \/ kindOf(pack[i]) = "full"
        \/ kindOf(pack[i]) = "ofs" /\ pack[i].ofs \in S
        \/ /\ kindOf(pack[i]) = "ref"
           /\ pack[i].ref \in Oids(pack) => \E j \in S : pack[j].oid = pack[i].ref}

grounded(pack) == Least(DOMAIN pack, LAMBDA S : groundedFrom(pack, S))

entriesAt(n) == {e \in [oid : Oid, ofs : 0 .. n - 1, ref : ThinBases \cup {NoOid}] :
                    /\ e.ref # e.oid
                    /\ e.ofs = 0 \/ e.ref = NoOid}

ClientPacks ==
    {pack \in UNION {[1 .. n -> entriesAt(n)] : n \in 1 .. MaxEntries} :
        /\ \A i \in DOMAIN pack : pack[i].ofs < i
        /\ \A i, j \in DOMAIN pack : pack[i].oid = pack[j].oid => i = j
        /\ grounded(pack) = DOMAIN pack}

-----------------------------------------------------------------------------
\* executeReceivePipeline: the staged pack is indexed, and active once the
\* push is finalized; a pack that cannot be indexed is refused.
pushPack ==
    /\ job = NoJob
    /\ spent.pushes < MaxPushes
    /\ \E pack \in ClientPacks :
        /\ spent.entries + Len(pack) <= MaxStored
        /\ beginIndex(pack, 0)
    /\ job' = [kind |-> "push"]
    /\ UNCHANGED <<catalog, rewrite, read, spent>>

endPush ==
    /\ job.kind = "push"
    /\ index.phase \in {"indexed", "failed"}
    /\ catalog' = IF index.phase = "indexed" THEN <<index.pack>> \o catalog ELSE catalog
    /\ spent' = IF index.phase = "indexed"
                THEN [spent EXCEPT !.pushes = @ + 1, !.entries = @ + Len(index.pack)]
                ELSE spent
    /\ index' = NoIndex
    /\ job' = NoJob
    /\ UNCHANGED <<rewrite, read>>

\* handleCompactionMessage: the sources, a run of the catalog, come first in
\* the snapshot; every object of theirs is needed.
compactPacks ==
    /\ job = NoJob
    /\ spent.compactions < MaxCompactions
    /\ \E lo, hi \in DOMAIN catalog :
        /\ lo < hi
        /\ LET sources == SubSeq(catalog, lo, hi)
               others  == SubSeq(catalog, 1, lo - 1) \o SubSeq(catalog, hi + 1, Len(catalog))
           IN  beginRewrite(sources \o others, StoredOids(sources))
        /\ job' = [kind |-> "compact", lo |-> lo, hi |-> hi]
    /\ spent' = [spent EXCEPT !.compactions = @ + 1]
    /\ UNCHANGED <<catalog, index, read>>

\* The output is staged, scanned and indexed like a pushed pack.
indexCompacted ==
    /\ job.kind = "compact"
    /\ rewrite.phase = "done"
    /\ index = NoIndex
    /\ beginIndex(rewrite.out, 0)
    /\ UNCHANGED <<catalog, rewrite, job, read, spent>>

endCompaction ==
    /\ job.kind = "compact"
    /\ rewrite.phase = "failed" \/ index.phase \in {"indexed", "failed"}
    /\ catalog' = IF index.phase = "indexed"
                  THEN SubSeq(catalog, 1, job.lo - 1) \o <<index.pack>>
                         \o SubSeq(catalog, job.hi + 1, Len(catalog))
                  ELSE catalog
    /\ index' = NoIndex
    /\ rewrite' = NoRewrite
    /\ job' = NoJob
    /\ UNCHANGED <<read, spent>>

\* handleRefBackfill: an active pack is indexed again from its .idx.
backfillPack ==
    /\ job = NoJob
    /\ \E slot \in DOMAIN catalog : beginIndex(catalog[slot], slot)
    /\ job' = [kind |-> "backfill"]
    /\ UNCHANGED <<catalog, rewrite, read, spent>>

endBackfill ==
    /\ job.kind = "backfill"
    /\ index.phase \in {"indexed", "failed"}
    /\ index' = NoIndex
    /\ job' = NoJob
    /\ UNCHANGED <<catalog, rewrite, read, spent>>

\* The pack of a fetch, for whatever objects the plan found to be needed.
fetchPack ==
    /\ job = NoJob
    /\ \E needed \in SUBSET StoredOids(catalog) \ {{}} : beginRewrite(catalog, needed)
    /\ job' = [kind |-> "fetch"]
    /\ UNCHANGED <<catalog, index, read, spent>>

endFetch ==
    /\ job.kind = "fetch"
    /\ rewrite.phase \in {"done", "failed"}
    /\ rewrite' = NoRewrite
    /\ job' = NoJob
    /\ UNCHANGED <<catalog, index, read, spent>>

-----------------------------------------------------------------------------
(***************************************************************************)
(* readObject: the first pack that has the object decides.  inflight are   *)
(* the calls the request has not finished, by object: a second call for    *)
(* the same object awaits the promise of the first.  The base of an        *)
(* OFS_DELTA is read in the pack, that of a REF_DELTA by readObject.       *)
(***************************************************************************)
\* Mutant: only the newest pack is searched.
callReadNewest(r, oid) ==
    IF oid \in r.inflight THEN [r EXCEPT !.phase = "waiting"]
    ELSE IF oid \notin Oids(catalog[1]) THEN [r EXCEPT !.phase = "missing"]
    ELSE [r EXCEPT !.inflight = @ \cup {oid}, !.pos = findObject(catalog, oid)]

\* The call for an object: it waits for the one in flight, misses, or opens
\* the first entry found.
callRead(r, oid) ==
    LET pos == findObject(catalog, oid)
    IN  IF oid \in r.inflight THEN [r EXCEPT !.phase = "waiting"]
        ELSE IF pos = NoPos THEN [r EXCEPT !.phase = "missing"]
        ELSE [r EXCEPT !.inflight = @ \cup {oid}, !.pos = pos]

beginRead ==
    /\ job = NoJob
    /\ \E oid \in StoredOids(catalog) :
        read' = callRead([phase |-> "open", oid |-> oid, inflight |-> {},
                          visited |-> {}, pos |-> NoPos], oid)
    /\ job' = [kind |-> "read"]
    /\ UNCHANGED <<catalog, index, rewrite, spent>>

\* materializeCandidate, under the cycle policy "throw".
materializeCandidate ==
    /\ read.phase = "open"
    /\ LET entry == EntryAt(catalog, read.pos)
           next  == [read EXCEPT !.visited = @ \cup {read.pos}]
       IN  read' = IF read.pos \in read.visited THEN [read EXCEPT !.phase = "threw"]
                   ELSE IF kindOf(entry) = "full" THEN [next EXCEPT !.phase = "found"]
                   ELSE IF kindOf(entry) = "ofs"
                   THEN [next EXCEPT !.pos = <<@[1], entry.ofs>>]
                   ELSE callRead(next, entry.ref)
    /\ UNCHANGED <<catalog, index, rewrite, job, spent>>

\* A call that waits for itself never ends.
endRead ==
    /\ read.phase \in {"found", "missing", "threw"}
    /\ read' = NoRead
    /\ job' = NoJob
    /\ UNCHANGED <<catalog, index, rewrite, spent>>

-----------------------------------------------------------------------------
Next ==
    \/ pushPack \/ endPush
    \/ compactPacks \/ indexCompacted \/ endCompaction
    \/ backfillPack \/ endBackfill
    \/ fetchPack \/ endFetch
    \/ beginRead \/ materializeCandidate \/ endRead
    \/ IndexStep /\ UNCHANGED <<catalog, rewrite, job, read, spent>>
    \/ RewriteStep /\ UNCHANGED <<catalog, index, job, read, spent>>

Spec == Init /\ [][Next]_vars

-----------------------------------------------------------------------------
\* No object is lost: every entry of the catalog can be decoded, whatever was pushed
\* (resolveDeltasAndWriteIdx) and compacted (rewritePackResult).
StoredIsDecodable == job = NoJob => Decodable(catalog) = Positions(catalog)

\* A pass of resolveDeltasAndWriteIdx that fails has met an entry no order of resolution could have
\* decoded, so no good push is refused and a backfill of an active pack, with
\* the pack itself out of bounds for external bases, never fails.
FailsOnlyUndecodable ==
    index # NoIndex /\ index.phase = "failed" =>
        /\ job.kind = "push"
        /\ \E i \in Entries : <<1, i>> \notin Decodable(<<index.pack>> \o catalog)

\* An evicted payload can be computed again: base edges do not run in circles.
\* And a REF_DELTA is only ever applied to the object it names.
BasesRecomputable ==
    Indexing =>
        /\ index.resolved \subseteq Materializable
        /\ \A i \in Entries : index.base[i] # 0 /\ kindOf(index.pack[i]) = "ref" =>
                index.pack[index.base[i]].oid = index.pack[i].ref

\* A rewrite (rewritePackResult) fails for nothing but bases that run in a circle
\* in its output: every object asked for is found, an OFS_DELTA has another entry
\* for a base, and a row that no base is left for is sent whole.
FailsOnlyInCircles ==
    rewrite # NoRewrite /\ rewrite.phase = "failed" =>
        \E circle \in (SUBSET rewrite.live) \ {{}} :
            \A s \in circle : rewrite.rows[s].base \in circle

\* selection.ts:215: "The retained-redirect repair above already rewrote the few
\* topology-sensitive cases back to one live row before this final compaction
\* pass runs", so that no good snapshot is beyond the rewrite.
RewriteSucceeds == rewrite.phase # "failed"

\* selectionResolve.ts:252: "The source pack's offset ordering is already acyclic",
\* so that the bases of OFS_DELTAs close no circle and whatever was pushed can be
\* cloned.
WholeRewriteSucceeds ==
    rewrite # NoRewrite /\ rewrite.phase = "failed" =>
        rewrite.needed # StoredOids(rewrite.packs)

\* The output has every needed object, no object twice, and every entry can be
\* decoded from the output alone, each delta from the object it was made of.
OutputStandsAlone ==
    rewrite.phase = "done" =>
        LET out == rewrite.out
        IN  /\ rewrite.needed \subseteq Oids(out)
            /\ \A i, j \in DOMAIN out : out[i].oid = out[j].oid => i = j
            /\ Decodable(<<out>>) = Positions(<<out>>)
            /\ \A i \in DOMAIN out : out[i].ofs # 0 =>
                \E pos \in Positions(rewrite.packs) :
                    LET e == EntryAt(rewrite.packs, pos)
                    IN  /\ e.oid = out[i].oid
                        /\ e.ofs # 0
                        /\ rewrite.packs[pos[1]][e.ofs].oid = out[out[i].ofs].oid

\* The entries that decode when every REF_DELTA takes the first entry of its base.
firstEntriesFrom(packs, S) ==
    {pos \in Positions(packs) :
        LET e == EntryAt(packs, pos)
        IN  \/ kindOf(e) = "full"
            \/ kindOf(e) = "ofs" /\ <<pos[1], e.ofs>> \in S
            \/ kindOf(e) = "ref" /\ findObject(packs, e.ref) \in S}

firstEntriesDecode(packs) == Least(Positions(packs), LAMBDA S : firstEntriesFrom(packs, S))

\* No stored object is missed, and a read throws only when the first entries
\* of the object and of its bases lead back to themselves.
ReadsFindObjects ==
    /\ read.phase # "missing"
    /\ read.phase = "threw" => findObject(catalog, read.oid) \notin firstEntriesDecode(catalog)

\* materialize.ts:71: a read that comes back to an entry it is decoding throws
\* "pack object recursion cycle".  It never awaits its own result.
ReadsNeverAwaitThemselves == read.phase # "waiting"
=============================================================================
