---------------------------- MODULE PackRewrite ----------------------------
(***************************************************************************)
(* rewritePackResult: one pack with the needed objects, and the bases of   *)
(* their deltas, out of the entries of an ordered snapshot.  A fetch sends *)
(* the output, a compaction replaces its sources by it.                    *)
(*                                                                         *)
(* The selection is a table of rows, one per chosen entry and named by the *)
(* position of that entry.  A row's header is read once; the object's      *)
(* canonical row is settled then, and the row's delta base is added to the *)
(* table.  Objects stored more than once make rows dead in favour of their *)
(* owner, and the dead rows are taken out at the end, which must not close *)
(* a base chain into a cycle.  One step is one turn of the code's loops.   *)
(***************************************************************************)
EXTENDS GitPack

VARIABLE rewrite

NoRewrite == [phase |-> "none"]

\* pos: the source entry; kind: "none" until the row is added, "new" until its
\* header is read; base: the row of the delta base, NoPos without one; pinned:
\* an OFS_DELTA needs this very row.  A row that is sent whole has kind "full"
\* while its source entry may be a delta.
noRow(pos) == [pos |-> pos, kind |-> "none", base |-> NoPos, pinned |-> FALSE]

Rows(t) == DOMAIN t.rows

header(t, s) == EntryAt(t.packs, t.rows[s].pos)

oidOf(t, s) == header(t, s).oid

isDelta(row) == row.kind \in {"ofs", "ref"}

\* sortSelectionSlots: rows are taken in the order of their source entries.
firstRow(t, S) == CHOOSE s \in S : \A r \in S \ {s} : ~Before(t.rows[r].pos, t.rows[s].pos)

\* addEntry: dedup maps an entry to its row, NoPos when it has none.
addEntry(t, pos) ==
    IF t.dedup[pos] # NoPos THEN t
    ELSE [t EXCEPT !.rows[pos].kind = "new", !.dedup[pos] = pos]

-----------------------------------------------------------------------------
(***************************************************************************)
(* Base chains and redirects.  dead is the deadSlots map: the row that     *)
(* replaces a row, NoPos when nothing does; since keeps the map's order.   *)
(***************************************************************************)
\* The rows that edges lead to from s.
reached(t, s, edge) ==
    Least(Rows(t), LAMBDA S : {edge[r] : r \in S \cup {s}} \cap Rows(t))

baseOf(t) == [s \in Rows(t) |-> t.rows[s].base]

selectionDependsOn(t, s, target) == target \in reached(t, s, baseOf(t))

Dead(t) == {s \in Rows(t) : t.dead[s] # NoPos}

\* Redirects among the dead rows of D are followed to their end.
resolveDeadSlotRedirect(t, D, s) ==
    IF s \notin D THEN s
    ELSE CHOOSE r \in reached(t, s, [q \in Rows(t) |-> IF q \in D THEN t.dead[q] ELSE NoPos]) : r \notin D

\* Map.set keeps the place of a key that is there.
setDead(t, s, owner) ==
    IF t.dead[s] # NoPos THEN [t EXCEPT !.dead[s] = owner]
    ELSE [t EXCEPT !.dead[s] = owner, !.since[s] = t.deaths + 1, !.deaths = @ + 1]

removeDead(t, s) == [t EXCEPT !.dead[s] = NoPos]

\* A row that its owner depends on cannot go.
unsafe(t, D, s) ==
    LET owner == resolveDeadSlotRedirect(t, D, s)
    IN  owner = s \/ selectionDependsOn(t, owner, s)

-----------------------------------------------------------------------------
(***************************************************************************)
(* claimCanonicalOwner                                                     *)
(***************************************************************************)
\* An OFS_DELTA base that is itself a delta takes ownership back.
takesOver(t, s, owner) ==
    t.rows[s].pinned /\ isDelta(t.rows[s]) /\ ~t.rows[owner].pinned

\* upgradeOwnerSelectionToFull
upgradesOwner(t, s, owner) ==
    ~t.rows[owner].pinned /\ t.rows[s].kind = "full" /\ isDelta(t.rows[owner])

redirectToOwner(t, s, owner) ==
    LET upgraded == [t EXCEPT !.rows[owner] = [@ EXCEPT !.pos = t.rows[s].pos,
                                                       !.kind = "full", !.base = NoPos]]
        u == IF upgradesOwner(t, s, owner) THEN upgraded ELSE t
    IN  [setDead(u, s, owner) EXCEPT !.dedup[t.rows[s].pos] = owner]

\* tryCanonicalizeDeltaSelectionToFull: the first whole duplicate.
wholeDuplicates(t, s) ==
    {pos \in collectPackedObjectCandidates(t.packs, oidOf(t, s)) :
        pos # t.rows[s].pos /\ kindOf(EntryAt(t.packs, pos)) = "full"}

canonicalizeToFull(t, s, pos) ==
    LET owner == t.dedup[pos]
    IN  IF owner \notin {NoPos, s}
        THEN [setDead(t, s, owner) EXCEPT !.dedup[t.rows[s].pos] = owner,
                                          !.owner[oidOf(t, s)] = owner]
        ELSE [t EXCEPT !.dedup[pos] = s,
                       !.owner[oidOf(t, s)] = s,
                       !.rows[s] = [@ EXCEPT !.pos = pos, !.kind = "full", !.base = NoPos]]

-----------------------------------------------------------------------------
(***************************************************************************)
(* resolveDeltaBaseFromHeader                                              *)
(***************************************************************************)
fail(t, reason) == [t EXCEPT !.phase = "failed", !.reason = reason]

\* The base row is read later unless it has been read or is to be anyway.
wireBase(t, s, base) ==
    [t EXCEPT !.rows[s].base = base,
              !.queue = IF t.rows[base].kind = "new" /\ base \notin t.batch
                        THEN @ \cup {base} ELSE @]

\* The base of an OFS_DELTA stays in the pack.
resolveOfsBase(t, s) ==
    LET pos   == <<t.rows[s].pos[1], header(t, s).ofs>>
        added == addEntry(t, pos)
        base  == added.dedup[pos]
        pin   == [added EXCEPT !.rows[base].pinned = TRUE]
    IN  IF base = s THEN fail(pin, "self-referential-ofs-delta") ELSE wireBase(pin, s, base)

\* Mutant: the object is read from the row's own pack.
materializeFromOwnPack(t, s) ==
    IF oidOf(t, s) \in DecodableOids(<<t.packs[t.rows[s].pos[1]]>>)
    THEN [t EXCEPT !.rows[s] = [@ EXCEPT !.kind = "full", !.base = NoPos]]
    ELSE fail(t, "cycle-breaker-materialize-miss")

\* materializeSelectionAsFullObject
materializeSelectionAsFullObject(t, s) ==
    IF oidOf(t, s) \in DecodableOids(t.packs)
    THEN [t EXCEPT !.rows[s] = [@ EXCEPT !.kind = "full", !.base = NoPos]]
    ELSE fail(t, "cycle-breaker-materialize-miss")

\* chooseRefDeltaBase: the candidates that do not depend on the row.
refDeltaBases(t, s) ==
    {pos \in collectPackedObjectCandidates(t.packs, header(t, s).ref) :
        /\ pos # t.rows[s].pos
        /\ t.dedup[pos] # s
        /\ t.dedup[pos] # NoPos => ~selectionDependsOn(t, t.dedup[pos], s)}

resolveRefBase(t, s) ==
    LET bases == refDeltaBases(t, s)
        added == addEntry(t, First(bases))
    IN  IF bases = {} THEN materializeSelectionAsFullObject(t, s)
        ELSE wireBase(added, s, added.dedup[First(bases)])

resolveDeltaBaseFromHeader(t, s) ==
    CASE kindOf(header(t, s)) = "full" -> t
      [] kindOf(header(t, s)) = "ofs"  -> resolveOfsBase(t, s)
      [] kindOf(header(t, s)) = "ref"  -> resolveRefBase(t, s)

\* The row becomes the owner of its object.
claim(t, s) == [t EXCEPT !.owner[oidOf(t, s)] = s]

\* readHeaderAndResolveBase.  Redirects are noted when it returns, but nothing
\* reads them before.
readHeaderAndResolveBase(t0, s) ==
    LET t     == [t0 EXCEPT !.rows[s].kind = kindOf(header(t0, s))]
        owner == t.owner[oidOf(t, s)]
        full  == wholeDuplicates(t, s)
    IN  IF t0.rows[s].kind # "new" THEN t0
        ELSE IF owner = s THEN resolveDeltaBaseFromHeader(t, s)
        ELSE IF owner # NoPos
        THEN IF takesOver(t, s, owner)
             THEN resolveDeltaBaseFromHeader(setDead(removeDead(claim(t, s), s), owner, s), s)
             ELSE redirectToOwner(t, s, owner)
        ELSE IF ~t.rows[s].pinned /\ isDelta(t.rows[s]) /\ full # {}
             THEN canonicalizeToFull(t, s, First(full))
             ELSE resolveDeltaBaseFromHeader(claim(t, s), s)

-----------------------------------------------------------------------------
(***************************************************************************)
(* The steps of a rewrite.                                                 *)
(***************************************************************************)
\* passthroughSinglePack: the bytes of the pack are the output.
passthroughSinglePack(t) == [t EXCEPT !.phase = "done", !.out = t.packs[1]]

\* buildSelection begins with the first entry of every needed object; a
\* snapshot of one pack that is needed whole is passed through.
beginRewrite(packs, needed) ==
    LET P     == Positions(packs)
        found == {findObject(packs, oid) : oid \in needed}
        t     == [phase |-> "headers", reason |-> "", packs |-> packs, needed |-> needed,
                  rows   |-> [pos \in P |-> IF pos \in found
                                            THEN [noRow(pos) EXCEPT !.kind = "new"] ELSE noRow(pos)],
                  dedup  |-> [pos \in P |-> IF pos \in found THEN pos ELSE NoPos],
                  owner  |-> [oid \in Oid |-> NoPos],
                  dead   |-> [pos \in P |-> NoPos], since |-> [pos \in P |-> 0], deaths |-> 0,
                  batch  |-> found, queue |-> {}, retained |-> {},
                  safe   |-> {}, at |-> 0, changed |-> FALSE, use |-> "",
                  live   |-> {}, order |-> <<>>, out |-> <<>>]
    IN  rewrite' = CASE NoPos \in found -> fail(t, "missing-needed-object")
                     [] NoPos \notin found ->
                            IF Len(packs) = 1 /\ found = P THEN passthroughSinglePack(t) ELSE t

\* processHeaderBatch
processHeader ==
    /\ rewrite.phase = "headers"
    /\ rewrite.batch # {}
    /\ LET s == firstRow(rewrite, rewrite.batch)
       IN  rewrite' = readHeaderAndResolveBase([rewrite EXCEPT !.batch = @ \ {s}], s)

\* pruneUnsafeDeadSlotRedirects begins, for the caller named by use.
beginPrune(t, use) ==
    [t EXCEPT !.phase = "prune", !.use = use, !.safe = Dead(t), !.at = 0, !.changed = FALSE]

\* drainSecondaryQueue
drainSecondaryQueue ==
    /\ rewrite.phase = "headers"
    /\ rewrite.batch = {}
    /\ rewrite' = IF rewrite.queue = {} THEN beginPrune(rewrite, "retained")
                  ELSE [rewrite EXCEPT !.batch = rewrite.queue, !.queue = {}]

\* One turn of pruneUnsafeDeadSlotRedirects, which goes through the map, leaving
\* out what it deletes on the way, until a round deletes nothing.
pruneUnsafeDeadSlotRedirects ==
    /\ rewrite.phase = "prune"
    /\ LET t    == rewrite
           left == {s \in t.safe : t.since[s] > t.at}
           s    == CHOOSE r \in left : \A q \in left : t.since[r] <= t.since[q]
           go   == unsafe(t, t.safe, s)
       IN  rewrite' = IF left # {}
                      THEN [t EXCEPT !.at = t.since[s], !.changed = @ \/ go,
                                     !.safe = IF go THEN @ \ {s} ELSE @]
                      ELSE IF t.changed THEN [t EXCEPT !.at = 0, !.changed = FALSE]
                      ELSE [t EXCEPT !.phase = t.use]

\* collectRetainedRedirectsNeedingBaseResolution
retainedRedirects(t) ==
    {s \in Dead(t) \ t.safe : isDelta(t.rows[s]) /\ t.rows[s].base = NoPos}

collectRetainedRedirects ==
    /\ rewrite.phase = "retained"
    /\ LET retained == retainedRedirects(rewrite)
       IN  rewrite' = IF retained = {} THEN [rewrite EXCEPT !.phase = "collapse"]
                      ELSE [rewrite EXCEPT !.phase = "repair", !.retained = retained]

\* resolveRetainedRedirectBase: a dead row that must stay gets its base after
\* all, and what that adds to the table is read next.
resolveRetainedRedirect ==
    /\ rewrite.phase = "repair"
    /\ LET s == firstRow(rewrite, rewrite.retained)
           t == [rewrite EXCEPT !.retained = @ \ {s}]
       IN  rewrite' = IF rewrite.retained = {} THEN [rewrite EXCEPT !.phase = "headers"]
                      ELSE IF t.rows[s].base # NoPos THEN t
                      ELSE resolveDeltaBaseFromHeader(t, s)

\* findNearestRedirectDependency: the first row down the owner's base chain
\* that redirects to the owner; NoPos when none does.
nearestDependency(t, owner) ==
    LET hits == {s \in Rows(t) : resolveDeadSlotRedirect(t, Dead(t), s) = owner}
        upTo == [s \in Rows(t) |-> IF s \in hits \ {owner} THEN NoPos ELSE t.rows[s].base]
        met  == hits \cap reached(t, owner, upTo)
    IN  IF met = {} THEN NoPos ELSE CHOOSE s \in met : TRUE

\* Mutant: redirects are all taken to be safe.
unsafeOwnersNone(t) == {}

\* collectUnsafeRedirectOwnerRewrites
unsafeOwners(t) ==
    {owner \in {resolveDeadSlotRedirect(t, Dead(t), s) : s \in {r \in Dead(t) : unsafe(t, Dead(t), r)}} :
        nearestDependency(t, owner) # NoPos}

\* One round of collapseUnsafeRedirectOwners: an owner's row takes over the
\* entry of the duplicate it depends on.  Duplicates are dead and owners are
\* not, so that the order of a round's rewrites does not matter.
collapseUnsafeRedirectOwners ==
    /\ rewrite.phase = "collapse"
    /\ LET t == rewrite
           takeOver(s) == [t.rows[nearestDependency(t, s)] EXCEPT !.pinned = @ \/ t.rows[s].pinned]
       IN  rewrite' = IF unsafeOwners(t) = {} THEN beginPrune(t, "compact")
                      ELSE [t EXCEPT !.rows = [s \in Rows(t) |-> IF s \in unsafeOwners(t)
                                                                 THEN takeOver(s) ELSE @[s]]]

-----------------------------------------------------------------------------
\* canPassthroughSinglePack
canPassthrough(t, live) ==
    /\ Len(t.packs) = 1
    /\ live = Positions(t.packs)
    /\ \A s \in live : t.rows[s].kind = kindOf(header(t, s))

\* compactDeadSlots: the rows that stay, their bases redirected to owners.
compactDeadSlots ==
    /\ rewrite.phase = "compact"
    /\ LET t     == rewrite
           live  == {s \in Rows(t) \ t.safe : t.rows[s].kind # "none"}
           moved == [s \in Rows(t) |-> IF t.rows[s].base = NoPos THEN NoPos
                                       ELSE resolveDeadSlotRedirect(t, t.safe, t.rows[s].base)]
       IN  rewrite' = IF canPassthrough(t, live) THEN passthroughSinglePack(t)
                      ELSE [t EXCEPT !.phase = "order", !.live = live, !.order = <<>>,
                                     !.rows = [s \in Rows(t) |-> [@[s] EXCEPT !.base = moved[s]]]]

\* createRewriteStream: a REF_DELTA keeps its base's id, an OFS_DELTA gets the
\* place of its base row in the output.
outputEntry(t, n) ==
    LET row   == t.rows[t.order[n]]
        entry == EntryAt(t.packs, row.pos)
    IN  CASE row.kind = "full" -> Whole(entry.oid)
          [] row.kind = "ofs"  ->
                [entry EXCEPT !.ofs = CHOOSE m \in DOMAIN t.order : t.order[m] = row.base]
          [] row.kind = "ref"  -> entry

\* buildOutputOrder: bases first, otherwise in source order; rows are left over
\* when the bases form a cycle.
buildOutputOrder ==
    /\ rewrite.phase = "order"
    /\ LET t     == rewrite
           done  == ToSet(t.order)
           ready == {s \in t.live \ done : t.rows[s].base \in done \cup {NoPos}}
       IN  rewrite' = IF ready # {} THEN [t EXCEPT !.order = Append(@, firstRow(t, ready))]
                      ELSE IF done # t.live THEN fail(t, "topology-incomplete")
                      ELSE [t EXCEPT !.phase = "done",
                                     !.out = [n \in DOMAIN t.order |-> outputEntry(t, n)]]

RewriteStep ==
    \/ processHeader
    \/ drainSecondaryQueue
    \/ pruneUnsafeDeadSlotRedirects
    \/ collectRetainedRedirects
    \/ resolveRetainedRedirect
    \/ collapseUnsafeRedirectOwners
    \/ compactDeadSlots
    \/ buildOutputOrder
=============================================================================
