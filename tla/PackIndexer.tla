---------------------------- MODULE PackIndexer ----------------------------
(***************************************************************************)
(* resolveDeltasAndWriteIdx: the second pass over a staged pack.  It finds *)
(* the object of every delta, in offset order while the bases are at hand, *)
(* and puts off the entries whose base is not: they wait for their base    *)
(* entry, or for some entry to turn out to be their base object, and only  *)
(* what is left looks for its base in the active packs.  With an existing  *)
(* .idx (the ref-index backfill) the objects are known beforehand and the  *)
(* pass only rebuilds the reference index.                                 *)
(*                                                                         *)
(* One step resolves, defers or skips one entry, as one turn of the code's *)
(* loops does.  A pack of OFS_DELTAs alone takes the same steps: nothing   *)
(* is ever put off.                                                        *)
(***************************************************************************)
EXTENDS GitPack

VARIABLES
    catalog,   \* the active packs, newest first
    index      \* the pass under way

NoIndex == [phase |-> "none"]

Entries == DOMAIN index.pack

-----------------------------------------------------------------------------
(***************************************************************************)
(* The start of a pass: entries that hold their object whole are resolved  *)
(* by the scan, bases that are known are wired, and the others wait.       *)
(***************************************************************************)
\* findSamePackRefBaseEntry: a whole duplicate first, else the first delta,
\* unless the entry is itself of that object.
findSamePackRefBaseEntry(pack, i) ==
    LET run  == {j \in DOMAIN pack : pack[j].oid = pack[i].ref}
        full == {j \in run \ {i} : kindOf(pack[j]) = "full"}
    IN  IF full # {} THEN Min(full)
        ELSE IF run = {} \/ i \in run THEN 0 ELSE Min(run)

\* getResolvedBaseEntry, after noteResolvedEntry of every scanned entry.
getResolvedBaseEntry(pack, i) ==
    LET full == {j \in DOMAIN pack : pack[j].oid = pack[i].ref /\ kindOf(pack[j]) = "full"}
    IN  IF full = {} THEN 0 ELSE Max(full)

\* scanPack: the entries whose object is known without resolving a delta.
scanPack(pack) == {i \in DOMAIN pack : kindOf(pack[i]) = "full"}

\* buildMixedDependencies
buildMixedDependencies(pack, backfill) ==
    [i \in DOMAIN pack |->
        CASE kindOf(pack[i]) = "full" -> 0
          [] kindOf(pack[i]) = "ofs"  -> pack[i].ofs
          [] kindOf(pack[i]) = "ref"  ->
                LET same == IF backfill THEN findSamePackRefBaseEntry(pack, i) ELSE 0
                IN  IF same # 0 THEN same ELSE getResolvedBaseEntry(pack, i)]

\* slot: the pack's place in the catalog when it is there already, else 0.
beginIndex(pack, slot) ==
    LET base == buildMixedDependencies(pack, slot # 0)
        full == scanPack(pack)
    IN  index' = [phase      |-> "main",
                  pack       |-> pack,
                  slot       |-> slot,
                  resolved   |-> full,
                  base       |-> base,
                  waiting    |-> {i \in DOMAIN pack : kindOf(pack[i]) = "ref" /\ base[i] = 0},
                  registered |-> {i \in DOMAIN pack : base[i] # 0 /\ base[i] \notin full},
                  ready      |-> {},
                  at         |-> 1]

-----------------------------------------------------------------------------
isReady(x, i) == i \notin x.resolved /\ x.base[i] # 0 /\ x.base[i] \in x.resolved

\* enqueueReadyDeferred, for some entries.  The order of the queue is left open.
enqueueReadyDeferred(x, entries) ==
    [x EXCEPT !.ready = @ \cup {i \in entries : isReady(x, i)}]

\* The entries take i for their base and wait no more.
adopt(x, entries, i) ==
    [x EXCEPT !.waiting = @ \ entries,
              !.base = [j \in DOMAIN @ |-> IF j \in entries /\ @[j] = 0 THEN i ELSE @[j]]]

\* Mutant: every waiter takes the first delta that is resolved for its base.
promoteWaitingRefDeltasAny(x, i) ==
    enqueueReadyDeferred(adopt(x, x.waiting, i), x.waiting)

\* promoteWaitingRefDeltas: entry i turned out to be the base of these.
promoteWaitingRefDeltas(x, i) ==
    LET woken == {j \in x.waiting : x.pack[j].ref = x.pack[i].oid}
    IN  enqueueReadyDeferred(adopt(x, woken, i), woken)

\* Mutant: dependents of a late base are not woken.
promoteReadyInPackDependentsNot(x, i) == x

\* promoteReadyInPackDependents: these waited for entry i.
promoteReadyInPackDependents(x, i) ==
    LET woken == {j \in x.registered : x.base[j] = i}
    IN  enqueueReadyDeferred([x EXCEPT !.registered = @ \ woken], woken)

\* resolveDeltaEntry, and the same bookkeeping after an external base.
resolveEntry(x, i) ==
    promoteReadyInPackDependents(
        promoteWaitingRefDeltas([x EXCEPT !.resolved = @ \cup {i}], i), i)

-----------------------------------------------------------------------------
\* The pass in offset order: a delta without a resolved base is put off.
mainPass ==
    /\ index.phase = "main"
    /\ index.at \in Entries
    /\ LET i    == index.at
           next == [index EXCEPT !.at = @ + 1]
       IN  index' = IF isReady(index, i) THEN resolveEntry(next, i) ELSE next

\* What was put off and is not resolved by now is queued if its base is.
endMainPass ==
    /\ index.phase = "main"
    /\ index.at \notin Entries
    /\ index' = [enqueueReadyDeferred(index, Entries) EXCEPT !.phase = "deferred", !.at = 1]

\* drainReadyDeferredQueue
drainReadyDeferred ==
    /\ index.phase = "deferred"
    /\ \E i \in index.ready :
        LET rest == [index EXCEPT !.ready = @ \ {i}]
        IN  index' = IF isReady(index, i) THEN resolveEntry(rest, i) ELSE rest

\* readExternalBaseObject: the active packs, without the pack itself.
externalPacks == IF index.slot = 0 THEN catalog ELSE RemoveAt(catalog, index.slot)

readExternalBaseObject(oid) == oid \in DecodableOids(externalPacks)

\* An entry that still has no base in the pack looks for it in the active
\* packs.  One that has got a base is only queued if that base is resolved,
\* and then the promotion queued it before: the queue stays empty.
externalFallback ==
    /\ index.phase = "deferred"
    /\ index.ready = {}
    /\ index.at \in Entries
    /\ LET i    == index.at
           next == [index EXCEPT !.at = @ + 1]
       IN  index' = IF i \in index.resolved THEN next
                    ELSE IF index.base[i] # 0 THEN enqueueReadyDeferred(next, {i})
                    ELSE IF readExternalBaseObject(index.pack[i].ref) THEN resolveEntry(next, i)
                    ELSE next

\* Mutant: the artifacts are written whatever was resolved.
endIndexUnchecked ==
    /\ index.phase = "deferred"
    /\ index.ready = {}
    /\ index.at \notin Entries
    /\ index' = [index EXCEPT !.phase = "indexed"]

\* "objects could not be resolved", or the .idx and .refs are written.
endIndex ==
    /\ index.phase = "deferred"
    /\ index.ready = {}
    /\ index.at \notin Entries
    /\ index' = [index EXCEPT !.phase = IF index.resolved = Entries THEN "indexed" ELSE "failed"]

IndexStep ==
    \/ mainPass
    \/ endMainPass
    \/ drainReadyDeferred
    \/ externalFallback
    \/ endIndex

-----------------------------------------------------------------------------
Indexing == index.phase # "none"

\* materializeEntry: a resolved entry evicted from the payload cache is decoded
\* again along the base edges, to a whole entry or an external base.  From
\* these entries the edges do not run in circles.
Materializable == Least(Entries, LAMBDA S : {i \in Entries : index.base[i] \in S \cup {0}})
=============================================================================
