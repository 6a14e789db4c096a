---------------------------- MODULE GitExchange ----------------------------
(***************************************************************************)
(* What git clients and a repository exchange: pushes and their            *)
(* connectivity check, the negotiation of a fetch, the plan that selects   *)
(* the objects to send from the packs' reference sidecars (.refs), and the *)
(* queue consumer that builds a sidecar an older pack lacks.               *)
(*                                                                         *)
(* An object is its name: Kind and Links say what the object of a name is, *)
(* so a pack is a set of names.  A client is the tips of its refs; it has  *)
(* what they reach, or git would not have let them be.                     *)
(***************************************************************************)
EXTENDS Integers, Sequences, FiniteSets, SequencesExt

CONSTANTS
    Oid,
    Kind,            \* [Oid -> {"commit", "tree", "blob", "tag"}]
    Links,           \* [Oid -> Seq]: tree, then parents; entries; target
    Gitlink,         \* entries of trees that are commits of other repositories
    Legacy,          \* tip of a repository packed before there were sidecars
    Client, Ref, NoOid,
    HaveCap,         \* HAVE_CAP and the limit of findCommonHaves
    EnrichBelow,     \* fewer common haves than this are enriched
    EnrichBudget,    \* MAINLINE_ENRICHMENT_BUDGET
    MaxTagDepth,     \* MAX_TAG_DEPTH
    MissingRefCap,   \* MISSING_REF_CAP
    MaxPushes, MaxCompactions, MaxFaults

\* Gitlinks are entries of trees; a tag has one target, and only tags name tags.
ASSUME GraphAssumption ==
    /\ IsFiniteSet(Oid) /\ Legacy \in Oid /\ NoOid \notin Oid /\ Gitlink \cap Oid = {}
    /\ Kind \in [Oid -> {"commit", "tree", "blob", "tag"}]
    /\ Links \in [Oid -> Seq(Oid \cup Gitlink)]
    /\ \A oid \in Oid :
        /\ Kind[oid] # "tree" => Range(Links[oid]) \subseteq Oid
        /\ Kind[oid] = "tag" => Len(Links[oid]) = 1
        /\ Kind[oid] # "tag" => \A q \in Range(Links[oid]) \cap Oid : Kind[q] # "tag"

ASSUME LimitAssumption ==
    /\ HaveCap \in Nat /\ EnrichBelow \in Nat /\ EnrichBudget \in Nat
    /\ MaxTagDepth \in Nat /\ MissingRefCap \in Nat
    /\ MaxPushes \in Nat /\ MaxCompactions \in Nat /\ MaxFaults \in Nat

VARIABLES
    files,      \* sequence of packs ever stored: [objs, refs], refs TRUE once .refs is there
    catalog,    \* the active packs, newest first: indices of files
    refs,       \* [Ref -> Oid \cup {NoOid}]
    shown,      \* tips that refs ever had, so that someone may have fetched them
    client,     \* [Client -> its tips and its fetch]
    queue,      \* packs with a pack-ref-backfill message, and the consumers' work
    spent       \* pushes, compactions and faults, against their bounds

vars == <<files, catalog, refs, shown, client, queue, spent>>

-----------------------------------------------------------------------------
\* f applied n times, from x.
iterate(f, x, n) ==
    LET at[k \in Nat] == IF k = 0 THEN x ELSE f[at[k - 1]]
    IN  at[n]

\* Every object reached from an object, gitlinks left out.
Reach ==
    LET grow == [S \in SUBSET Oid |-> S \cup UNION {Range(Links[o]) \ Gitlink : o \in S}]
    IN  [oid \in Oid |-> iterate(grow, {oid}, Cardinality(Oid))]

\* Names are hashes: no object is reached from what it links to.
ASSUME HashAssumption ==
    \A oid \in Oid : \A q \in Range(Links[oid]) \cap Oid : oid \notin Reach[q]

Closure(S) == UNION {Reach[o] : o \in S}

Has(c) == Closure(client[c].tips)

objectsOf(packs) == UNION {files[p].objs : p \in packs}
Stored == objectsOf(Range(catalog))

\* What refs and haves name.
Points == {o \in Oid : Kind[o] \in {"commit", "tag"}}

NoFetch == [phase |-> "none"]
Nowhere == [r \in Ref |-> NoOid]

Init ==
    /\ \/ /\ files = <<[objs |-> Closure({Legacy}), refs |-> FALSE]>>
          /\ catalog = <<1>>
          /\ refs \in {[Nowhere EXCEPT ![r] = Legacy] : r \in Ref}
       \/ files = <<>> /\ catalog = <<>> /\ refs = Nowhere
    /\ shown = Range(refs) \cap Oid
    /\ client \in [Client -> [tips : {{}} \cup {{o} : o \in Points}, fetch : {NoFetch}]]
    /\ queue = [messages |-> {}, working |-> {}]
    /\ spent = [pushes |-> 0, compactions |-> 0, faults |-> 0]

-----------------------------------------------------------------------------
(***************************************************************************)
(* runPackConnectivityCheck: the target, its tags unwrapped, must be       *)
(* there, and the tree and the parents of a commit.  Deeper it does not    *)
(* look.                                                                   *)
(***************************************************************************)
\* Mutant: the tag itself is counted as a hop.
unwrapTagShort(oid, there) ==
    LET hop  == [o \in Oid |-> IF o \in there /\ Kind[o] = "tag" THEN Links[o][1] ELSE o]
        last == iterate(hop, oid, MaxTagDepth - 1)
    IN  IF last \in there /\ Kind[last] # "tag" THEN last ELSE NoOid

\* The object at the end of a chain of tags, none if it is missing or if the
\* chain is longer than MaxTagDepth.
unwrapTag(oid, there) ==
    LET hop  == [o \in Oid |-> IF o \in there /\ Kind[o] = "tag" THEN Links[o][1] ELSE o]
        last == iterate(hop, oid, MaxTagDepth)
    IN  IF last \in there /\ Kind[last] # "tag" THEN last ELSE NoOid

\* Mutant: the check that the object is there is taken for enough.
connectedPresent(oid, there) == unwrapTag(oid, there) # NoOid

connected(oid, there) ==
    LET target == unwrapTag(oid, there)
    IN  /\ target # NoOid
        /\ Kind[target] = "commit" => Range(Links[target]) \subseteq there

\* Someone makes commits and tags and pushes the last to a ref as it is shown.
\* The pack leaves out what is reached from tips the client fetched before; a
\* client whose store is damaged (or partial) also leaves out some objects that
\* the repository lacks.
push(r, new) ==
    /\ spent.pushes < MaxPushes
    /\ new \in Points \ {refs[r]}
    /\ \E whole \in {Closure({new}) \ Closure(base) : base \in SUBSET shown} :
        \E lost \in IF spent.faults < MaxFaults THEN SUBSET (whole \ Stored) ELSE {{}} :
            /\ connected(new, (whole \ lost) \cup Stored)
            /\ files' = Append(files, [objs |-> whole \ lost, refs |-> TRUE])
            /\ spent' = [spent EXCEPT !.pushes = @ + 1, !.faults = @ + IF lost = {} THEN 0 ELSE 1]
    /\ catalog' = <<Len(files')>> \o catalog
    /\ refs' = [refs EXCEPT ![r] = new]
    /\ shown' = shown \cup {new}
    /\ UNCHANGED <<client, queue>>

\* A delete carries no pack.
deleteRef(r) ==
    /\ spent.pushes < MaxPushes
    /\ refs[r] # NoOid
    /\ refs' = [refs EXCEPT ![r] = NoOid]
    /\ spent' = [spent EXCEPT !.pushes = @ + 1]
    /\ UNCHANGED <<files, catalog, shown, client, queue>>

\* A compaction puts a run of the catalog into one pack, with its sidecar.
compact ==
    /\ spent.compactions < MaxCompactions
    /\ \E lo, hi \in DOMAIN catalog :
        /\ lo < hi
        /\ files' = Append(files, [objs |-> objectsOf(Range(SubSeq(catalog, lo, hi))),
                                   refs |-> TRUE])
        /\ catalog' = SubSeq(catalog, 1, lo - 1) \o <<Len(files')>>
                        \o SubSeq(catalog, hi + 1, Len(catalog))
    /\ spent' = [spent EXCEPT !.compactions = @ + 1]
    /\ UNCHANGED <<refs, shown, client, queue>>

-----------------------------------------------------------------------------
(***************************************************************************)
(* A fetch: negotiation rounds, then the request with "done" that is       *)
(* planned on the snapshot of the catalog taken for it.                    *)
(***************************************************************************)
\* What a client may offer: no commit before one that descends from it.  The
\* server takes the first HaveCap haves of a request and looks at no other.
offers(c) ==
    LET points == Points \cap Has(c)
    IN  {s \in SeqOf(points, HaveCap) :
            \A i, j \in DOMAIN s : i < j => s[i] \notin Reach[s[j]]}

\* findCommonHaves, and findCommonHavesInSnapshot: the haves that are there, in
\* the order they came.
commonHaves(haves, there) ==
    LET look == [w \in [kept : Seq(Oid), left : Seq(Oid)] |->
                    [kept |-> IF Head(w.left) \in there THEN Append(w.kept, Head(w.left)) ELSE w.kept,
                     left |-> Tail(w.left)]]
    IN  iterate(look, [kept |-> <<>>, left |-> haves], Len(haves)).kept

\* handleUploadPackPOST: ls-refs answers from a cache, and the client asks later,
\* so a ref it wants may have moved on or be gone.
advertised == shown

\* A client asks for refs it does not have.  The haves of its final request
\* are those acknowledged, or, in a single round, all it offers.
negotiate(c) ==
    /\ client[c].fetch = NoFetch
    /\ \E wants \in SUBSET (advertised \ Has(c)) \ {{}}, offer \in offers(c) :
        \E haves \in {offer, commonHaves(offer, Stored)} :
            client' = [client EXCEPT ![c].fetch =
                [phase |-> "asking", wants |-> wants, haves |-> haves,
                 snapshot |-> {}, needed |-> {}]]
    /\ UNCHANGED <<files, catalog, refs, shown, queue, spent>>

\* loadUploadPackSnapshot; without a pack the client is told to try again.
loadUploadPackSnapshot(c) ==
    LET f == client[c].fetch
    IN  /\ f.phase = "asking"
        /\ catalog # <<>>
        /\ client' = [client EXCEPT ![c].fetch =
                        [f EXCEPT !.phase = "planning", !.snapshot = Range(catalog)]]
        /\ UNCHANGED <<files, catalog, refs, shown, queue, spent>>

\* The sidecar of a pack is there and is that of its index.
loadPackRefView(p) == files[p].refs

\* Mutant: the plan goes on with the sidecars that are there.
missingRefsNone(packs) == {}

\* loadPackRefSnapshot: the packs whose sidecar is missing, corrupt or stale.
missingRefs(packs) == {p \in packs : ~loadPackRefView(p)}

\* Mutant: the sidecar of a tree lists its gitlinks.
packRefsWithGitlinks(oid) == Range(Links[oid])

\* What the sidecar says an object refers to.
packRefs(oid) == Range(Links[oid]) \ Gitlink

(***************************************************************************)
(* The stop set: the common haves and, if there are few, first parents     *)
(* walked from them, until the budget or the time (pops) is used up.       *)
(***************************************************************************)
stopSet(common, there, pops) ==
    LET pop == [w \in [line : Seq(Oid), stop : SUBSET Oid, walked : Nat] |->
          LET oid == Head(w.line)
              parent == Links[oid][2]
          IN  IF w.line = <<>> \/ w.walked = EnrichBudget THEN w
              ELSE IF \/ Kind[oid] # "commit"
                      \/ Len(Links[oid]) < 2
                      \/ parent \in w.stop
              THEN [w EXCEPT !.line = Tail(@)]
              ELSE [line |-> Tail(w.line) \o (IF parent \in there THEN <<parent>> ELSE <<>>),
                    stop |-> w.stop \cup {parent},
                    walked |-> w.walked + 1]]
        start == [line |-> common, stop |-> Range(common), walked |-> 0]
    IN  IF Len(common) < EnrichBelow THEN iterate(pop, start, pops).stop ELSE Range(common)

\* The objects reached that are not in the stop set; one that no pack has is
\* needed too, wanted or referred to, and the rewrite will not find it.
buildNeededOids(reached, wants, stop, there) == (reached \ stop) \cup (wants \ there)

\* What the wants reach without passing the stop set, of the packs whose sidecars
\* are loaded, and what is referred to and in none of them.
reachedFrom(wants, stop, there) ==
    LET visit == [R \in SUBSET (Oid \cup Gitlink) |->
                    R \cup UNION {packRefs(o) : o \in (R \cap there) \ stop}]
    IN  iterate(visit, wants, Cardinality(Oid))

\* rewritePackResult and its stream: every needed object is sent, or the fetch dies
\* in its sideband.  It must if one is in no pack; it also may for any other reason:
\* bases in a circle (PackStore shows them), a pack that is gone, a limit.
answered(f, needed) ==
    {[f EXCEPT !.phase = "fatal", !.needed = needed]} \cup
    IF needed \subseteq objectsOf(f.snapshot)
    THEN {[f EXCEPT !.phase = "served", !.needed = needed]} ELSE {}

\* computeNeededFromPackRefs: with too many objects missing (recordMissingOid) the
\* client is told to try again, though nothing will change that.
computeNeededFromPackRefs(f, stop, there) ==
    LET reached == reachedFrom(f.wants, stop, there)
    IN  IF Cardinality(reached \ there) > MissingRefCap
        THEN {[f EXCEPT !.phase = "asking"]}
        ELSE answered(f, buildNeededOids(reached, f.wants, stop, there))

\* A request without haves is an initial clone and gets every object.
buildInitialCloneNeeded(c) ==
    LET f == client[c].fetch
    IN  /\ f.phase = "planning"
        /\ f.haves = <<>>
        /\ \E g \in answered(f, objectsOf(f.snapshot)) :
                client' = [client EXCEPT ![c].fetch = g]
        /\ UNCHANGED <<files, catalog, refs, shown, queue, spent>>

\* buildClosureIndex, locateObject: the objects that the sidecars tell of.
buildClosureIndex(packs) == objectsOf({p \in packs : loadPackRefView(p)})

planUploadPack(c) ==
    LET f == client[c].fetch
        there == buildClosureIndex(f.snapshot)
        common == commonHaves(f.haves, there)
    IN  /\ f.phase = "planning"
        /\ f.haves # <<>>
        /\ missingRefs(f.snapshot) = {}
        /\ \E stop \in {stopSet(common, there, n) : n \in 0 .. Len(common) + EnrichBudget} :
            \E g \in computeNeededFromPackRefs(f, stop, there) :
                client' = [client EXCEPT ![c].fetch = g]
        /\ UNCHANGED <<files, catalog, refs, shown, queue, spent>>

\* Mutant: the client is told to retry, and nobody builds the sidecar.
missingRefIndexUnscheduled(c) ==
    LET f == client[c].fetch
    IN  /\ f.phase = "planning"
        /\ f.haves # <<>>
        /\ missingRefs(f.snapshot) # {}
        /\ client' = [client EXCEPT ![c].fetch = [f EXCEPT !.phase = "asking"]]
        /\ UNCHANGED <<files, catalog, refs, shown, queue, spent>>

\* FetchPlanRetryError: a backfill is queued for each pack without a sidecar,
\* as far as the sends get through, and the client is told to try again.
missingRefIndex(c) ==
    LET f == client[c].fetch
    IN  /\ f.phase = "planning"
        /\ f.haves # <<>>
        /\ missingRefs(f.snapshot) # {}
        /\ \E sent \in SUBSET missingRefs(f.snapshot) :
            /\ queue' = [queue EXCEPT !.messages = @ \cup sent]
            /\ spent' = [spent EXCEPT !.faults =
                            @ + Cardinality(missingRefs(f.snapshot) \ sent)]
            /\ spent'.faults <= MaxFaults
        /\ client' = [client EXCEPT ![c].fetch = [f EXCEPT !.phase = "asking"]]
        /\ UNCHANGED <<files, catalog, refs, shown>>

\* The closure ran out of time.
closureBudgetExceeded(c) ==
    LET f == client[c].fetch
    IN  /\ f.phase = "planning"
        /\ f.haves # <<>>
        /\ missingRefs(f.snapshot) = {}
        /\ spent.faults < MaxFaults
        /\ spent' = [spent EXCEPT !.faults = @ + 1]
        /\ client' = [client EXCEPT ![c].fetch = [f EXCEPT !.phase = "asking"]]
        /\ UNCHANGED <<files, catalog, refs, shown, queue>>

\* The members that no other reaches.
heads(S) == {o \in S : \A q \in S \ {o} : o \notin Reach[q]}

\* git keeps what it got if that completes the refs it wanted.
receivePack(c) ==
    LET f == client[c].fetch
    IN  /\ f.phase \in {"served", "fatal"}
        /\ client' = [client EXCEPT ![c] =
                [fetch |-> NoFetch,
                 tips  |-> IF f.phase = "served" /\ Closure(f.wants) \subseteq Has(c) \cup f.needed
                           THEN heads(@.tips \cup f.wants) ELSE @.tips]]
        /\ UNCHANGED <<files, catalog, refs, shown, queue, spent>>

-----------------------------------------------------------------------------
\* handlePackRefBackfillMessage: the catalog is read first, the pack scanned
\* and resolved and its .refs written much later.
beginBackfill(p) ==
    /\ p \in queue.messages \ queue.working
    /\ queue' = IF p \in Range(catalog) /\ ~files[p].refs
                THEN [queue EXCEPT !.working = @ \cup {p}]
                ELSE [queue EXCEPT !.messages = @ \ {p}]
    /\ UNCHANGED <<files, catalog, refs, shown, client, spent>>

endBackfill(p) ==
    /\ p \in queue.working
    /\ files' = [files EXCEPT ![p].refs = TRUE]
    /\ queue' = [messages |-> queue.messages \ {p}, working |-> queue.working \ {p}]
    /\ UNCHANGED <<catalog, refs, shown, client, spent>>

\* The attempt fails: the message comes again, or has come too often.
failBackfill(p) ==
    /\ p \in queue.working
    /\ spent.faults < MaxFaults
    /\ spent' = [spent EXCEPT !.faults = @ + 1]
    /\ \E left \in {queue.messages, queue.messages \ {p}} :
        queue' = [messages |-> left, working |-> queue.working \ {p}]
    /\ UNCHANGED <<files, catalog, refs, shown, client>>

-----------------------------------------------------------------------------
Fetch(c) ==
    \/ loadUploadPackSnapshot(c) \/ buildInitialCloneNeeded(c)
    \/ planUploadPack(c) \/ missingRefIndex(c) \/ receivePack(c)

Backfill == \E p \in DOMAIN files : beginBackfill(p) \/ endBackfill(p)

Next ==
    \/ \E c \in Client : negotiate(c) \/ Fetch(c) \/ closureBudgetExceeded(c)
    \/ \E r \in Ref : deleteRef(r) \/ \E new \in Oid : push(r, new)
    \/ compact
    \/ Backfill
    \/ \E p \in DOMAIN files : failBackfill(p)

\* Requests run on, a client told to try again does, and the queue delivers.
Fairness ==
    /\ \A c \in Client : WF_vars(Fetch(c))
    /\ WF_vars(Backfill)

Spec == Init /\ [][Next]_vars
FairSpec == Spec /\ Fairness

-----------------------------------------------------------------------------
Fetching(c) == client[c].fetch # NoFetch

\* The tags of a chain of tags.
tagsFrom(oid) == {o \in Closure({oid}) : Kind[o] = "tag"}

\* A ref names an object of the active packs, whatever was pushed, and so does
\* every tag on the way; the tree and the parents of the commit that the ref is or
\* its tags lead to are there (runPackConnectivityCheck, compactions).
TipsConnected ==
    \A r \in Ref : refs[r] # NoOid =>
        \A oid \in {refs[r]} \cup {Links[tag][1] : tag \in tagsFrom(refs[r])} :
            /\ oid \in Stored
            /\ Kind[oid] = "commit" => Range(Links[oid]) \subseteq Stored

\* The check never refuses a pack that is whole, even if it builds on all that
\* was ever shown, unless a tag of a tag and so on is pushed.
WholePushesConnect ==
    spent.faults = 0 =>
        \A new \in Points :
            Cardinality(tagsFrom(new)) <= MaxTagDepth =>
                connected(new, Stored \cup (Closure({new}) \ Closure(shown)))

\* A fetch that is served completes the client.  Only a clone may lack
\* something, and then the repository lacks it too.
FetchCompletes ==
    \A c \in Client :
        LET f == client[c].fetch
            lacking == Closure(f.wants) \ (Has(c) \cup f.needed)
        IN  f.phase = "served" =>
                IF f.haves = <<>> THEN lacking \cap objectsOf(f.snapshot) = {} ELSE lacking = {}

\* A plan asks the rewriter for an object that is in no pack only when something its
\* wants reach is, and then some client was damaged: no gitlink, no moved or
\* deleted tip that ls-refs still showed and no compaction makes it ask for one
\* (buildServeUploadPackPlan).
PlansFindTheirObjects ==
    \A c \in Client :
        LET f == client[c].fetch
            there == objectsOf(f.snapshot)
        IN  f.phase \in {"served", "fatal"} /\ ~ f.needed \subseteq there =>
                spent.faults > 0 /\ ~ Closure(f.wants) \subseteq there

\* A client that tries again while the sidecars are built is answered, unless more
\* is missing of what it wants than a closure takes (FetchPlanRetryError).
FetchAnswered ==
    \A c \in Client :
        LET f == client[c].fetch
        IN  /\ f.phase = "planning"
            /\ Cardinality(Closure(f.wants) \ objectsOf(f.snapshot)) <= MissingRefCap
            ~> f.phase \in {"served", "fatal"}
=============================================================================
