# Verification of GitEdge

GitEdge serves Git over HTTP from Cloudflare Workers. Each repository has one
Durable Object ("the object") that owns its refs, HEAD, pack catalog and
leases; the pack files live in R2; stateless workers receive pushes and serve
fetches, queue consumers compact packs, build sidecars, reconcile the route
cache and delete repositories, and the object's alarm re-sends lost work and
erases repositories nobody uses. Accounts, organizations, issues and access to
repositories are rows of D1 tables that several workers read and write.

This project models all of that in TLA+, checks it with TLC, and proves the
safety of the object, of the object among its workers, of the compaction
wake-up, of pack indexing, rewriting and reading, of pushes and fetches, of quota
and deletion, of access, and of accounts and organizations with TLAPS for every
value of the constants.

## Inventory

| Component | State | Operations | What is hard | What must hold |
|---|---|---|---|---|
| Repository Durable Object `do/repo/` | refs, HEAD, versions, `receiveLease`, `compactLease`, `compactionWantedAt`, `lastAccessMs`, alarm | 18 RPCs and `alarm()` | leases expire under their holders; a push may commit after its lease expired; compaction overlaps pushes | a push is an atomic compare-and-swap of the refs; nothing else loses an object |
| Pack catalog `do/repo/db`, `catalog/compaction/plan.ts` | `pack_catalog` table, `nextPackSeq`, `packsetVersion` | insert, supersede, delete, plan | range merging, choice of sources | disjoint cover of the push sequence, tiers in age order |
| Ref commands `git/operations/validation.ts` | none | validate, apply | several commands on one ref | all or nothing |
| Receive worker `git/receive/` | staged pack, lease token | stage, index, check, measure, finalize, clean up | a reply may be lost, cleanup may fail, the client may disconnect | never deletes an active pack |
| Compaction consumers `tasks/compaction.ts` | staged pack, lease token | begin, rewrite, commit, delayed delete | redelivery, lost reply, readers of superseded packs | never deletes an active pack |
| Idle cleanup `do/repo/maintenance.ts` | none of its own | decide, erase, purge R2 | runs while new calls arrive | only unused repositories |
| Pack indexer `git/pack/indexer/` | per call: payload cache, deferred entries | resolve offset and ref deltas, in the pack and outside | bases that come later, outside, twice or never | a good pack is never refused; base edges are acyclic |
| Pack rewrite `git/pack/rewrite/` | per call: the row table of a selection | select, find owners, retain bases, redirect, collapse, order | thin packs, duplicates, delta cycles across packs | output is complete, free of duplicates and self-contained |
| Object store `git/object-store/` | in-flight promises of a request | look up, read through delta chains | recursion over promises | a stored object is found |
| Connectivity, fetch `git/operations/` | per call | check tips; negotiate, close over history, plan, stream | missing sidecars, capped sets, refs that moved | every wanted object is sent |
| Sidecars `tasks/refBackfill.ts`, `git/pack/refIndex.ts` | `.refs` files, messages | build, back-fill | replays, packs compacted meanwhile | a fetch that was told to retry is answered |
| Quota `git/quota/` | D1 and R2 totals | measure, assert | concurrent pushes of one owner | the limits are respected |
| Registry `repositories/`, `tasks/routeCacheSync.ts`, `tasks/repositoryDelete.ts` | D1 rows, KV candidates, messages | create, patch, delete, resolve, sync | stale messages and candidates, names reused | a request reaches only what it may |
| Access `auth/`, `routes/` of the git worker | tokens, grants, memberships | authenticate, gate | rows change between reads | no access that was not rightful at any time of the request |
| Auth worker `workers/auth/` | users, identities, OAuth states, sessions | register, log in, GitHub sign-in | overlapping callbacks, dying workers | one session per state, no account half made |
| Forge worker `workers/forge/` | namespaces, memberships, repositories, issues | organizations, members, creation, issues | read, then write, across requests | organizations keep an owner, issues their numbers |
| Rate limiter, Gateway, clients, contracts, migrations | a window of hits, none | count, forward, render, declare | none beyond the above | see "Not modelled" |

Calls go from workers to the object (RPC), from the object to R2 (purge,
`removePack`) and to the queue (re-arm), from the queue to its consumers, and
from workers and consumers to R2, D1 and KV. Nothing is transactional across
these: the commit of a push or compaction is the object's storage write, and
everything in R2 is written before it or deleted after it; a D1 statement or
batch is atomic by itself and nothing holds between two of them.

The list of hazards, each at its line and with the properties aimed at it, is
under `hazards` in `PROJECT.json`.

## Modules

| Module | What it is |
|---|---|
| `GitRefs` | ref commands and HEAD resolution as pure operators |
| `PackCatalog` | the catalog table and the tiered compaction plan as pure operators |
| `GitRepo` | the abstract repository: a ref map and a set of objects |
| `RepoDO` | the object: one action per RPC outcome and per alarm outcome |
| `RepoSystem` | the object composed with R2, push workers, queue consumers, the purge and a reader |
| `RepoWake` | the wake-up chain of compaction in relative time: request, leases, alarm, idle deadline, queue |
| `GitPack` | packs as sequences of whole, offset-delta and ref-delta entries; what can be decoded |
| `PackIndexer` | one indexing job: main pass, deferral, promotion, external bases, re-indexing |
| `PackRewrite` | one rewrite: headers, owners, retained bases, repair rounds, collapse, compaction, output |
| `PackStore` | the catalog of packs with the jobs that use the two above: push, compaction, back-fill, fetch; and `readObject` |
| `GitExchange` | clients and a repository: push and connectivity, ls-refs, negotiation, fetch plan, sidecars and their queue |
| `RepoRegistry` | D1 rows, KV candidates, sync messages, patches, deletion, resolution of a name |
| `GitAccess` | extends `RepoRegistry` with tokens, grants, memberships and requests that read them one by one |
| `RepoLifecycle` | quota measurement of pushes and repository deletion, step by step, over R2 and the objects |
| `Accounts` | the Auth worker: registration, login, sessions, GitHub sign-in |
| `Forge` | extends `Accounts` with organizations, members, repository creation and issues |
| `MC...` | instances for TLC: constant values, symmetry sets, order of tokens, one state constraint |
| `RepoDOProofs` | the object: lemmas on the catalog and the plan, the inductive invariant, and the theorems on types, ranges, objects, snapshots, requests and the refinement |
| `RepoSystemProofs` | extends it: what cleanups, deletes and the purge spare in R2 |
| `RepoWakeProofs` | the alarm comes back to a request, for which delays |
| `PackStoreProofs` | indexing, rewriting and reading of packs |
| `GitExchangeProofs` | connectivity of pushes, completeness of fetches |
| `RepoLifecycleProofs` | quota and erasure |
| `GitAccessProofs` | gates and revoked tokens |
| `ForgeProofs` | accounts, organizations, issue numbers |

What one module takes as given another one justifies. `RepoDO` takes the
outcome of a connectivity check (`connected`) and of a rewrite (`rewritten`)
from its environment; `GitExchange` and `PackStore` model the code that
establishes them. `RepoSystem` treats a pack as one key; `PackStore` opens it.
`RepoRegistry` sees deletion as the row and the candidate, `RepoLifecycle` as R2
and the object. `PackStore` lets jobs follow each other because `RepoDO` shows
the leases to exclude each other.

### How state corresponds to the code

The object and what is around it:

* `refs` is the stored array read through a `Map`: a total function with
  `ZeroOid` for an absent name. `head` with `oid = ZeroOid` is an unborn head.
* `packCatalog` is the SQLite table. A pack is keyed by the lease token that
  produced it (`pack-rx-<token>`, `pack-cmp-<token>`). `objs` stands for its
  contents; byte and object counts are dropped.
* `receiveLease`, `compactLease` are the stored leases. `clearExpiredLeases`
  is part of each handler that calls it and of no other: an expired lease stays
  in storage, and `finalizeReceive` compares only the token.
* `grants[t]` is the reply of the begin call whose token is `t`, as its caller
  holds it (refs, active catalog, packset version, chosen sources). A caller
  commits with what it was given then, not with what the object holds now.
* `compactionWanted` is "`compactionWantedAt` is set".
* `lastAccessMs` / `lastAccessMemMs` are the stored stamp and the instance's
  copy; `restart` reloads the copy, and `deleteAll` does not reset it.
* `alarm` is the time set by `setAlarm`, 0 when there is none.
  `deleteAll()` also deletes the alarm (`delete_all_deletes_alarm`).
* In `RepoSystem`, `r2` holds the keys whose artifacts are in the bucket,
  `job[t]` is where the worker holding token `t` stands, `queue` counts
  compaction messages not yet acknowledged, `deletes` the delayed
  compaction-delete messages, `purge` the listing of an idle cleanup in
  progress, `reader` a request working from an old catalog. `spoiled` is a
  history variable: the keys a lost commit reply or an idle purge has hit.

Packs:

* An entry of a pack is `[oid, ofs, ref]`: `ofs` the entry an OFS_DELTA is made
  of, `ref` the object a REF_DELTA names, neither when it is stored whole.
  `Decodable` is what any order of resolution could decode, the least set closed
  under decoding from what is there; it stands for the depth-first searches of
  indexer and reader where only the result matters.
* `index` is a `resolveDeltasAndWriteIdx` job: the passes over the entries, the
  base edge chosen for each, what is resolved. Payloads are not kept:
  `Materializable` are the entries whose evicted payload `materializeEntry` can
  compute again along the base edges.
* `rewrite` is a selection. A row is named by the source entry it was added for
  and has the entry it is sent from, its kind, its base row and whether an
  OFS_DELTA pins it; `dedup` maps entries to rows, `owner` objects to their
  canonical rows, and `dead` is the `deadSlots` map of redirects, `since` its
  insertion order. `safe`, `at` and `changed` are the walk of
  `pruneUnsafeDeadSlotRedirects` over that map while it deletes from it,
  `retained` the rows of a repair round, `live` and `order` the rows that are
  left and their order, `out` the pack that is written.
* `read` is the chain of a `readObject` call with its set of in-flight oids.

Fetch and push:

* An object is its name; `Kind` and `Links` give its type and references, so a
  pack is a set of names. A client is the tips of its refs, and has what they
  reach. `files[p].refs` says whether pack `p` has its `.refs` sidecar.
* `shown` are the tips refs ever had: ls-refs may be answered from a cache of up
  to a minute, so the wants of a client may name any of them.
* `queue` holds the `pack-ref-backfill` messages and which of them a consumer
  works on.

Rows and requests:

* `rows`, `kv`, `syncs`, `patches`, `deletes` of `RepoRegistry` are the D1 rows,
  the `ROUTES` namespace and the messages with the stage of their consumer: each
  action is the code between two awaits.
* A request of `GitAccess` moves from `candidate` to `confirm` or `lookup`, to
  `token`, to `gate`; each reads one row as it is then. `witness` is a history
  variable: what was so at some moment while the request ran.
* A request of `Accounts` and `Forge` (`req[q].at`) names the statement it is
  about to run and what it has read so far. Guards inside a SQL statement
  (`WHERE NOT EXISTS`, unique keys, the owner count of a DELETE) are guards of
  the action; a check made before it is an earlier step.
* In `RepoLifecycle` a push holds what it measured so far (`left`,
  `repositoryBytes`, `ownerBytes`), since usage is listed one repository at a time.

### Atomicity

A handler of the object that awaits only its own storage is one action: the
input gate keeps other events out while storage operations are pending.
`removePack` awaits R2 and is two actions, `removePackCheck` and
`removePackRow`; the purge awaits R2 for each key and is one action per key.
`alarmRearm` awaits the queue's `send`, but after it only reads the alarm afresh
and sets it, so a call served meanwhile is as if served before it.
A handler that awaits nothing else is never left halfway: the model assumes
that storage writes without an intervening external await are committed
together, as the platform documents.

Between calls everything interleaves: a worker may pause for ever at any point
(a crashed worker is one that takes no further step), and its lease may expire,
its sources be superseded and its repository be erased in the meantime.

`PackIndexer` and `PackRewrite` work on a snapshot that cannot change under
them; their steps are the passes of the algorithm, not interleavings. In
`PackStore` one job runs at a time.

### Simplifications

* In `RepoDO`, a staged pack's contents are a member of `StagedObjects`;
  `PUT /admin/refs` does not check its oids, so the operator may name any object
  of `AdminOid` as well as objects the repository holds.
* In `RepoSystem` the operator requests compactions and removes packs. Edits of HEAD,
  which touches no pack, and an operator's withdrawal of a request are in `RepoDO`,
  the latter also in `RepoWake`.
* A pushed pack holds an object once, and no object is a delta of something that
  is computed from it in the same pack: git writes no other. Across packs both
  happen and are explored.
* The connectivity check is shallow by design (`docs/streaming-push.md`): it
  looks at the pushed tips, their trees and their parents. A damaged push, whose
  pack lacks something deeper, counts as one of `MaxFaults`; the properties then
  say only what the code can still promise.
* A clone sends every object of the snapshot, so it may lack what the repository
  lacks. Token expiry is treated like revocation.
* `IssuesKeepNumbers` excepts issues opened on a repository in the moment before its
  `ROUTES.put` fails: the row is deleted again and its issues with it (`putRoute`).
* Bytes are counted in packs for the quota; issues and pull requests, numbered by one function over two tables, are one
  table in the model.

## Runs

`CHECK_DEADLOCK FALSE` is set where the modelled system may be at rest: tokens,
pushes or names are used up, the clock stops at `MaxNow`. `wake_served` checks
for deadlock. Every run of `RepoDO` and `RepoSystem` uses `TokensInOrder`: tokens
are random UUIDs that are only compared for equality, so behaviours differing by
a renaming of tokens are explored once. `system` also uses `ReadersEndInTime`: a
reader changes nothing, so it is followed only while it has packs and is still
promised to find them.

| Run | Question | Bounds, and what they make happen |
|---|---|---|
| `repo` | Is the object an implementation of `GitRepo`, and do expiring leases, late finalizations, removals, operator edits and erasure keep the catalog consistent? | create, update, delete, invalid name, two commands on one ref; operator edits of refs and HEAD, refs without their objects among them; 5 leases, fan-in 2 and clock to 2: three pushes overflow tier 0, two ranges merge or the compaction fails or goes stale, and a fourth push runs beside it or follows |
| `wake_served` | Does a recorded request always have something coming back to it, is it served, and does the overflow end? | delays in the code's order with the idle time of `wrangler.jsonc`; receive lease 6, compaction lease 4, two compactions and two messages outstanding; no bound on the clock |
| `system` | With every fault at once, what can take an active pack out of R2? Are readers protected? | 3 leases, fan-in 1 so that two pushes already overflow, both replies may be lost, idle time 1 and clock to 2 so that erasure, purge and delayed deletes overlap running workers, operator removals, a reader |
| `system_lost_push_reply` | Lost reply of `finalizeReceive` | violation, see below |
| `packs` | Are indexing, compaction, back-fill, fetch and reads right for every catalog of packs? | 3 objects; up to three pushes of one or two entries, five entries in all, every choice of whole, offset and ref delta; one compaction: duplicates, thin packs, cycles of bases across packs, a base behind its delta |
| `packs_circle` | Can a fetch fail whose packs are all complete? | 2 pushes of up to three entries, six in all, over 4 objects, no thin bases, fetches of any objects; violation, see below |
| `packs_clone` | Can a clone fail? | up to three pushes of one or two entries, five in all, over 4 objects, thin bases; violation, see below |
| `packs_read` | Can a read wait for itself? | 3 pushes of one entry over 2 objects; violation, see below |
| `exchange` | Is what is served complete, and is everyone answered? | two roots, a merge of them whose tree has a gitlink, a tag of it; one client, one ref; each cap of the negotiation at 1, enrichment below 2, one missing object tolerated (`MissingRefCap`, 1024 in the code); a pack without sidecar from the start; two pushes, a compaction, one fault, which may be a push that leaves out any number of objects, so that the cap is passed too |
| `registry` | Can a request reach a repository it may not? | two repositories that follow one another under one name, a session, a token and anonymous access, one sync message and one visibility change outstanding, both creating workers |
| `lifecycle` | Do concurrent pushes keep both limits, and does deletion erase? | two repositories of one owner, three pushes, limits 1 and 2 so that either can bind; a deletion may fail at any step and starts over |
| `forge` | Do requests that interleave between statements keep accounts, organizations and issues whole? | two names, two random handles, one GitHub user, two OAuth states, two requests in flight, one repository, two issues; one organization |

Fan-in is 4 in the code. The plan depends on it only through "more than
FAN_IN packs in a tier", and the theorems below hold for every positive value;
2 is enough for TLC to overflow a tier and to merge ranges. That merged packs may be merged
again, any number of tiers deep, is covered by the proofs and not by a run. Times are abstract
units; only the order of expiry times matters, and the ttl values of 1 let every
lease expire between any two steps. `repo` writes the access time at every touch
(`ACCESS_THROTTLE` 0); the access time that stays behind is in the `system` runs
and in `wake_served`.

Two requests in flight are enough for `forge` because each of its hazards is a
pair, a read of one and a write of another; a third could only repeat one of them.
`AccountsSettleFirst` there is a bound: GitHub sign-ins are over before there is
an organization, and sign-ins and changes of members before there is a
repository. The parts it separates share no rows that both write, apart from the
`users` and `roles` the later part reads. One request is enough for `registry`,
for requests write nothing others read except deletions, which are messages; the
row changes, messages and other users run beside it. Three objects let a delta cycle close over
two packs and leave one object beside it; two entries a pack are the least with
which an offset delta exists. `ThinBases` bounds which objects a pushed REF_DELTA
may name: any in `packs` and `packs_clone`, where bases across packs are the matter,
none in `packs_circle`, whose packs hold all their bases. At the bound of `packs` no
rewrite fails at all; the ways in which one need more entries or objects, which `packs_circle` and `packs_clone`
have. The symmetry sets are of values the specifications
only compare for equality, and only safety is checked under them.

### Properties

On the object (`RepoDO`):

* `DisjointCover`: the active packs' ranges cover every sequence number handed
  out, exactly once. Stated by `docs/streaming-push.md`, lost by a wrong merge.
* `TierOrder`: higher tiers are older than lower tiers. This is what makes
  merging the oldest packs of a tier keep the ranges disjoint.
* `ReceiveSnapshotStable`: under an unexpired receive lease the active catalog
  is the one its holder was given, although `beginReceive` ignores compactions.
* `RefsResolve`: a ref set by a push always names an object in an active pack,
  also for pushes that commit after their lease expired.
* `SupersededIsRedundant`, `ObjectsAreKept`: compaction and pack removal lose
  no object, and only erasure takes any away.
* `RequestIsReal`, `NeedStaysRecorded`: a recorded compaction request has a
  plan; an overflow stays recorded until it is resolved or cleared.
* `ImplementsGitRepo`: the whole object refines `GitRepo` with
  `objects <- ActiveObjects(packCatalog)`.

On the system (`RepoSystem`):

* `OnlyFaultsLosePacks`: in any order and with any retry, no cleanup, delayed
  delete or removal takes an active pack; only a commit whose reply was lost and
  the purge of idle cleanup can (see below).
* `DeletesSpareActivePacks`: a delayed delete never names an active pack.
* `ReaderFindsPacks`: holds only for as long as the delay: a reader
  slower than `COMPACTION_DELETE_DELAY_SECONDS` may miss a pack.

On the wake-up chain (`RepoWake`):

* `RequestIsWatched`: a recorded request has an alarm or a message outstanding,
  whichever of the steps that consume one ran last.
* `RequestIsServed`: unless pushes keep coming, the request is dropped or given
  a compaction lease again and again, though sends fail, workers die and calls
  replace the alarm.
* `OverflowIsResolved`: once pushes end, nobody clears requests and compactions do
  not fail for ever, the catalog comes to be within the policy. The one excuse is
  `cleared`: a request cleared before, with no later push to record it again.

On packs (`PackStore`):

* `FailsOnlyUndecodable`: the indexer refuses only what nobody could decode; the
  order of entries and the deferrals never cost a good push, and indexing an
  active pack again never fails.
* `BasesRecomputable`, `StoredIsDecodable`: base edges never run in circles, and
  everything accepted or compacted can be decoded for ever after.
* `OutputStandsAlone`: the pack a rewrite writes has every needed object once,
  refers to nothing outside itself, and has each delta on the object it was made
  of.
* `FailsOnlyInCircles`: a rewrite finds every object it is asked for and a base or a
  whole copy for every row; all that is left for it to fail on are rows based on
  each other in its output. That it does fail so, for fetches and for clones, is
  what `RewriteSucceeds` and `WholeRewriteSucceeds` show, which are violated.
* `ReadsFindObjects`: `readObject` misses nothing that is stored and throws only
  where first entries lead back to themselves.

On the exchange (`GitExchange`): `TipsConnected` and `WholePushesConnect` are the
two directions of the connectivity check. The first holds of every push, damaged
ones too: what a ref names is stored, with every tag on the way from it and with
the tree and the parents of the commit there, whatever was compacted since. The
second says that the check refuses no whole push, but for tags of tags beyond
`MAX_TAG_DEPTH`. `FetchCompletes` says that a served
fetch leaves the client with all its wants reach. `PlansFindTheirObjects` says that
what a plan asks of the rewriter is stored, unless a client was damaged and
something its wants reach is missing: gitlinks, tips moved or deleted since ls-refs
and compactions never make it ask for an absent object. It does not say that a fetch
dies for nothing else. With every object stored the rewriter may still fail, as
`RewriteSucceeds` shows, so `answered` lets any planned fetch die. `FetchAnswered`:
a client told to retry (503) while sidecars are built is answered. It excepts a
repository that lacks more of what is wanted than `MISSING_REF_CAP`: that fetch is
answered 503 for ever, since nothing will make the closure shorter.

On rows and requests: `ServedRightly`, `RevokedTokenCannotPush` (`GitAccess`);
`QuotaHolds`, `DeletedIsErased` (`RepoLifecycle`); `StateSignsInOnce`,
`GithubAccountsAreWhole`, `OrganizationsKeepOwner`, `PersonalNamespacesAreAlone`,
`IssuesKeepNumbers` (`Forge`). `QuotaHolds` is less obvious than it looks: usage is
measured before the commit and not locked, and what saves it is that each push
stages its pack before it measures, so that of two that overlap the later one
sees both. `DeletedIsErased` speaks of the packs the repository had when its
row went; what a push that was already under way stages later may stay behind.

### Relative time

`RepoWake` keeps what is left of each lease and until the alarm, and the age of
the access stamp. Since an alarm that is due and one that is past look
alike there, `scheduleAlarmIfSooner`, which replaces only the latter, may do
either. `Never`, later than any alarm, stands for no alarm. Of the catalog
`excess` is left, the number of compactions until `selectCompactionPlan` finds
nothing: a push may raise it, a commit lowers it by one. A message may be
acknowledged early (its last attempt, a blocked compaction, a worker that died),
which only takes away a wake-up. The repository holds packs, so idle cleanup
takes its non-empty branch; the operator's erasure is not part of this module.
`RequestIsWatched` depends on the proportions. The theorem `RequestsAreWatched`
says on which: the idle time has to be longer than the compaction lease, the
re-arm delay and the wake delay, each with the minute by which the access stamp
may lag. The receive lease plays no part, since `planNextAlarm` waits for it
first. The deployed 30 minutes satisfy this beside a compaction lease of 20, but
`REPO_DO_IDLE_MINUTES` may be set as low as 1 (`repoConfig.ts`). With `IDLE` at 10
the invariant is false: a consumer dies on the last attempt of its message, a push
begins under its lease and dies too; the alarm at the end of the compaction lease
finds the repository idle, and `clearIdleAlarm` deletes it although the request is
recorded and the receive lease still runs. Nothing but a call brings the request
back then.

### Fairness

`RepoWake` assumes fairness of the platform alone:

* `WF(tick)`: time passes. A due alarm fires before the next unit of time is
  over (the guard of `tick`). This matters: an alarm late by nearly the whole
  idle time, under a push that died, would be deleted by idle cleanup.
* `SF(alarmNext)`: an alarm that falls due again and again fires at last. Weak
  fairness is not enough, because `ensureScheduled` replaces an alarm that is
  already past, and calls could do so each time.
* `SF(alarmRearm(TRUE))`: not every send from the alarm fails.
* `WF(deliver)`: a message in the queue is delivered to `beginCompaction`. A
  message dropped by the queue before it ever reaches the object leaves the
  request without a wake-up until the next call; the code accepts that
  ("Queue delivery failure may delay compaction", `docs/streaming-push.md`).

`OverflowIsResolved` further assumes `SF(compactCommit)`, compactions do not fail
for ever, inside the formula itself.

`GitExchange` assumes `WF(Fetch(c))`: a request runs on, and a client that got a
503 with Retry-After tries again, which git users do by hand; and
`WF(Backfill)`: the queue delivers its messages and a consumer ends.

Nothing is assumed of users, operators or push workers.

### Where the code and its documents disagree

Four runs expect a violation.

1. `system_lost_push_reply`. `docs/streaming-push.md` Rule 3 speaks of deleting
   *unreferenced* staged packs and says that cleanup must never affect
   correctness. The `catch` of `executeReceivePipeline` cannot tell a commit whose
   reply was lost from a failure before it, and deletes the pack.
   `handleCompactionMessage` does the same; there the sources are already
   superseded.
2. `packs_read`. With A stored whole, B later as a delta of A, and A again as a
   delta of B (thin pushes of a change and of its revert), `readObject(A)` opens
   the newest A, reads B, reads A, and there finds its own promise among those in
   flight. It awaits it for ever; the visited set that would throw "pack object
   recursion cycle" is consulted later. A fetch of these three packs succeeds, for
   the rewrite breaks a cycle of REF_DELTAs by taking a whole duplicate.
3. `packs_circle`. Two packs hold A and B as deltas of each other, the newer
   `B; A as an OFS_DELTA of B; Y as an OFS_DELTA of A`, the older `A; B as an
   OFS_DELTA of A; X as an OFS_DELTA of B`. A fetch of X and Y needs the second
   entry of each, which are pinned as bases of OFS_DELTAs, and redirects the two
   whole duplicates to them. Neither redirect is unsafe by itself, because
   `selectionDependsOn` follows the bases as they are, not as the other redirects
   leave them; so neither is repaired or pruned. `compactDeadSlots` applies both,
   A is then based on B and B on A, `buildOutputOrder` leaves both out, and the
   rewrite fails with `topology-incomplete`, which is not retried. The comment at
   `selection.ts:216` takes these cases to be repaired by then.
4. `packs_clone`. Of three pushes, newest first, `B as a REF_DELTA of Y`; `A as a
   REF_DELTA of B, Y as an OFS_DELTA of A`; `D, B as an OFS_DELTA of D`, a clone takes
   B from the first. A is read first and based on the first entry of B, which by then
   has no base, so nothing seems to lead back; B finds Y, still without a base; at
   last Y is based on A, and B, Y and A are based on each other. For a REF_DELTA
   `selectRefBaseEntry` looks for a base that does not depend on the row, for an
   OFS_DELTA nothing is asked: its pack is in order, as `selectionResolve.ts:252` says,
   but the rows before it need not take their bases from that pack. The rewrite
   fails as above, although the older B would lead out. A compaction of these packs
   fails likewise.
Such a circle has a worse form, seen with the same model and left out of the runs.
Where it goes through a duplicate whose owner leads into it from outside,
`collapseUnsafeRedirectOwners` copies the duplicate onto the owner, which now leads
into the same circle, and so on: the loop has no bound and awaits nothing. The packs
are, oldest first, `D, B as an OFS_DELTA of D`; `Y as a REF_DELTA of B, X as an OFS_DELTA
of Y`; `A as a REF_DELTA of B, Y as an OFS_DELTA of A`; `B as a REF_DELTA of Y`, and the
fetch asks for A, B and X. In the model the phase `collapse` is not left any more.

`GitExchange` lets the rewrite of any plan fail, and `RepoDO` takes its outcome from
the environment; what they show of a served fetch and of a committed compaction is
not touched by these, which serve and commit nothing.

One more hazard of this kind is covered by a property that excepts it:
`OnlyFaultsLosePacks` excepts the purge that follows an erasure, which lists and
deletes by prefix while the object serves calls again. The decision to erase looks
at no lease either, so that a first push longer than the idle time less the
stamp's lag is erased while it runs.

## Proofs

The theorems assume only what the modules name as assumptions of their
constants (`RefAssumption`, `CatalogAssumption`, `RepoAssumption`,
`WakeAssumption` and those of the other modules): finitely many tokens, positive
fan-in and lease times, the inputs being of their types. Two say more.
`AccountsAssumption`: a handle, `github-` and 24 random characters, is no name that
somebody chose. `ForgeAssumption`: finitely many issues, a bound. On objects,
`GraphAssumption` says what git's objects are (a tag has one target, only tags
name tags), `HashAssumption` that no object is reached from what it names, as its
name is a hash of its contents. `LimitAssumption`, `OidAssumption` and
`BoundsAssumption` are about types only. There is no bound on clocks, pushes,
compactions, objects, users or requests: where a module has `Max...` constants for
TLC, a theorem holds for each of their values. Only
`RequestsAreWatched` has a hypothesis, `IdleOutlastsDelays`, which the deployed
delays satisfy and without which it is false (see "Relative time").

| Theorem | Property |
|---|---|
| `TypeCorrect` | `RepoDO!TypeOK` |
| `CoverIsDisjoint` | `DisjointCover` |
| `TiersAreOrdered` | `TierOrder` |
| `NoObjectIsLost` | `ObjectsAreKept` |
| `SupersededPacksAreRedundant` | `SupersededIsRedundant` |
| `ReceiveSnapshotIsStable` | `ReceiveSnapshotStable` |
| `RefsAlwaysResolve` | `RefsResolve` |
| `RequestsAreReal` | `RequestIsReal` |
| `NeedIsNeverLost` | `NeedStaysRecorded` |
| `RepoDOImplementsGitRepo` | `ImplementsGitRepo` |
| `SystemContainsObject` | `SysSpec => Spec`: the ten above hold in the system |
| `SystemTypeCorrect` | `SysTypeOK` |
| `CleanupsSparePacks` | `OnlyFaultsLosePacks` |
| `DeletesAreSafe` | `DeletesSpareActivePacks` |
| `ReadersFindTheirPacks` | `ReaderFindsPacks` |
| `WakeTypeCorrect` | `WakeTypeOK` |
| `RequestsAreWatched` | `RequestIsWatched` |
| `StoredDecodes` | `StoredIsDecodable` |
| `ObjectsStay` | no step takes an object out of the catalog |
| `RefusedLackBase` | `FailsOnlyUndecodable` |
| `EdgesLeadOut` | `BasesRecomputable` |
| `RewritesStandAlone` | `OutputStandsAlone` |
| `FailedInCircle` | `FailsOnlyInCircles` |
| `StoredAreFound` | `ReadsFindObjects` |
| `TipsStayConnected` | `TipsConnected` |
| `WholePushesPass` | `WholePushesConnect` |
| `ServedFetchesComplete` | `FetchCompletes` |
| `PlansFindObjects` | `PlansFindTheirObjects` |
| `QuotaAlwaysHolds` | `QuotaHolds` |
| `DeletionsErase` | `DeletedIsErased` |
| `AccessTypeCorrect` | `GitAccess!TypeOK` |
| `RequestsAreServedRightly` | `ServedRightly` |
| `RevokedTokensCannotPush` | `RevokedTokenCannotPush` |
| `ForgeTypeCorrect` | `Forge!TypeOK` |
| `StatesSignInOnce` | `StateSignsInOnce` |
| `GithubAccountsStayWhole` | `GithubAccountsAreWhole` |
| `OrganizationsAlwaysHaveAnOwner` | `OrganizationsKeepOwner` |
| `PersonalNamespacesStayAlone` | `PersonalNamespacesAreAlone` |
| `NumbersAreKept` | `IssuesKeepNumbers` |

### The object

`RepoDOProofs` establishes the inductive invariant

    IInv == TypeOK /\ CatalogInv

whose `CatalogInv` has five parts, each there because one action needs it:

* `Tiled`: `DisjointCover`, `TierOrder` and every row's range bounded by
  `nextPackSeq`. `DisjointCover` alone is not inductive: merging the oldest
  packs of a tier leaves the ranges disjoint only if no pack of another tier lies
  between them, which is `TierOrder`; and `TierOrder` is preserved by the new
  row only because the sources are the *oldest* of the *lowest* overflowing
  tier.
* `FreshKeys`: a token not yet issued has no row, and a granted token none of its
  own, so that a commit never overwrites a row.
* `GrantsIssued`: a grant belongs to an issued token.
* `RemovingInert`: a pack being removed is not active; it was superseded when
  checked and never becomes active again. This is what makes the two halves of
  `removePack` safe.
* `PlanHeld`: a compaction grant whose packset version is current holds the plan
  of the current catalog, so `commitAllowed` implies that the sources are still
  the plan's.

The steps rest on lemmas about the catalog: `ReceiveKeepsTiling`,
`CompactKeepsTiling`, and facts on `Min`, `Max` and the plan. The second half of
the module adds the object invariants (`SnapshotsHold`: what a grant saw active is
still held by some active pack; `LeaseIsHeld`: the holder of a lease holds its
grant).

The refinement maps a committing `finalizeReceive` to `Push`: the connectivity
check was made against the catalog of the grant, possibly long ago, and
`SnapshotsHold` carries it to the catalog of the commit. Erasures map to
`Erase`; every lease, compaction, alarm and restart step stutters.

### The object in the system

`RepoSystemProofs` takes `IInv` from the object and adds `BucketInv`. That no
delete hits an active pack does not follow from what is deleted being inactive
*now*: a worker decides, and the delete happens any number of steps later. The
invariant needed is about keys for good:

* `SpentKeys`: a key that is in the catalog in any state, in a removal, in a
  delete message or with a reader belongs to a token that was issued and whose
  grant is used up. A token is issued once and commits once, so a key that is
  spent and not active never becomes active again.
* `Sparing`: a delete message names no active pack, and a reader's pack only with
  a time after the reader's.
* `Stored`: active packs, packs of a reader whose time is not over, and packs
  staged for a commit that may still come are in R2 or spoiled by a known fault.
* `CleanupSpares`: who cleans up after a failure has nothing that is active or
  read, unless the reply of its commit was lost.
* `Workers`: workers hold tokens that were issued.

### The wake-up chain

The invariant of `RepoWakeProofs` relates three durations: `Fresh` bounds the age
of the stamp by what has passed of the compaction lease, for the call that
granted it touched the stamp; `Watched` says that with a request recorded either
no alarm is set and a message is in the queue, or the alarm fires before the
repository is idle, or not before both leases are over (`InTime`). In the first
case `alarm()` sets it again, in the second it re-sends; in neither does it reach
`clearIdleAlarm`.

### Packs

The invariant of `PackStoreProofs` is

    PackInv == CatalogInv(catalog) /\ JobInv

`StoredIsDecodable` is not inductive: that all entries decode says nothing of what
is left when a run of packs is replaced. `CatalogInv` is local to a pack and
survives that: every pack is good by itself (bases before their OFS_DELTAs, an
object once, everything in it decodable once its thin bases are), and its thin
bases are in *older* packs. Decodability follows by induction from the oldest pack
on. It is kept because a push is indexed against the packs before it and a
compaction's output needs no thin base. `JobInv` says, for each kind of job, what
holds while it runs:

* `IndexInv`, of a pass of the indexer: base edges are right (`EdgesRight`), an
  entry that waits is waiting for something that is not there or is registered
  at its base (`NoneForgotten`), an entry with an outside base has one in the
  active packs (`ExternalRight`). When no entry is left to visit, what is
  unresolved is therefore undecodable. The last point needs a base edge to lead to
  an entry resolved before, which is also why edges run in no circle.
* `RewriteInv`, of a rewrite: `Table`, what is so of the rows at any time, is that
  a row keeps its object whatever entry it takes over (`Named`), that owners are
  live (`Owned`), that a dead row is redirected to its object's owner in one step
  or, past an owner that lost its place to a pinned one, in two (`Redirects`), that
  the map has an order (`Ordered`), and that edges lead from a delta to a row of its
  base (`Edges`). `Progress` says which rows may still lack an owner or a base: those
  to be read. `PhaseInv` says what a phase has achieved: the prune leaves no dead
  row that its owner depends on (`Pruned`; the argument is about a walk over the map
  that deletes from it, `FirstRound`), the repair rounds leave a base to every dead
  row its owner depends on (`Curable`), the collapse leaves none of these at all
  (`NoneBad`), so that every delta that is compacted has a base, and the order
  respects bases (`OrderInv`). `Finished` is what the output then is.
* `ReadInv`, of a read: the entries visited lead from one to the next up to the
  open one (`LeadsInto`). A read that comes back to one of them therefore has a set
  of entries each of which leads into the set, and nothing in such a set is in the
  least set that `firstEntriesDecode` is.

`NoneBad` is as much as the code establishes: no owner depends on *its own*
duplicates. That the edges run in no circle once all redirects are applied does
not follow, and `packs_circle` shows it to be false. `RewritesStandAlone` therefore
speaks of the rewrites that end well. It does not assume that the snapshot of a
fetch holds good packs beyond what `CatalogInv` gives, nor of the objects asked
for more than that they are stored.

`FailedInCircle` is the other half, that all the other ways to fail are
unreachable: `RewriteInv` says of a failed rewrite that some of its rows are
`Circular`. Three things make it so. What is asked for is in the snapshot, as a
compaction's or a fetch's choice of sources gives. Whatever the snapshot holds
decodes (`Snapshot`), although it lists the packs in another order than the
catalog (`ReorderedDecodes`), so that a row without a base can always be sent
whole. And an OFS_DELTA is based on an earlier entry of its pack and no pack has
an object twice, so that the base is another row's object (`OfsBaseIn`) and no row
becomes its own base. What is then left is a topological order that stops
short, and the rows it has not reached are all based on each other.

### Pushes and fetches

The invariant of `GitExchangeProofs` is

    IInv == TypeOK /\ TipsConnected /\ ShownWhole /\ FetchesRight

* `ShownWhole`: while no client was damaged, all that is reached from any tip ever
  shown is stored. `WholePushesConnect` needs it for the shown tips a push builds
  on; a push keeps it, for what the client sends and what it had make up the new
  tip's closure, and a compaction keeps `Stored`.
* `FetchesRight`: for a fetch in each phase, that its snapshot consists of packs
  ever stored, which never change (a compaction writes a new file), that the haves
  it was told are the client's, that its wants were shown at some time, that while no
  client was damaged its snapshot holds all they reach, and what was planned or
  found absent.

`FetchCompletes` rests on the plan: the walk from the wants stops at objects that
the client has with all they reach, however the caps cut the stop set, so what it
leaves out is the client's already (`StopSetIsHad`, `NeededCompletes`, about the least
set `Reach`). `PlansFindTheirObjects` rests on `ShownWhole` at the moment the snapshot was
taken, which lies between ls-refs and the plan, and on `NeededIsReached`: a plan needs
nothing that the wants do not reach. `TipsConnected` needs for a chain of tags that one tip leads to
one target (`TagTarget`, `ChainEnds`), and `WholePushesConnect` that what is reached
from a whole tip passes the check (`WholeIsConnected`).

### Quota and erasure

`QuotaHolds` is not inductive, because a push commits on a measurement that was
true long ago. `RepoLifecycleProofs` strengthens it by `OwnerCounted` and
`RepositoryCounted`: of *any* set of packs that are active or may become so among
those whose push has begun to measure, some push has counted them all as far as
it got. It is the one that began to measure last, when all the others had staged.
`Finite` and `Stored` make cardinalities mean something; `Erasing` follows a
deletion stage by stage.

### Access

For each request `Sound` relates what it has read so far to its history: `Saw`
(what it resolved to existed and was as public as it believes), `Opened` (a gate
opens for one of three reasons) and `Rejected` (a token revoked before the request
is still revoked and was not accepted).

### Accounts, organizations, issues

The invariant of `ForgeProofs` has `Carries`, what each request's earlier reads
still say of the tables when it writes, beside `StatesOnce` (a state a request
holds is nobody else's), `Whole` (GitHub users and their accounts correspond one
to one), `Membership` and `Numbering`. Of the reads only those are in `Carries`
that no other request can invalidate: a user stays, an organization stays one,
numbers below the next are taken. That an owner read as such may no longer be one
is why `Membership` rests on the guard of the DELETE.

### Only model-checked

* Liveness (`RequestIsServed`, `OverflowIsResolved`, `FetchAnswered`), which is out
  of the prover's reach together with ENABLED.

Nothing is claimed, by a run or a theorem, of whether a rewrite ends: the loop
described with `packs_circle` shows that it may not.

No module declares a RECURSIVE operator. What the code computes by recursion
(decodable entries, base chains, reachable objects, tag chains) is stated as the
least set closed under a step, which TLC evaluates on small instances and about
which the proofs argue by exhibiting a closed set. Where an order of numbers is
needed, for the oldest pack or the first entry, it comes from the least element of a
set of naturals (`NatSet`).

## Not modelled

* Byte formats (pkt-line, pack, idx, refs), compression, side-band progress, HTTP
  parsing and status codes, cookies, hashing, logging, and caches other than those
  named above. `isValidRefName` is a set of names.
* Limits that only refuse: gateway and subrequest limits, the sizes a rewrite
  accepts, pagination.
* The read operations of the web interface (commit lists, trees, diffs): pure
  functions of one snapshot. What they rest on, `readObject`, is in `PackStore`.
* Batch reads, blob streaming and the peeling of tags in the object store;
  `computeNeededFast`, which only tests call.
* The rate limiter: its object deletes, counts and inserts in a single synchronous
  step, so nothing interleaves.
* Sign-in with OpenID Connect (`src/worker/routes/authOidc.ts`): a second provider
  beside the GitHub flow that `Accounts` models.
* Edits of issues, wiki pages and the contents of pull requests: each reads and
  updates one row.
* Browser clients, contracts, database migrations, the one-time migration of the
  SQLite schema in the constructor, the fixture `seedMinimalRepo`, tests.

Whether `deleteAll` drops the catalog table of a live instance is a platform
question the model answers with "it is empty".

## Plan

Every safety property that holds is proved. What remains:

1. The gap between `RepoDO`, which takes `connected` and `rewritten` from its
   environment, and `GitExchange` and `PackStore`, which model the code behind them:
   one composition in which a commit names the very pack that was checked.
2. The hazards without a property in `PROJECT.json`, each with a note.
