------------------------- MODULE RepoLifecycleProofs -------------------------
(***************************************************************************)
(* Theorems about the quota of an owner and the erasure of a deleted       *)
(* repository, for every number of repositories and pushes and every pair  *)
(* of limits.                                                              *)
(***************************************************************************)
EXTENDS RepoLifecycle, FiniteSetTheorems, TLAPS

-----------------------------------------------------------------------------
(* The inductive invariant *)

Pushing == [pc : Pc, repo : Repo \cup {None}, left : SUBSET Repo,
            repositoryBytes : Nat, ownerBytes : Nat]

Message == [repo : Repo, stage : {"queued", "list", "r2", "do"}, keys : SUBSET Push]

\* Every variable has its type, and a push under way has a repository.
Typed ==
    /\ row \in [Repo -> {"new", "live", "deleted"}]
    /\ push \in [Push -> Pushing]
    /\ \A p \in Push : push[p].pc \notin {"idle", "done"} => push[p].repo \in Repo
    /\ r2 \in [Repo -> SUBSET Push]
    /\ catalog \in [Repo -> SUBSET Push]
    /\ lease \in [Repo -> Push \cup {None}]
    /\ deletes \subseteq Message
    /\ doomed \in [Repo -> SUBSET Push]

Begun == {p \in Push : push[p].pc # "idle"}

LiveRepos == {r \in Repo : Live(r)}

\* Only finitely many pushes have begun, and only they have packs.
Finite ==
    /\ IsFiniteSet(Begun)
    /\ \A r \in Repo : r2[r] \subseteq Begun

\* A pack that is or was active belongs to a push that is over.  A live repository's
\* staged and active packs are in R2, and a new one has none.
Stored ==
    /\ \A r \in Repo : \A p \in catalog[r] \cup doomed[r] : push[p].pc = "done"
    /\ \A r \in LiveRepos : catalog[r] \subseteq r2[r]
    /\ \A p \in Push : push[p].pc \in {"staged", "measuring", "checked"} /\ Live(push[p].repo)
                           => p \in r2[push[p].repo]
    /\ \A r \in Repo : row[r] = "new" =>
           /\ catalog[r] = {}
           /\ \A p \in Push : push[p].pc \notin {"idle", "done"} => push[p].repo # r

\* What may be or become active in r among the packs that a quota check has begun for
Counted(r) ==
    catalog[r] \cup {p \in Push : push[p].pc \in {"measuring", "checked"} /\ push[p].repo = r}

CountedIn(R) == UNION {Counted(r) : r \in R}

\* p has counted the packs S as far as it got, or they are within the owner's limit.
OwnerBound(S, p) ==
    IF push[p].pc = "measuring"
    THEN Cardinality(S \cap CountedIn(LiveRepos \ push[p].left)) <= push[p].ownerBytes
    ELSE Cardinality(S) <= MaxStorageBytes

\* Of any packs of the owner, the one whose push began to measure last counts them all.
OwnerCounted ==
    \A S \in SUBSET CountedIn(LiveRepos) : S # {} => \E p \in S : OwnerBound(S, p)

RepositoryBound(S, r, p) ==
    IF push[p].pc = "measuring"
    THEN r \notin push[p].left => Cardinality(S) <= push[p].repositoryBytes
    ELSE Cardinality(S) <= MaxRepositoryBytes

RepositoryCounted ==
    \A r \in LiveRepos : \A S \in SUBSET Counted(r) :
        S # {} => \E p \in S : RepositoryBound(S, r, p)

Erased(r) == doomed[r] \cap (r2[r] \cup catalog[r]) = {}

\* Past its first stage a message's row is gone, and what it did holds: the keys it
\* has yet to delete are all that is left of the packs, or none is left.
Erasing ==
    /\ \A r \in Repo : row[r] # "deleted" => doomed[r] = {}
    /\ \A m \in deletes :
           /\ m.stage # "queued" => row[m.repo] = "deleted"
           /\ m.stage = "r2" => doomed[m.repo] \cap r2[m.repo] \subseteq m.keys
           /\ m.stage = "do" => doomed[m.repo] \cap r2[m.repo] = {}
    /\ DeletedIsErased

Base == Typed /\ Finite /\ Stored

IInv == Base /\ OwnerCounted /\ RepositoryCounted /\ Erasing

-----------------------------------------------------------------------------
(* Types *)

LEMMA NoPushTyped == NoPush \in Pushing
BY DEF NoPush, Pushing, Pc

LEMMA PushTypes ==
    ASSUME Base, PushNext
    PROVE  Typed'
<1> USE DEF Typed
<1>0. Typed /\ Finite
  BY DEF Base
<1>1. PICK p \in Push :
        \/ \E r \in Repo : pushOwner(p, r) \/ measure(p, r)
        \/ pushBegin(p) \/ pushStage(p) \/ measureBegin(p) \/ measureEnd(p)
        \/ pushFinalize(p) \/ pushFail(p) \/ pushDrop(p)
  BY DEF PushNext
<1>2. push[p] \in Pushing
  BY <1>0
<1>3. ASSUME NEW pc \in Pc \ {"idle", "done"}, NEW r \in Repo PROVE
          [NoPush EXCEPT !.pc = pc, !.repo = r] \in Pushing
  BY <1>3, NoPushTyped DEF Pushing
<1>4. ASSUME finish(p) PROVE push' \in [Push -> Pushing] /\ push'[p].pc = "done"
  BY <1>0, <1>4 DEF finish, Pushing, NoPush, Pc
<1>5. ASSUME NEW pc \in Pc, become(p, pc)
      PROVE push' \in [Push -> Pushing] /\ push'[p].pc = pc /\ push'[p].repo = push[p].repo
  BY <1>0, <1>2, <1>5 DEF become, Pushing
<1>6. ASSUME NEW r \in Repo, pushOwner(p, r) PROVE Typed'
  <2>1. [push[p] EXCEPT !.pc = "owned", !.repo = r] \in Pushing
    BY <1>2 DEF Pushing, Pc
  <2>2. push' = [push EXCEPT ![p] = [@ EXCEPT !.pc = "owned", !.repo = r]]
    BY <1>6, Zenon DEF pushOwner
  <2> QED
    BY <1>0, <1>2, <1>6, <2>1, <2>2 DEF pushOwner, Pushing
<1>7. CASE pushBegin(p)
  BY <1>0, <1>2, <1>4, <1>5, <1>7 DEF pushBegin, Pc, finish, become
<1>8. CASE pushStage(p)
  BY <1>0, <1>2, <1>5, <1>8 DEF pushStage, Pc, become
<1>9. CASE measureBegin(p)
  <2>1. [push[p] EXCEPT !.pc = "measuring", !.left = LiveRepos] \in Pushing
    BY <1>2 DEF Pushing, Pc, LiveRepos
  <2>2. push' = [push EXCEPT ![p] = [@ EXCEPT !.pc = "measuring", !.left = LiveRepos]]
    BY <1>9, Zenon DEF measureBegin, LiveRepos
  <2>3. push' \in [Push -> Pushing]
    BY <1>0, <2>1, <2>2
  <2>4. push[p].repo \in Repo /\ push'[p].repo = push[p].repo
        /\ \A o \in Push \ {p} : push'[o] = push[o]
    BY <1>0, <1>2, <1>9, <2>2 DEF measureBegin, Pushing
  <2> QED
    BY <1>0, <1>9, <2>3, <2>4 DEF measureBegin
<1>10. ASSUME NEW r \in Repo, measure(p, r) PROVE Typed'
  <2> DEFINE bytes == listPrefixBytes(p, r)
  <2>1. bytes \in Nat
    BY <1>0, FS_Subset, FS_CardinalityType DEF listPrefixBytes, Finite
  <2> DEFINE mine == IF r = push[p].repo THEN bytes ELSE push[p].repositoryBytes
             next == [pc |-> push[p].pc, repo |-> push[p].repo, left |-> push[p].left \ {r},
                      repositoryBytes |-> mine, ownerBytes |-> push[p].ownerBytes + bytes]
  <2>2. push' = [push EXCEPT ![p] = next]
    BY <1>10 DEF measure, added
  <2> HIDE DEF bytes
  <2>3. mine \in Nat
    BY <1>2, <2>1 DEF Pushing
  <2> HIDE DEF mine
  <2>4. next \in Pushing /\ next.repo = push[p].repo /\ next.pc = push[p].pc
    BY <1>2, <2>1, <2>3 DEF Pushing
  <2> HIDE DEF next
  <2> QED
    BY <1>0, <1>10, <2>2, <2>4 DEF measure
<1>11. CASE measureEnd(p)
  <2> DEFINE pc == IF assertStorageQuota(p) THEN "checked" ELSE "dropping"
  <2>1. pc \in Pc \ {"idle", "done"}
    BY DEF Pc
  <2> DEFINE next == [NoPush EXCEPT !.pc = pc, !.repo = push[p].repo]
  <2>2. push[p].repo \in Repo /\ push' = [push EXCEPT ![p] = next]
    BY <1>0, <1>11 DEF measureEnd
  <2>3. next \in Pushing /\ next.repo = push[p].repo
    <3> HIDE DEF pc
    <3> QED
      BY <1>3, <2>1, <2>2 DEF NoPush
  <2> HIDE DEF next
  <2> QED
    BY <1>0, <1>11, <2>2, <2>3 DEF measureEnd
<1>12. CASE pushFinalize(p)
  BY <1>0, <1>2, <1>4, <1>5, <1>12 DEF pushFinalize, Pc, finish, become
<1>13. CASE pushFail(p)
  <2>1. push[p].repo \in Repo /\ "dropping" \in Pc \ {"idle", "done"}
    BY <1>0, <1>13 DEF pushFail, Pc
  <2> QED
    BY <1>0, <1>2, <1>3, <1>13, <2>1 DEF pushFail, NoPush
<1>14. CASE pushDrop(p)
  BY <1>0, <1>2, <1>4, <1>14 DEF pushDrop, finish
<1> QED
  BY <1>1, <1>6, <1>7, <1>8, <1>9, <1>10, <1>11, <1>12, <1>13, <1>14

LEMMA DeleteTypes ==
    ASSUME Base, DeleteNext
    PROVE  Typed'
<1> USE DEF Typed
<1>0. Typed
  BY DEF Base
<1>1. PICK m \in deletes :
          deleteRow(m) \/ deleteList(m) \/ deleteKeys(m) \/ deleteObject(m) \/ deleteFail(m)
  BY DEF DeleteNext
<1>2. m \in Message /\ m.repo \in Repo
  BY <1>0 DEF Message
<1>3. ASSUME NEW stage \in {"queued", "list", "r2", "do"}, NEW keys \in SUBSET Push,
             advance(m, stage, keys)
      PROVE  deletes' \subseteq Message
  BY <1>0, <1>2, <1>3 DEF advance, Message
<1>4. queuedDeletion(m.repo) \in Message
  BY <1>2 DEF queuedDeletion, Message
<1>5. CASE deleteRow(m)
  BY <1>0, <1>2, <1>3, <1>5 DEF deleteRow
<1>6. CASE deleteList(m)
  BY <1>0, <1>2, <1>3, <1>6 DEF deleteList
<1>7. CASE deleteKeys(m)
  BY <1>0, <1>2, <1>3, <1>7 DEF deleteKeys
<1>8. CASE deleteObject(m)
  BY <1>0, <1>2, <1>4, <1>8 DEF deleteObject
<1>9. CASE deleteFail(m)
  BY <1>0, <1>4, <1>9 DEF deleteFail
<1> QED
  BY <1>1, <1>5, <1>6, <1>7, <1>8, <1>9

LEMMA NextTypes ==
    ASSUME Base, Next
    PROVE  Typed'
<1>1. ASSUME NEW r \in Repo, insertRepository(r) PROVE Typed'
  BY <1>1 DEF insertRepository, Base, Typed
<1>2. ASSUME NEW r \in Repo, purge(r) PROVE Typed'
  BY <1>2 DEF purge, Base, Typed, queuedDeletion, Message
<1> QED
  BY <1>1, <1>2, PushTypes, DeleteTypes DEF Next

-----------------------------------------------------------------------------
(* What a step of one push does *)

PushAct(p) ==
    \/ \E r \in Repo : pushOwner(p, r) \/ measure(p, r)
    \/ pushBegin(p) \/ pushStage(p) \/ measureBegin(p) \/ measureEnd(p)
    \/ pushFinalize(p) \/ pushFail(p) \/ pushDrop(p)

\* The order of its program counter
Later == [pc \in {"idle", "owned", "leased", "staged", "measuring", "checked", "dropping"} |->
    CASE pc = "idle" -> {"owned"}
      [] pc = "owned" -> {"leased", "done"}
      [] pc = "leased" -> {"staged", "dropping"}
      [] pc = "staged" -> {"measuring", "dropping"}
      [] pc = "measuring" -> {"measuring", "checked", "dropping"}
      [] pc = "checked" -> {"done", "dropping"}
      [] pc = "dropping" -> {"done"}]

LEMMA PushMoves ==
    ASSUME Base, NEW p \in Push, PushAct(p)
    PROVE  /\ UNCHANGED <<row, deletes, doomed>>
           /\ \A o \in Push : o # p => push'[o] = push[o]
           /\ push[p].pc \in DOMAIN Later /\ push'[p].pc \in Later[push[p].pc]
           /\ push'[p].pc # "done" =>
                  /\ push[p].pc = "idle" => Live(push'[p].repo)
                  /\ push[p].pc # "idle" => push'[p].repo = push[p].repo
<1>1. Typed /\ push \in [Push -> Pushing] /\ push[p] \in Pushing
  BY DEF Base, Typed
<1>2. UNCHANGED <<row, deletes, doomed>> /\ \A o \in Push : o # p => push'[o] = push[o]
  BY <1>1 DEF PushAct, pushOwner, measure, added, pushBegin, pushStage, measureBegin, measureEnd,
              pushFinalize, pushFail, pushDrop, finish, become
<1> SUFFICES
      /\ push[p].pc \in DOMAIN Later /\ push'[p].pc \in Later[push[p].pc]
      /\ push'[p].pc # "done" =>
             /\ push[p].pc = "idle" => Live(push'[p].repo)
             /\ push[p].pc # "idle" => push'[p].repo = push[p].repo
  BY <1>2
<1>3. ASSUME NEW r \in Repo, pushOwner(p, r) PROVE
        push[p].pc = "idle" /\ push'[p].pc = "owned" /\ Live(push'[p].repo)
  BY <1>1, <1>3 DEF pushOwner, Pushing
<1>4. ASSUME NEW r \in Repo, measure(p, r) PROVE
        push[p].pc = "measuring" /\ push'[p].pc = "measuring" /\ push'[p].repo = push[p].repo
  BY <1>1, <1>4 DEF measure, added
<1>5. ASSUME finish(p) PROVE push'[p].pc = "done"
  BY <1>1, <1>5 DEF finish, NoPush
<1>6. ASSUME NEW pc, become(p, pc) PROVE push'[p].pc = pc /\ push'[p].repo = push[p].repo
  BY <1>1, <1>6 DEF become, Pushing
<1>7. CASE measureBegin(p)
  <2>1. push[p].pc = "staged" /\ push'[p].pc = "measuring" /\ push'[p].repo = push[p].repo
    BY <1>1, <1>7 DEF measureBegin, Pushing
  <2> QED
    BY <2>1 DEF Later
<1>8. CASE measureEnd(p)
  <2>1. /\ push[p].pc = "measuring" /\ push'[p].pc \in {"checked", "dropping"}
        /\ push'[p].repo = push[p].repo
    BY <1>1, <1>8 DEF measureEnd, NoPush
  <2> QED
    BY <2>1 DEF Later
<1>9. CASE pushFail(p)
  <2>1. /\ push[p].pc \in {"leased", "staged", "measuring", "checked"}
        /\ push'[p].pc = "dropping" /\ push'[p].repo = push[p].repo
    BY <1>1, <1>9 DEF pushFail, NoPush
  <2> QED
    BY <2>1 DEF Later
<1>10. CASE pushBegin(p)
  BY <1>5, <1>6, <1>10 DEF pushBegin, Later
<1>11. CASE pushStage(p)
  BY <1>6, <1>11 DEF pushStage, Later
<1>12. CASE pushFinalize(p)
  BY <1>5, <1>6, <1>12 DEF pushFinalize, Later
<1>13. CASE pushDrop(p)
  BY <1>5, <1>13 DEF pushDrop, Later
<1> QED
  BY <1>3, <1>4, <1>7, <1>8, <1>9, <1>10, <1>11, <1>12, <1>13 DEF PushAct, Later

\* It stages its pack, deletes it again at the end of a push that failed, or commits it.
LEMMA PushStores ==
    ASSUME Base, NEW p \in Push, PushAct(p), NEW r \in Repo
    PROVE  /\ r2'[r] \in {r2[r], r2[r] \cup {p}, r2[r] \ {p}}
           /\ push'[p].pc = "staged" => p \in r2'[push[p].repo]
           /\ push'[p].pc = "staged" => r2[r] \subseteq r2'[r]
           /\ r2'[r] # r2[r] /\ push[p].pc # "dropping" => push[p].pc = "leased" /\ push'[p].pc = "staged"
           /\ catalog'[r] # catalog[r] =>
                  /\ catalog'[r] = catalog[r] \cup {p} /\ r = push[p].repo
                  /\ push[p].pc = "checked" /\ push'[p].pc = "done"
<1>1. Typed /\ push[p] \in Pushing /\ (push[p].pc \notin {"idle", "done"} => push[p].repo \in Repo)
  BY DEF Base, Typed
<1>2. push'[p].pc \in Later[push[p].pc] /\ push[p].pc \in DOMAIN Later
  BY PushMoves
<1>3. CASE pushStage(p)
  <2>1. push[p].pc = "leased" /\ push[p].repo \in Repo
    BY <1>1, <1>3 DEF pushStage
  <2>2. push'[p].pc = "staged"
    BY <1>1, <1>3 DEF pushStage, become, Typed
  <2> QED
    BY <1>1, <1>3, <2>1, <2>2 DEF pushStage, Typed
<1>4. CASE pushDrop(p)
  <2>1. push[p].pc = "dropping" /\ push'[p].pc = "done" /\ push[p].repo \in Repo
    BY <1>1, <1>2, <1>4 DEF pushDrop, Later
  <2> QED
    BY <1>1, <1>4, <2>1 DEF pushDrop, Typed
<1>5. CASE pushFinalize(p)
  <2>1. push[p].pc = "checked" /\ push'[p].pc \in {"done", "dropping"} /\ push[p].repo \in Repo
    BY <1>1, <1>2, <1>5 DEF pushFinalize, Later
  <2>2. r2' = r2
    BY <1>5 DEF pushFinalize
  <2>3. catalog' # catalog => push'[p].pc = "done"
    BY <1>1, <1>5 DEF pushFinalize, finish, NoPush, Typed
  <2>4. catalog' = catalog \/ catalog' = [catalog EXCEPT ![push[p].repo] = @ \cup {p}]
    BY <1>5 DEF pushFinalize
  <2> QED
    BY <1>1, <2>1, <2>2, <2>3, <2>4 DEF Typed
<1>6. CASE ~ pushStage(p) /\ ~ pushDrop(p) /\ ~ pushFinalize(p)
  <2>1. r2' = r2 /\ catalog' = catalog
    BY <1>6 DEF PushAct, pushOwner, measure, pushBegin, measureBegin, measureEnd, pushFail
  <2>2. push[p].pc # "leased" \/ push'[p].pc # "staged"
    <3>1. push[p].pc = "leased" => pushFail(p)
      BY <1>6 DEF PushAct, pushOwner, measure, pushBegin, measureBegin, measureEnd
    <3>2. pushFail(p) => push'[p].pc = "dropping"
      BY <1>1 DEF pushFail, NoPush, Typed
    <3> QED
      BY <3>1, <3>2
  <2> QED
    BY <1>2, <2>1, <2>2 DEF Later
<1> QED
  BY <1>3, <1>4, <1>5, <1>6

-----------------------------------------------------------------------------
(* Base is inductive *)

LEMMA PushBase ==
    ASSUME Base, PushNext
    PROVE  Base'
<1>1. PICK p \in Push : PushAct(p)
  BY DEF PushNext, PushAct
<1>2. Typed /\ Finite /\ Stored
  BY DEF Base
<1>3. /\ UNCHANGED <<row, deletes, doomed>>
      /\ \A o \in Push : o # p => push'[o] = push[o]
      /\ push[p].pc \in DOMAIN Later /\ push'[p].pc \in Later[push[p].pc]
      /\ push'[p].pc # "done" =>
             /\ push[p].pc = "idle" => Live(push'[p].repo)
             /\ push[p].pc # "idle" => push'[p].repo = push[p].repo
  BY <1>1, PushMoves
<1>4. push[p].pc # "done" /\ push'[p].pc # "idle"
  BY <1>3 DEF Later
<1>5. \A r \in Repo :
        /\ r2'[r] \in {r2[r], r2[r] \cup {p}, r2[r] \ {p}}
        /\ push'[p].pc = "staged" => p \in r2'[push[p].repo]
        /\ push'[p].pc = "staged" => r2[r] \subseteq r2'[r]
        /\ r2'[r] # r2[r] /\ push[p].pc # "dropping" => push[p].pc = "leased" /\ push'[p].pc = "staged"
        /\ catalog'[r] # catalog[r] =>
               /\ catalog'[r] = catalog[r] \cup {p} /\ r = push[p].repo
               /\ push[p].pc = "checked" /\ push'[p].pc = "done"
  BY <1>1, PushStores
<1>6. Finite'
  <2>1. Begun' \subseteq Begun \cup {p} /\ Begun \subseteq Begun'
    BY <1>3, <1>4 DEF Begun
  <2>2. IsFiniteSet(Begun')
    BY <1>2, <2>1, FS_AddElement, FS_Subset DEF Finite
  <2>3. p \in Begun'
    BY <1>4 DEF Begun
  <2> QED
    BY <1>2, <1>5, <2>1, <2>2, <2>3 DEF Finite
<1>7. Stored'
  <2>1. \A r \in Repo : \A o \in (catalog[r] \cup doomed[r])' : push'[o].pc = "done"
    <3>1. SUFFICES ASSUME NEW r \in Repo, NEW o \in catalog'[r] \cup doomed[r]
                   PROVE  push'[o].pc = "done"
      BY <1>3
    <3>2. o \in catalog[r] \cup doomed[r] => o # p /\ o \in Push
      BY <1>2, <1>4 DEF Stored, Typed
    <3> QED
      BY <1>2, <1>3, <1>5, <3>1, <3>2 DEF Stored
  <2>2. \A r \in LiveRepos' : catalog'[r] \subseteq r2'[r]
    <3>1. SUFFICES ASSUME NEW r \in LiveRepos, NEW o \in catalog'[r] PROVE o \in r2'[r]
      BY <1>3 DEF LiveRepos, Live
    <3>2. r \in Repo /\ Live(r)
      BY DEF LiveRepos
    <3>3. CASE o \in catalog[r]
      <4>1. o # p /\ o \in r2[r]
        BY <1>2, <1>4, <3>2, <3>3 DEF Stored
      <4> QED
        BY <1>5, <3>2, <4>1
    <3>4. CASE o \notin catalog[r]
      <4>1. o = p /\ r = push[p].repo /\ push[p].pc = "checked"
        BY <1>5, <3>1, <3>2, <3>4
      <4>2. p \in r2[r] /\ r2'[r] = r2[r]
        BY <1>2, <1>5, <3>2, <4>1 DEF Stored
      <4> QED
        BY <4>1, <4>2
    <3> QED
      BY <3>3, <3>4
  <2>3. ASSUME NEW o \in Push, push'[o].pc \in {"staged", "measuring", "checked"}, Live(push'[o].repo)
        PROVE  o \in r2'[push'[o].repo]
    <3>1. CASE o = p
      <4>1. push'[o].repo = push[o].repo /\ push[p].pc \notin {"idle", "owned", "dropping"}
        BY <1>3, <2>3, <3>1 DEF Later
      <4>2. push[p].repo \in Repo
        BY <1>2, <1>4, <4>1 DEF Typed
      <4>3. CASE push'[p].pc = "staged"
        BY <1>5, <3>1, <4>1, <4>2, <4>3
      <4>4. CASE push'[p].pc # "staged"
        <5>1. push[p].pc \in {"staged", "measuring", "checked"}
          BY <1>3, <2>3, <3>1, <4>4 DEF Later
        <5>2. p \in r2[push[p].repo]
          BY <1>2, <2>3, <3>1, <4>1, <5>1 DEF Stored
        <5> QED
          BY <1>5, <3>1, <4>1, <4>2, <5>1, <5>2
      <4> QED
        BY <4>3, <4>4
    <3>2. CASE o # p
      <4>1. o \in r2[push[o].repo] /\ push[o].repo \in Repo
        BY <1>2, <1>3, <2>3, <3>2 DEF Stored, Typed
      <4> QED
        BY <1>3, <1>5, <3>2, <4>1
    <3> QED
      BY <3>1, <3>2
  <2>4. ASSUME NEW r \in Repo, row'[r] = "new"
        PROVE  /\ catalog'[r] = {}
               /\ \A o \in Push : push'[o].pc \notin {"idle", "done"} => push'[o].repo # r
    <3>1. row[r] = "new" /\ ~ Live(r)
      BY <1>3, <2>4 DEF Live
    <3>2. catalog[r] = {} /\ \A o \in Push : push[o].pc \notin {"idle", "done"} => push[o].repo # r
      BY <1>2, <3>1 DEF Stored
    <3>3. catalog'[r] = {}
      BY <1>5, <3>2
    <3> QED
      BY <1>3, <1>4, <3>1, <3>2, <3>3
  <2>5. \A o \in Push : push'[o].pc \in {"staged", "measuring", "checked"} /\ Live(push[o].repo)'
                           => o \in r2'[push'[o].repo]
    BY <1>3, <2>3 DEF Live
  <2> QED
    BY <2>1, <2>2, <2>4, <2>5 DEF Stored
<1> QED
  BY <1>6, <1>7, PushTypes DEF Base

LEMMA DeleteBase ==
    ASSUME Base, Erasing, DeleteNext
    PROVE  Base'
<1>1. PICK m \in deletes :
          deleteRow(m) \/ deleteList(m) \/ deleteKeys(m) \/ deleteObject(m) \/ deleteFail(m)
  BY DEF DeleteNext
<1>2. Typed /\ Finite /\ Stored /\ m.repo \in Repo
  BY DEF Base, Typed, Message
<1>3. push' = push
  BY <1>1 DEF deleteRow, deleteList, deleteKeys, deleteObject, deleteFail
<1>4. CASE deleteRow(m)
  BY <1>2, <1>3, <1>4, DeleteTypes DEF deleteRow, Base, Typed, Finite, Begun, Stored, LiveRepos, Live
<1>5. CASE deleteKeys(m)
  <2>1. row[m.repo] = "deleted"
    BY <1>5 DEF deleteKeys, Erasing
  <2> QED
    BY <1>2, <1>3, <1>5, <2>1, DeleteTypes
       DEF deleteKeys, Base, Typed, Finite, Begun, Stored, LiveRepos, Live
<1>6. CASE deleteObject(m)
  BY <1>2, <1>3, <1>6, DeleteTypes DEF deleteObject, Base, Typed, Finite, Begun, Stored, LiveRepos, Live
<1>7. CASE deleteList(m) \/ deleteFail(m)
  BY <1>2, <1>3, <1>7, DeleteTypes
     DEF deleteList, deleteFail, Base, Typed, Finite, Begun, Stored, LiveRepos, Live
<1> QED
  BY <1>1, <1>4, <1>5, <1>6, <1>7

LEMMA NextBase ==
    ASSUME Base, Erasing, Next
    PROVE  Base'
<1>1. ASSUME NEW r \in Repo, insertRepository(r) PROVE Base'
  <2>1. row[r] = "new" /\ row' = [row EXCEPT ![r] = "live"] /\ UNCHANGED <<push, r2, catalog, doomed>>
    BY <1>1 DEF insertRepository
  <2>2. \A o \in Push : push[o].pc \in {"staged", "measuring", "checked"} => push[o].repo # r
    BY <2>1 DEF Base, Stored
  <2> QED
    BY <2>1, <2>2, <1>1, NextTypes DEF Next, Base, Typed, Finite, Begun, Stored, LiveRepos, Live
<1>2. ASSUME NEW r \in Repo, purge(r) PROVE Base'
  BY <1>2, NextTypes DEF Next, purge, Base, Finite, Begun, Stored, LiveRepos, Live
<1> QED
  BY <1>1, <1>2, PushBase, DeleteBase DEF Next

-----------------------------------------------------------------------------
(* Erasing is inductive *)

LEMMA PushErasing ==
    ASSUME Base, Erasing, PushNext
    PROVE  Erasing'
<1>1. PICK p \in Push : PushAct(p)
  BY DEF PushNext, PushAct
<1>2. Typed /\ Stored
  BY DEF Base
<1>3. UNCHANGED <<row, deletes, doomed>> /\ push[p].pc # "done"
  BY <1>1, PushMoves DEF Later
<1>4. \A r \in Repo :
        /\ r2'[r] \in {r2[r], r2[r] \cup {p}, r2[r] \ {p}}
        /\ catalog'[r] # catalog[r] => catalog'[r] = catalog[r] \cup {p}
  BY <1>1, PushStores
<1>5. \A r \in Repo : p \notin doomed[r]
  BY <1>2, <1>3 DEF Stored
<1>6. \A r \in Repo : doomed[r] \cap r2'[r] \subseteq doomed[r] \cap r2[r]
  BY <1>4, <1>5
<1>7. \A r \in Repo : doomed[r] \cap catalog'[r] \subseteq doomed[r] \cap catalog[r]
  BY <1>4, <1>5
<1>8. \A m \in deletes : m.repo \in Repo
  BY <1>2 DEF Typed, Message
<1>9. \A m \in deletes :
           /\ m.stage # "queued" => row[m.repo] = "deleted"
           /\ m.stage = "r2" => doomed[m.repo] \cap r2'[m.repo] \subseteq m.keys
           /\ m.stage = "do" => doomed[m.repo] \cap r2'[m.repo] = {}
  BY <1>6, <1>8 DEF Erasing
<1>10. DeletedIsErased'
  BY <1>3, <1>6, <1>7 DEF Erasing, DeletedIsErased
<1> QED
  BY <1>3, <1>9, <1>10 DEF Erasing

LEMMA DeleteErasing ==
    ASSUME Base, Erasing, DeleteNext
    PROVE  Erasing'
<1>1. PICK m \in deletes :
          deleteRow(m) \/ deleteList(m) \/ deleteKeys(m) \/ deleteObject(m) \/ deleteFail(m)
  BY DEF DeleteNext
<1>2. Typed /\ Stored /\ m \in Message /\ m.repo \in Repo
      /\ \A o \in deletes : o \in Message /\ o.repo \in Repo
  BY DEF Base, Typed, Message
<1>3. /\ m.stage # "queued" => row[m.repo] = "deleted"
      /\ m.stage = "r2" => doomed[m.repo] \cap r2[m.repo] \subseteq m.keys
      /\ m.stage = "do" => doomed[m.repo] \cap r2[m.repo] = {}
  BY DEF Erasing
<1>4. ASSUME NEW stage, NEW keys, advance(m, stage, keys)
      PROVE  /\ deletes' = (deletes \ {m}) \cup {[m EXCEPT !.stage = stage, !.keys = keys]}
             /\ [m EXCEPT !.stage = stage, !.keys = keys].repo = m.repo
             /\ [m EXCEPT !.stage = stage, !.keys = keys].stage = stage
             /\ [m EXCEPT !.stage = stage, !.keys = keys].keys = keys
  BY <1>2, <1>4 DEF advance, Message
<1>5. ASSUME NEW o, deletes' = (deletes \ {m}) \cup {o}, o.repo = m.repo,
             UNCHANGED <<row, catalog, doomed>>, r2' = [r2 EXCEPT ![m.repo] = r2'[m.repo]],
             r2'[m.repo] \subseteq r2[m.repo],
             o.stage # "queued" => row[m.repo] = "deleted",
             o.stage = "r2" => doomed[m.repo] \cap r2'[m.repo] \subseteq o.keys,
             o.stage = "do" => doomed[m.repo] \cap r2'[m.repo] = {}
      PROVE  Erasing'
  <2>1. \A r \in Repo : r2'[r] \subseteq r2[r]
    BY <1>2, <1>5 DEF Typed
  <2>2. ASSUME NEW n \in deletes'
        PROVE  /\ n.stage # "queued" => row[n.repo] = "deleted"
               /\ n.stage = "r2" => doomed[n.repo] \cap r2'[n.repo] \subseteq n.keys
               /\ n.stage = "do" => doomed[n.repo] \cap r2'[n.repo] = {}
    <3>1. CASE n \in deletes
      <4>1. r2'[n.repo] \subseteq r2[n.repo]
        BY <1>2, <2>1, <3>1
      <4> QED
        BY <3>1, <4>1 DEF Erasing
    <3>2. CASE n = o
      BY <1>5, <3>2
    <3> QED
      BY <1>5, <3>1, <3>2
  <2>3. ASSUME NEW r \in Repo, row[r] = "deleted", \A n \in deletes' : n.repo # r
        PROVE  doomed[r] \cap (r2'[r] \cup catalog[r]) = {}
    <3>1. \A n \in deletes : n.repo # r
      BY <1>5, <2>3
    <3> QED
      BY <2>1, <2>3, <3>1 DEF Erasing, DeletedIsErased
  <2>4. DeletedIsErased'
    BY <1>5, <2>3 DEF DeletedIsErased
  <2> QED
    BY <1>5, <2>2, <2>4 DEF Erasing
<1>6. CASE deleteRow(m)
  <2> DEFINE o == [m EXCEPT !.stage = "list", !.keys = {}]
  <2>1. deletes' = (deletes \ {m}) \cup {o} /\ o.repo = m.repo /\ o.stage = "list"
    <3>1. advance(m, "list", {})
      BY <1>6 DEF deleteRow
    <3> QED
      BY <1>4, <3>1, Zenon
  <2> HIDE DEF o
  <2>2. UNCHANGED <<r2, catalog>> /\ row' = [row EXCEPT ![m.repo] = "deleted"]
    BY <1>6 DEF deleteRow
  <2>3. CASE Live(m.repo)
    <3>1. doomed' = [doomed EXCEPT ![m.repo] = catalog[m.repo]]
      BY <1>6, <2>3 DEF deleteRow
    <3>2. \A n \in deletes : n.repo = m.repo => n.stage = "queued"
      BY <2>3 DEF Erasing, Live
    <3>3. \A r \in Repo : row'[r] # "deleted" => doomed'[r] = {}
      BY <1>2, <2>2, <3>1 DEF Typed, Erasing
    <3>4. \A n \in deletes' :
             /\ n.stage # "queued" => row'[n.repo] = "deleted"
             /\ n.stage = "r2" => doomed'[n.repo] \cap r2[n.repo] \subseteq n.keys
             /\ n.stage = "do" => doomed'[n.repo] \cap r2[n.repo] = {}
      BY <1>2, <2>1, <2>2, <3>1, <3>2 DEF Typed, Erasing
    <3>5. DeletedIsErased'
      BY <1>2, <2>1, <2>2, <3>1 DEF Typed, Erasing, DeletedIsErased
    <3> QED
      BY <2>2, <3>3, <3>4, <3>5 DEF Erasing
  <2>4. CASE ~ Live(m.repo)
    <3>1. doomed' = doomed
      BY <1>6, <2>4 DEF deleteRow
    <3>2. \A r \in Repo : row'[r] # "deleted" => doomed'[r] = {}
      BY <1>2, <2>2, <3>1 DEF Typed, Erasing
    <3>3. \A n \in deletes' :
             /\ n.stage # "queued" => row'[n.repo] = "deleted"
             /\ n.stage = "r2" => doomed'[n.repo] \cap r2[n.repo] \subseteq n.keys
             /\ n.stage = "do" => doomed'[n.repo] \cap r2[n.repo] = {}
      BY <1>2, <2>1, <2>2, <3>1 DEF Typed, Erasing
    <3>4. DeletedIsErased'
      BY <1>2, <2>1, <2>2, <3>1 DEF Typed, Erasing, DeletedIsErased
    <3> QED
      BY <2>2, <3>2, <3>3, <3>4 DEF Erasing
  <2> QED
    BY <2>3, <2>4
<1>7. CASE deleteList(m)
  <2> DEFINE stage == IF r2[m.repo] = {} THEN "do" ELSE "r2"
             o == [m EXCEPT !.stage = stage, !.keys = r2[m.repo]]
  <2>1. /\ deletes' = (deletes \ {m}) \cup {o}
        /\ o.repo = m.repo /\ o.stage = stage /\ o.keys = r2[m.repo]
    <3>1. advance(m, stage, r2[m.repo])
      BY <1>7 DEF deleteList
    <3> HIDE DEF stage
    <3>2. deletes' = (deletes \ {m}) \cup {o}
      BY <3>1 DEF advance
    <3>3. o.repo = m.repo /\ o.stage = stage /\ o.keys = r2[m.repo]
      BY <1>2 DEF Message
    <3> QED
      BY <3>2, <3>3
  <2>2. UNCHANGED <<row, r2, catalog, doomed>> /\ row[m.repo] = "deleted"
    BY <1>3, <1>7 DEF deleteList
  <2>3. r2' = [r2 EXCEPT ![m.repo] = r2'[m.repo]]
    BY <1>2, <2>2 DEF Typed
  <2> HIDE DEF o
  <2> QED
    BY <1>5, <2>1, <2>2, <2>3
<1>8. CASE deleteKeys(m)
  <2> DEFINE o == [m EXCEPT !.stage = "do", !.keys = {}]
  <2>1. deletes' = (deletes \ {m}) \cup {o} /\ o.repo = m.repo /\ o.stage = "do"
    <3>1. advance(m, "do", {})
      BY <1>8 DEF deleteKeys
    <3> QED
      BY <1>4, <3>1, Zenon
  <2>2. /\ UNCHANGED <<row, catalog, doomed>> /\ row[m.repo] = "deleted"
        /\ r2' = [r2 EXCEPT ![m.repo] = r2[m.repo] \ m.keys]
    BY <1>3, <1>8 DEF deleteKeys
  <2>3. r2'[m.repo] = r2[m.repo] \ m.keys /\ r2' = [r2 EXCEPT ![m.repo] = r2'[m.repo]]
    BY <1>2, <2>2 DEF Typed
  <2>4. doomed[m.repo] \cap r2'[m.repo] = {}
    BY <1>3, <1>8, <2>3 DEF deleteKeys
  <2> HIDE DEF o
  <2> QED
    BY <1>5, <2>1, <2>2, <2>3, <2>4
<1>9. CASE deleteFail(m)
  <2>1. /\ deletes' = (deletes \ {m}) \cup {queuedDeletion(m.repo)}
        /\ queuedDeletion(m.repo).repo = m.repo /\ queuedDeletion(m.repo).stage = "queued"
    BY <1>9 DEF deleteFail, queuedDeletion
  <2>2. UNCHANGED <<row, r2, catalog, doomed>>
    BY <1>9 DEF deleteFail
  <2>3. r2' = [r2 EXCEPT ![m.repo] = r2'[m.repo]]
    BY <1>2, <2>2 DEF Typed
  <2> QED
    BY <1>5, <2>1, <2>2, <2>3
<1>10. CASE deleteObject(m)
  <2>1. /\ UNCHANGED <<row, r2, doomed>> /\ doomed[m.repo] \cap r2[m.repo] = {}
        /\ catalog' = [catalog EXCEPT ![m.repo] = {}]
    BY <1>3, <1>10 DEF deleteObject
  <2>2. \A n \in deletes' : n \in deletes \/ (n.repo = m.repo /\ n.stage = "queued")
    BY <1>10 DEF deleteObject, queuedDeletion
  <2>3. \A n \in deletes' :
             /\ n.stage # "queued" => row[n.repo] = "deleted"
             /\ n.stage = "r2" => doomed[n.repo] \cap r2[n.repo] \subseteq n.keys
             /\ n.stage = "do" => doomed[n.repo] \cap r2[n.repo] = {}
    BY <2>2 DEF Erasing
  <2>4. ASSUME NEW r \in Repo, row[r] = "deleted", \A n \in deletes' : n.repo # r
        PROVE  doomed[r] \cap (r2[r] \cup catalog'[r]) = {}
    <3>1. CASE r = m.repo
      BY <1>2, <2>1, <3>1 DEF Typed
    <3>2. CASE r # m.repo
      <4>1. \A n \in deletes : n.repo # r
        BY <1>10, <2>4, <3>2 DEF deleteObject
      <4> QED
        BY <1>2, <2>1, <2>4, <3>2, <4>1 DEF Typed, Erasing, DeletedIsErased
    <3> QED
      BY <3>1, <3>2
  <2>5. DeletedIsErased'
    BY <2>1, <2>4 DEF DeletedIsErased
  <2> QED
    BY <2>1, <2>3, <2>5 DEF Erasing
<1> QED
  BY <1>1, <1>6, <1>7, <1>8, <1>9, <1>10

LEMMA NextErasing ==
    ASSUME Base, Erasing, Next
    PROVE  Erasing'
<1>1. ASSUME NEW r \in Repo, insertRepository(r) PROVE Erasing'
  <2>1. /\ row[r] = "new" /\ row' = [row EXCEPT ![r] = "live"]
        /\ UNCHANGED <<r2, catalog, doomed, deletes>>
    BY <1>1 DEF insertRepository
  <2>2. row \in [Repo -> {"new", "live", "deleted"}] /\ \A m \in deletes : m.repo \in Repo
    BY DEF Base, Typed, Message
  <2>3. \A x \in Repo : row'[x] = "deleted" <=> row[x] = "deleted"
    BY <2>1, <2>2
  <2>4. DeletedIsErased'
    BY <2>1, <2>3 DEF Erasing, DeletedIsErased
  <2> QED
    BY <2>1, <2>2, <2>3, <2>4 DEF Erasing
<1>2. ASSUME NEW r \in Repo, purge(r) PROVE Erasing'
  BY <1>2 DEF purge, queuedDeletion, Erasing, DeletedIsErased
<1> QED
  BY <1>1, <1>2, PushErasing, DeleteErasing DEF Next

-----------------------------------------------------------------------------
(* The counts are inductive *)

LEMMA CountedFinite ==
    ASSUME Base
    PROVE  /\ CountedIn(LiveRepos) \subseteq Begun
           /\ \A S \in SUBSET CountedIn(LiveRepos) : IsFiniteSet(S) /\ Cardinality(S) \in Nat
<1>1. \A r \in LiveRepos : Counted(r) \subseteq Begun
  BY DEF Base, Stored, Typed, Begun, Counted, LiveRepos
<1>2. CountedIn(LiveRepos) \subseteq Begun
  BY <1>1 DEF CountedIn
<1>3. ASSUME NEW S \in SUBSET CountedIn(LiveRepos) PROVE IsFiniteSet(S) /\ Cardinality(S) \in Nat
  BY <1>2, FS_Subset, FS_CardinalityType DEF Base, Finite
<1> QED
  BY <1>2, <1>3

\* A pack counted in a live repository is in R2.
LEMMA CountedIsStored ==
    ASSUME Base, NEW r \in LiveRepos
    PROVE  Counted(r) \subseteq r2[r] /\ IsFiniteSet(r2[r]) /\ Cardinality(r2[r]) \in Nat
<1>1. Counted(r) \subseteq r2[r]
  BY DEF Base, Stored, Typed, Counted, LiveRepos
<1> QED
  BY <1>1, FS_Subset, FS_CardinalityType DEF Base, Finite, LiveRepos

LEMMA CardinalityGrows ==
    ASSUME NEW T, IsFiniteSet(T), NEW S \in SUBSET T
    PROVE  IsFiniteSet(S) /\ Cardinality(S) \in Nat /\ Cardinality(T) \in Nat
           /\ Cardinality(S) <= Cardinality(T)
BY FS_Subset, FS_CardinalityType

LEMMA CardinalityUnion ==
    ASSUME NEW S, NEW T, IsFiniteSet(S), IsFiniteSet(T)
    PROVE  Cardinality(S \cup T) <= Cardinality(S) + Cardinality(T)
<1>1. IsFiniteSet(S \cap T)
  BY FS_Subset
<1>2. Cardinality(S) \in Nat /\ Cardinality(T) \in Nat /\ Cardinality(S \cap T) \in Nat
  BY <1>1, FS_CardinalityType
<1>3. Cardinality(S \cup T) = Cardinality(S) + Cardinality(T) - Cardinality(S \cap T)
  BY FS_Union
<1> QED
  BY <1>2, <1>3

\* A step by which nothing more is counted, and no push measures on, keeps the counts.
LEMMA CountsKept ==
    ASSUME IInv, Base',
           \A r \in LiveRepos' :
               Counted(r)' \subseteq (IF r \in LiveRepos THEN Counted(r) ELSE {}),
           \A p \in CountedIn(LiveRepos)' :
               /\ push'[p].pc = "measuring" <=> push[p].pc = "measuring"
               /\ push[p].pc = "measuring" =>
                      /\ push'[p].left = push[p].left
                      /\ push'[p].ownerBytes = push[p].ownerBytes
                      /\ push'[p].repositoryBytes = push[p].repositoryBytes
    PROVE  OwnerCounted' /\ RepositoryCounted'
<1>0. Base /\ OwnerCounted /\ RepositoryCounted
  BY DEF IInv
<1>1. CountedIn(LiveRepos)' \subseteq CountedIn(LiveRepos)
  BY DEF CountedIn
<1>2. ASSUME NEW S \in SUBSET CountedIn(LiveRepos)', S # {} PROVE \E p \in S : OwnerBound(S, p)'
  <2>1. PICK p \in S : OwnerBound(S, p)
    BY <1>0, <1>1, <1>2 DEF OwnerCounted
  <2>2. CASE push[p].pc = "measuring"
    <3> DEFINE T == S \cap CountedIn(LiveRepos \ push[p].left)
               U == S \cap CountedIn(LiveRepos \ push[p].left)'
    <3>1. U \in SUBSET T
      <4>1. push'[p].left = push[p].left
        BY <2>2
      <4> QED
        BY <4>1 DEF CountedIn
    <3>2. IsFiniteSet(T)
      BY <1>0, <1>1, CountedFinite, FS_Subset
    <3>3. Cardinality(U) \in Nat /\ Cardinality(T) \in Nat /\ Cardinality(U) <= Cardinality(T)
      BY <3>1, <3>2, CardinalityGrows
    <3>4. Cardinality(T) <= push[p].ownerBytes /\ push[p].ownerBytes \in Nat
      <4>1. p \in Push
        BY <1>0, <1>1, CountedFinite DEF Begun
      <4> QED
        BY <1>0, <2>1, <2>2, <4>1 DEF OwnerBound, Base, Typed, Pushing
    <3>5. Cardinality(U) <= push[p].ownerBytes
      BY <3>3, <3>4
    <3>6. push'[p].pc = "measuring" /\ push'[p].left = push[p].left /\ push'[p].ownerBytes = push[p].ownerBytes
      BY <2>2
    <3> QED
      BY <3>5, <3>6 DEF OwnerBound
  <2>3. CASE push[p].pc # "measuring"
    BY <2>1, <2>3 DEF OwnerBound
  <2> QED
    BY <2>2, <2>3
<1>3. ASSUME NEW r \in LiveRepos', NEW S \in SUBSET Counted(r)', S # {}
      PROVE  \E p \in S : RepositoryBound(S, r, p)'
  <2>1. r \in LiveRepos /\ S \in SUBSET Counted(r) /\ S \in SUBSET CountedIn(LiveRepos)'
    BY <1>3 DEF CountedIn
  <2>2. PICK p \in S : RepositoryBound(S, r, p)
    BY <1>0, <1>3, <2>1 DEF RepositoryCounted
  <2> QED
    BY <2>1, <2>2 DEF RepositoryBound
<1> QED
  BY <1>2, <1>3 DEF OwnerCounted, RepositoryCounted

LEMMA MeasuresItsOwn ==
    ASSUME Base, NEW r \in Repo, NEW p \in Counted(r), push[p].pc \in {"staged", "measuring", "checked"}
    PROVE  p \in Push /\ p \notin catalog[r] /\ push[p].repo = r /\ push[p].pc # "staged"
BY DEF Base, Stored, Counted

\* Nothing but a quota check that begins lets a push be counted.
LEMMA OthersCount ==
    ASSUME IInv, Base', NEW p \in Push, PushAct(p), push'[p].pc \notin {"measuring", "checked"}
    PROVE  OwnerCounted' /\ RepositoryCounted'
<1>1. Base
  BY DEF IInv
<1>2. /\ row' = row /\ \A o \in Push : o # p => push'[o] = push[o]
      /\ push[p].pc # "done"
  BY <1>1, PushMoves DEF Later
<1>3. \A r \in Repo : catalog'[r] # catalog[r] =>
          catalog'[r] = catalog[r] \cup {p} /\ r = push[p].repo /\ push[p].pc = "checked"
  BY <1>1, PushStores
<1>4. LiveRepos' = LiveRepos
  BY <1>2 DEF LiveRepos, Live
<1>5. ASSUME NEW r \in LiveRepos PROVE Counted(r)' \subseteq Counted(r)
  <2>1. {o \in Push : push'[o].pc \in {"measuring", "checked"} /\ push'[o].repo = r} \subseteq
        {o \in Push : push[o].pc \in {"measuring", "checked"} /\ push[o].repo = r}
    BY <1>2
  <2>2. catalog'[r] \subseteq Counted(r)
    BY <1>3 DEF Counted, LiveRepos
  <2> QED
    BY <2>1, <2>2 DEF Counted
<1>6. ASSUME NEW o \in CountedIn(LiveRepos)', o = p PROVE push[p].pc # "measuring"
  <2>1. PICK r \in LiveRepos' : p \in Counted(r)'
    BY <1>6 DEF CountedIn
  <2>2. p \in catalog'[r] /\ r \in Repo
    BY <2>1 DEF Counted, LiveRepos
  <2>3. p \notin catalog[r]
    BY <1>1, <1>2, <2>2 DEF Base, Stored
  <2> QED
    BY <1>3, <2>2, <2>3
<1>7. CountedIn(LiveRepos)' \subseteq Push
  BY <1>1, <1>4, <1>5, CountedFinite DEF CountedIn, Begun
<1> QED
  BY <1>2, <1>4, <1>5, <1>6, <1>7, CountsKept

LEMMA BeginCounts ==
    ASSUME IInv, Base', NEW p \in Push, measureBegin(p)
    PROVE  OwnerCounted' /\ RepositoryCounted'
<1>1. Base /\ OwnerCounted /\ RepositoryCounted /\ Typed
  BY DEF IInv, Base
<1>2. /\ row' = row /\ catalog' = catalog /\ \A o \in Push : o # p => push'[o] = push[o]
      /\ push[p].pc = "staged" /\ push'[p].pc = "measuring" /\ push'[p].left = LiveRepos
      /\ push'[p].repo = push[p].repo /\ push'[p].ownerBytes \in Nat
  BY <1>1 DEF measureBegin, LiveRepos, Typed, Pushing
<1>3. LiveRepos' = LiveRepos
  BY <1>2 DEF LiveRepos, Live
<1>4. \A r \in Repo : Counted(r)' \subseteq Counted(r) \cup {p}
  BY <1>2 DEF Counted
<1>5. ASSUME NEW S \in SUBSET CountedIn(LiveRepos)', S # {} PROVE \E o \in S : OwnerBound(S, o)'
  <2>1. CASE p \in S
    <3>1. S \cap CountedIn(LiveRepos \ push[p].left)' = {}
      BY <1>2, <1>3 DEF CountedIn
    <3>2. Cardinality(S \cap CountedIn(LiveRepos \ push[p].left)') = 0
      BY <3>1, FS_EmptySet
    <3>3. Cardinality(S \cap CountedIn(LiveRepos \ push[p].left)') <= push'[p].ownerBytes
      BY <1>2, <3>2
    <3>4. OwnerBound(S, p)'
      BY <1>2, <3>3 DEF OwnerBound
    <3> QED
      BY <2>1, <3>4
  <2>2. CASE p \notin S
    <3>1. S \in SUBSET CountedIn(LiveRepos)
      BY <1>3, <1>4, <2>2 DEF CountedIn, LiveRepos
    <3>2. PICK o \in S : OwnerBound(S, o)
      BY <1>1, <1>5, <3>1 DEF OwnerCounted
    <3>3. o \in Push /\ o # p
      BY <1>1, <2>2, <3>1, CountedFinite DEF Begun
    <3>4. ASSUME push[o].pc = "measuring"
          PROVE  S \cap CountedIn(LiveRepos \ push[o].left)' = S \cap CountedIn(LiveRepos \ push[o].left)
      <4>1. push'[o] = push[o]
        BY <1>2, <3>3
      <4>2. \A r \in Repo : S \cap Counted(r)' = S \cap Counted(r)
        BY <1>2, <2>2 DEF Counted
      <4> QED
        BY <1>3, <4>1, <4>2 DEF CountedIn, LiveRepos
    <3> QED
      BY <1>2, <3>2, <3>3, <3>4 DEF OwnerBound
  <2> QED
    BY <2>1, <2>2
<1>6. ASSUME NEW r \in LiveRepos', NEW S \in SUBSET Counted(r)', S # {}
      PROVE  \E o \in S : RepositoryBound(S, r, o)'
  <2>1. CASE p \in S
    BY <1>2, <1>3, <1>6, <2>1 DEF RepositoryBound
  <2>2. CASE p \notin S
    <3>1. S \in SUBSET Counted(r) /\ r \in LiveRepos
      BY <1>3, <1>4, <2>2 DEF LiveRepos
    <3>2. PICK o \in S : RepositoryBound(S, r, o)
      BY <1>1, <1>6, <3>1 DEF RepositoryCounted
    <3>3. o \in Push /\ o # p
      BY <1>1, <2>2, <3>1, CountedFinite DEF Begun, CountedIn
    <3> QED
      BY <1>2, <3>2, <3>3 DEF RepositoryBound
  <2> QED
    BY <2>1, <2>2
<1> QED
  BY <1>5, <1>6 DEF OwnerCounted, RepositoryCounted

LEMMA MeasureCounts ==
    ASSUME IInv, Base', NEW p \in Push, NEW x \in Repo, measure(p, x)
    PROVE  OwnerCounted' /\ RepositoryCounted'
<1> DEFINE bytes == listPrefixBytes(p, x)
<1>1. Base /\ OwnerCounted /\ RepositoryCounted /\ Typed
  BY DEF IInv, Base
<1>2. /\ row' = row /\ catalog' = catalog /\ \A o \in Push : o # p => push'[o] = push[o]
      /\ push[p].pc = "measuring" /\ push'[p].pc = "measuring"
      /\ push'[p].left = push[p].left \ {x} /\ push'[p].repo = push[p].repo
      /\ push'[p].ownerBytes = push[p].ownerBytes + bytes
      /\ push'[p].repositoryBytes = IF x = push[p].repo THEN bytes ELSE push[p].repositoryBytes
      /\ push[p].ownerBytes \in Nat
  BY <1>1 DEF measure, added, Typed, Pushing
<1>3. LiveRepos' = LiveRepos
  BY <1>2 DEF LiveRepos, Live
<1>4. \A r \in Repo : Counted(r)' = Counted(r)
  BY <1>2 DEF Counted
<1>5. CountedIn(LiveRepos)' = CountedIn(LiveRepos)
  BY <1>3, <1>4 DEF CountedIn, LiveRepos
<1>6. bytes = Cardinality(r2[x]) /\ bytes \in Nat
  BY <1>1, FS_Subset, FS_CardinalityType DEF listPrefixBytes, Base, Finite
<1>7. ASSUME NEW r \in LiveRepos, r = x, NEW S, S \subseteq Counted(r)
      PROVE  IsFiniteSet(S) /\ Cardinality(S) \in Nat /\ Cardinality(S) <= bytes
  <2>1. S \subseteq r2[x] /\ IsFiniteSet(r2[x])
    BY <1>1, <1>7, CountedIsStored
  <2> QED
    BY <1>6, <2>1, CardinalityGrows
<1> HIDE DEF bytes
<1>8. ASSUME NEW S \in SUBSET CountedIn(LiveRepos)', S # {} PROVE \E o \in S : OwnerBound(S, o)'
  <2>1. PICK o \in S : OwnerBound(S, o)
    BY <1>1, <1>5, <1>8 DEF OwnerCounted
  <2>2. o \in Push /\ IsFiniteSet(S)
    BY <1>1, <1>5, CountedFinite DEF Begun
  <2>3. CASE o # p
    <3>1. push'[o] = push[o]
      BY <1>2, <2>2, <2>3
    <3>2. push[o].pc = "measuring" =>
              CountedIn(LiveRepos \ push[o].left)' = CountedIn(LiveRepos \ push[o].left)
      BY <1>3, <1>4, <3>1 DEF CountedIn, LiveRepos
    <3> QED
      BY <2>1, <3>1, <3>2 DEF OwnerBound
  <2>4. CASE o = p
    <3> DEFINE T == S \cap CountedIn(LiveRepos \ push[p].left)
               X == S \cap Counted(x)
               U == S \cap CountedIn(LiveRepos \ push[p].left)'
    <3>1. Cardinality(T) <= push[p].ownerBytes
      BY <1>2, <2>1, <2>4 DEF OwnerBound
    <3>2. IsFiniteSet(T) /\ IsFiniteSet(X) /\ IsFiniteSet(U)
      BY <2>2, FS_Subset
    <3>3. CASE x \in LiveRepos
      <4>1. U \subseteq T \cup X
        BY <1>2, <1>3, <1>4 DEF CountedIn, LiveRepos
      <4>2. IsFiniteSet(T \cup X) /\ Cardinality(T \cup X) <= Cardinality(T) + Cardinality(X)
        BY <3>2, CardinalityUnion, FS_Union
      <4>3. Cardinality(U) <= Cardinality(T \cup X)
        BY <4>1, <4>2, CardinalityGrows
      <4>4. Cardinality(X) <= bytes
        BY <1>7, <3>3
      <4>5. Cardinality(U) \in Nat /\ Cardinality(T \cup X) \in Nat /\ Cardinality(T) \in Nat
            /\ Cardinality(X) \in Nat
        BY <3>2, <4>2, FS_CardinalityType
      <4>6. Cardinality(U) <= push'[p].ownerBytes
        <5> HIDE DEF T, X, U
        <5> QED
          BY <1>2, <1>6, <3>1, <4>2, <4>3, <4>4, <4>5
      <4> QED
        BY <1>2, <2>4, <4>6 DEF OwnerBound
    <3>4. CASE x \notin LiveRepos
      <4>1. U = T
        BY <1>2, <1>3, <1>4, <3>4 DEF CountedIn, LiveRepos
      <4>2. Cardinality(T) \in Nat
        BY <3>2, FS_CardinalityType
      <4>3. Cardinality(U) <= push'[p].ownerBytes
        <5> HIDE DEF T, U
        <5> QED
          BY <1>2, <1>6, <3>1, <4>1, <4>2
      <4> QED
        BY <1>2, <2>4, <4>3 DEF OwnerBound
    <3> QED
      BY <3>3, <3>4
  <2> QED
    BY <2>3, <2>4
<1>9. ASSUME NEW r \in LiveRepos', NEW S \in SUBSET Counted(r)', S # {}
      PROVE  \E o \in S : RepositoryBound(S, r, o)'
  <2>1. S \in SUBSET Counted(r) /\ r \in LiveRepos /\ r \in Repo
    BY <1>3, <1>4 DEF LiveRepos
  <2>2. PICK o \in S : RepositoryBound(S, r, o)
    BY <1>1, <1>9, <2>1 DEF RepositoryCounted
  <2>3. o \in Push /\ (o = p => r = push[p].repo)
    BY <1>1, <1>2, <2>1, CountedFinite, MeasuresItsOwn DEF Begun, CountedIn
  <2>4. CASE o # p
    BY <1>2, <2>2, <2>3, <2>4 DEF RepositoryBound
  <2>5. CASE o = p /\ x = r
    <3>1. Cardinality(S) <= bytes
      BY <1>7, <2>1, <2>5
    <3> QED
      BY <1>2, <2>3, <2>5, <3>1 DEF RepositoryBound
  <2>6. CASE o = p /\ x # r
    BY <1>2, <2>2, <2>3, <2>6 DEF RepositoryBound
  <2> QED
    BY <2>4, <2>5, <2>6
<1> QED
  BY <1>8, <1>9 DEF OwnerCounted, RepositoryCounted

LEMMA EndCounts ==
    ASSUME IInv, Base', NEW p \in Push, measureEnd(p), push'[p].pc = "checked"
    PROVE  OwnerCounted' /\ RepositoryCounted'
<1>1. Base /\ OwnerCounted /\ RepositoryCounted /\ Typed
  BY DEF IInv, Base
<1>2. /\ row' = row /\ catalog' = catalog /\ \A o \in Push : o # p => push'[o] = push[o]
      /\ push[p].pc = "measuring" /\ push[p].left = {} /\ push'[p].repo = push[p].repo
  BY <1>1 DEF measureEnd, NoPush, Typed
<1>3. assertStorageQuota(p)
  BY <1>1 DEF measureEnd, NoPush, Typed
<1>4. LiveRepos' = LiveRepos
  BY <1>2 DEF LiveRepos, Live
<1>5. \A r \in Repo : Counted(r)' = Counted(r)
  BY <1>2 DEF Counted
<1>6. CountedIn(LiveRepos)' = CountedIn(LiveRepos)
  BY <1>4, <1>5 DEF CountedIn, LiveRepos
<1>7. push[p].ownerBytes \in Nat /\ push[p].repositoryBytes \in Nat
  BY <1>1 DEF Typed, Pushing
<1>8. ASSUME NEW S \in SUBSET CountedIn(LiveRepos)', S # {} PROVE \E o \in S : OwnerBound(S, o)'
  <2>1. PICK o \in S : OwnerBound(S, o)
    BY <1>1, <1>6, <1>8 DEF OwnerCounted
  <2>2. o \in Push /\ Cardinality(S) \in Nat
    BY <1>1, <1>6, CountedFinite DEF Begun
  <2>3. CASE o # p
    <3>1. push'[o] = push[o]
      BY <1>2, <2>2, <2>3
    <3>2. push[o].pc = "measuring" =>
              CountedIn(LiveRepos \ push[o].left)' = CountedIn(LiveRepos \ push[o].left)
      BY <1>4, <1>5, <3>1 DEF CountedIn, LiveRepos
    <3> QED
      BY <2>1, <3>1, <3>2 DEF OwnerBound
  <2>4. CASE o = p
    <3>1. S \cap CountedIn(LiveRepos \ push[p].left) = S
      BY <1>2, <1>6
    <3>2. Cardinality(S) <= push[p].ownerBytes
      BY <1>2, <2>1, <2>4, <3>1 DEF OwnerBound
    <3>3. Cardinality(S) <= MaxStorageBytes
      BY <1>3, <1>7, <2>2, <3>2, LifecycleAssumption DEF assertStorageQuota
    <3> QED
      BY <2>4, <3>3 DEF OwnerBound
  <2> QED
    BY <2>3, <2>4
<1>9. ASSUME NEW r \in LiveRepos', NEW S \in SUBSET Counted(r)', S # {}
      PROVE  \E o \in S : RepositoryBound(S, r, o)'
  <2>1. S \in SUBSET Counted(r) /\ r \in LiveRepos /\ r \in Repo /\ S \in SUBSET CountedIn(LiveRepos)
    BY <1>4, <1>5 DEF LiveRepos, CountedIn
  <2>2. PICK o \in S : RepositoryBound(S, r, o)
    BY <1>1, <1>9, <2>1 DEF RepositoryCounted
  <2>3. o \in Push /\ Cardinality(S) \in Nat
    BY <1>1, <2>1, CountedFinite DEF Begun
  <2>4. CASE o # p
    BY <1>2, <2>2, <2>3, <2>4 DEF RepositoryBound
  <2>5. CASE o = p
    <3>1. Cardinality(S) <= push[p].repositoryBytes
      BY <1>2, <2>2, <2>5 DEF RepositoryBound
    <3>2. Cardinality(S) <= MaxRepositoryBytes
      BY <1>3, <1>7, <2>3, <3>1, LifecycleAssumption DEF assertStorageQuota
    <3> QED
      BY <2>5, <3>2 DEF RepositoryBound
  <2> QED
    BY <2>4, <2>5
<1> QED
  BY <1>8, <1>9 DEF OwnerCounted, RepositoryCounted

LEMMA NextCounts ==
    ASSUME IInv, Base', Next
    PROVE  OwnerCounted' /\ RepositoryCounted'
<1>1. Base /\ Typed
  BY DEF IInv, Base
<1>2. CASE PushNext
  <2>1. PICK p \in Push : PushAct(p)
    BY <1>2 DEF PushNext, PushAct
  <2>2. CASE push'[p].pc = "measuring"
    <3>1. measureBegin(p) \/ \E x \in Repo : measure(p, x)
      <4>1. push[p].pc \in {"staged", "measuring"}
        BY <1>1, <2>1, <2>2, PushMoves DEF Later
      <4>2. measureEnd(p) => push'[p].pc \in {"checked", "dropping"}
        BY <1>1 DEF measureEnd, NoPush, Typed
      <4>3. pushFail(p) => push'[p].pc = "dropping"
        BY <1>1 DEF pushFail, NoPush, Typed
      <4> QED
        BY <2>1, <2>2, <4>1, <4>2, <4>3
           DEF PushAct, pushOwner, pushBegin, pushStage, pushFinalize, pushDrop
    <3> QED
      BY <3>1, BeginCounts, MeasureCounts
  <2>3. CASE push'[p].pc = "checked"
    <3>1. measureEnd(p)
      <4>1. push[p].pc = "measuring"
        BY <1>1, <2>1, <2>3, PushMoves DEF Later
      <4>2. \A x \in Repo : measure(p, x) => push'[p].pc = "measuring"
        BY <1>1, <4>1 DEF measure, added, Typed
      <4>3. pushFail(p) => push'[p].pc = "dropping"
        BY <1>1 DEF pushFail, NoPush, Typed
      <4> QED
        BY <2>1, <2>3, <4>1, <4>2, <4>3
           DEF PushAct, pushOwner, pushBegin, pushStage, measureBegin, pushFinalize, pushDrop
    <3> QED
      BY <2>3, <3>1, EndCounts
  <2>4. CASE push'[p].pc \notin {"measuring", "checked"}
    BY <2>1, <2>4, OthersCount
  <2> QED
    BY <2>2, <2>3, <2>4
<1>3. CASE ~ PushNext
  <2>1. push' = push
    BY <1>3 DEF Next, insertRepository, purge, DeleteNext, deleteRow, deleteList, deleteKeys,
                deleteObject, deleteFail
  <2>2. ASSUME NEW r \in LiveRepos'
        PROVE  Counted(r)' \subseteq (IF r \in LiveRepos THEN Counted(r) ELSE {})
    <3>1. r \in Repo /\ row'[r] = "live"
      BY DEF LiveRepos, Live
    <3>2. CASE r \in LiveRepos
      <4>1. catalog'[r] \subseteq catalog[r]
        BY <1>1, <1>3, <3>1 DEF Next, insertRepository, purge, DeleteNext, deleteRow, deleteList,
                                deleteKeys, deleteObject, deleteFail, Typed
      <4> QED
        BY <2>1, <3>2, <4>1 DEF Counted
    <3>3. CASE r \notin LiveRepos
      <4>1. row[r] = "new" /\ catalog' = catalog
        <5>1. row[r] # "live"
          BY <3>1, <3>3 DEF LiveRepos, Live
        <5>2. ASSUME NEW x \in Repo, insertRepository(x) PROVE row[r] = "new" /\ catalog' = catalog
          BY <1>1, <3>1, <5>1, <5>2 DEF insertRepository, Typed
        <5>3. ASSUME NEW m \in deletes, deleteRow(m) PROVE FALSE
          <6>1. m.repo \in Repo
            BY <1>1 DEF Typed, Message
          <6> QED
            BY <1>1, <3>1, <5>1, <5>3, <6>1 DEF deleteRow, Typed
        <5> QED
          BY <1>3, <3>1, <5>1, <5>2, <5>3
             DEF Next, purge, DeleteNext, deleteList, deleteKeys, deleteObject, deleteFail
      <4>2. Counted(r) = {}
        BY <1>1, <3>1, <4>1 DEF Base, Stored, Counted
      <4> QED
        BY <2>1, <4>1, <4>2 DEF Counted
    <3> QED
      BY <3>2, <3>3
  <2> QED
    BY <2>1, <2>2, CountsKept
<1> QED
  BY <1>2, <1>3

-----------------------------------------------------------------------------
(* Theorems *)

LEMMA InitIInv ==
    ASSUME Init
    PROVE  IInv
<1>1. Typed
  BY NoPushTyped DEF Init, Typed, NoPush
<1>2. Begun = {}
  BY DEF Init, Begun, NoPush
<1>3. Finite
  BY <1>2, FS_EmptySet DEF Init, Finite
<1>4. Stored
  BY DEF Init, Stored, LiveRepos, Live, NoPush
<1>5. LiveRepos = {}
  BY DEF Init, LiveRepos, Live
<1>6. OwnerCounted /\ RepositoryCounted
  BY <1>5 DEF OwnerCounted, RepositoryCounted, CountedIn
<1>7. Erasing
  BY DEF Init, Erasing, DeletedIsErased
<1> QED
  BY <1>1, <1>3, <1>4, <1>6, <1>7 DEF IInv, Base

LEMMA AlwaysIInv == Spec => []IInv
<1>1. IInv /\ Next => IInv'
  BY NextBase, NextErasing, NextCounts DEF IInv
<1>2. IInv /\ UNCHANGED vars => IInv'
  <2> SUFFICES ASSUME IInv, UNCHANGED vars PROVE IInv'
    OBVIOUS
  <2>1. UNCHANGED <<row, push, r2, catalog, lease, deletes, doomed>>
    BY DEF vars
  <2>2. Base'
    BY <2>1 DEF IInv, Base, Typed, Finite, Stored, Begun, LiveRepos, Live
  <2>3. Erasing'
    BY <2>1 DEF IInv, Erasing, DeletedIsErased
  <2>4. OwnerCounted' /\ RepositoryCounted'
    BY <2>1 DEF IInv, OwnerCounted, RepositoryCounted, OwnerBound, RepositoryBound, CountedIn,
                Counted, LiveRepos, Live
  <2> QED
    BY <2>2, <2>3, <2>4 DEF IInv
<1>3. IInv /\ [Next]_vars => IInv'
  BY <1>1, <1>2
<1> QED
  BY <1>3, InitIInv, PTL DEF Spec

\* However many pushes to however many repositories of an owner measure and commit at
\* the same time, his active packs stay within both limits of his group
\* (executeReceivePipeline stages a pack before it measures).
THEOREM QuotaAlwaysHolds == Spec => []QuotaHolds
<1>1. IInv => QuotaHolds
  <2> SUFFICES ASSUME IInv PROVE QuotaHolds
    OBVIOUS
  <2>1. Base /\ Stored /\ OwnerCounted /\ RepositoryCounted
    BY DEF IInv, Base
  <2>2. Cardinality({}) = 0
    BY FS_EmptySet
  <2>3. ASSUME NEW r \in Repo, Live(r) PROVE Cardinality(catalog[r]) <= MaxRepositoryBytes
    <3>1. r \in LiveRepos /\ catalog[r] \in SUBSET Counted(r)
      BY <2>3 DEF LiveRepos, Counted
    <3>2. CASE catalog[r] = {}
      BY <2>2, <3>2, LifecycleAssumption
    <3>3. CASE catalog[r] # {}
      <4>1. PICK p \in catalog[r] : RepositoryBound(catalog[r], r, p)
        BY <2>1, <3>1, <3>3 DEF RepositoryCounted
      <4>2. push[p].pc = "done"
        BY <2>1 DEF Stored
      <4> QED
        BY <4>1, <4>2 DEF RepositoryBound
    <3> QED
      BY <3>2, <3>3
  <2> DEFINE S == UNION {catalog[r] : r \in {x \in Repo : Live(x)}}
  <2>4. Cardinality(S) <= MaxStorageBytes
    <3>1. S \in SUBSET CountedIn(LiveRepos)
      BY DEF CountedIn, Counted, LiveRepos
    <3>2. CASE S = {}
      BY <2>2, <3>2, LifecycleAssumption
    <3>3. CASE S # {}
      <4>1. PICK p \in S : OwnerBound(S, p)
        BY <2>1, <3>1, <3>3 DEF OwnerCounted
      <4>2. push[p].pc = "done"
        BY <2>1 DEF Stored
      <4> HIDE DEF S
      <4> QED
        BY <4>1, <4>2 DEF OwnerBound
    <3> QED
      BY <3>2, <3>3
  <2> QED
    BY <2>3, <2>4 DEF QuotaHolds
<1> QED
  BY <1>1, AlwaysIInv, PTL

\* Whichever steps of handleRepositoryDeleteMessage fail, whatever is replayed and
\* however many messages and pushes are under way, the deletion that is acknowledged
\* last has left nothing of the packs that were active when the row went.
THEOREM DeletionsErase == Spec => []DeletedIsErased
<1>1. IInv => DeletedIsErased
  BY DEF IInv, Erasing
<1> QED
  BY <1>1, AlwaysIInv, PTL
=============================================================================
