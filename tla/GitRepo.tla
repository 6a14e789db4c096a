------------------------------ MODULE GitRepo ------------------------------
(***************************************************************************)
(* What a repository promises its users, with no packs, leases, versions,  *)
(* alarms or clock: a ref map and a set of objects.  A push replaces refs  *)
(* by compare-and-swap and adds its objects in the same step; nothing else *)
(* but erasing the whole repository ever takes an object away.             *)
(***************************************************************************)
EXTENDS GitRefs

CONSTANTS
    Object,
    CommandLists,
    StagedObjects,
    AdminRefs,
    AdminHeads,
    AdminOid

VARIABLES refs, head, objects

repoVars == <<refs, head, objects>>

Init == refs = NoRefs /\ head = DEFAULT_HEAD /\ objects = {}

\* A push of objs: every command applies or none does, and no ref is left
\* pointing at an object the repository does not hold.
Push(cmds, objs) ==
    /\ allValidRefNames(cmds)
    /\ validateReceiveCommands(refs, cmds)
    /\ newTips(cmds) \subseteq objects \cup objs
    /\ refs' = applyReceiveCommands(refs, cmds)
    /\ head' = resolveHead(head, refs')
    /\ objects' = IF hasNonDelete(cmds) THEN objects \cup objs ELSE objects

ResolveHead ==
    /\ head' = resolveHead(head, refs)
    /\ UNCHANGED <<refs, objects>>

OperatorSetsRefs(newRefs) ==
    /\ \A r \in RefName : newRefs[r] \in AdminOid \cup {ZeroOid} \cup objects
    /\ refs' = newRefs
    /\ UNCHANGED <<head, objects>>

OperatorSetsHead(newHead) ==
    /\ head' = newHead
    /\ UNCHANGED <<refs, objects>>

Erase == refs' = NoRefs /\ head' = DEFAULT_HEAD /\ objects' = {}

Next ==
    \/ \E cmds \in CommandLists, objs \in StagedObjects : Push(cmds, objs)
    \/ ResolveHead
    \/ \E newRefs \in AdminRefs : OperatorSetsRefs(newRefs)
    \/ \E newHead \in AdminHeads : OperatorSetsHead(newHead)
    \/ Erase

Spec == Init /\ [][Next]_repoVars
=============================================================================
