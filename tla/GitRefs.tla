------------------------------ MODULE GitRefs ------------------------------
(***************************************************************************)
(* The ref arithmetic of a push: validating the ref commands of a          *)
(* receive-pack request against the stored refs, applying them, and        *)
(* resolving HEAD afterwards.                                              *)
(*                                                                         *)
(* The stored array of {name, oid} is a total function from names to       *)
(* oids, with ZeroOid for a name that is absent: the code reads the array  *)
(* through a Map keyed by name and never stores the all-zero oid.          *)
(***************************************************************************)
EXTENDS Naturals, Sequences

CONSTANTS
    RefName,       \* ref names a client or the operator may send
    ValidRefName,  \* those isValidRefName accepts
    Oid,           \* object ids of the objects a ref may point at
    ZeroOid,       \* the all-zero oid: "no object"
    DefaultTarget  \* DEFAULT_HEAD.target, refs/heads/main

ASSUME RefAssumption ==
    /\ ValidRefName \subseteq RefName
    /\ DefaultTarget \in RefName
    /\ ZeroOid \notin Oid

OidOrZero == Oid \cup {ZeroOid}

Refs == [RefName -> OidOrZero]

NoRefs == [r \in RefName |-> ZeroOid]

\* {target, oid} for a born head, {target, unborn: true} when oid is ZeroOid
HeadState == [target : RefName, oid : OidOrZero]

DEFAULT_HEAD == [target |-> DefaultTarget, oid |-> ZeroOid]

Command == [ref : RefName, oldOid : OidOrZero, newOid : OidOrZero]

isDelete(c) == c.newOid = ZeroOid

(***************************************************************************)
(* One command against the refs as they are before any command is applied. *)
(* A deletion needs the ref to exist; a creation or an update needs the    *)
(* old oid the client saw, the zero oid standing for absence.              *)
(***************************************************************************)
validateReceiveCommand(current, c) ==
    /\ current[c.ref] = c.oldOid
    /\ isDelete(c) => current[c.ref] # ZeroOid

validateReceiveCommands(current, cmds) ==
    \A i \in DOMAIN cmds : validateReceiveCommand(current, cmds[i])

allValidRefNames(cmds) == \A i \in DOMAIN cmds : cmds[i].ref \in ValidRefName

\* The commands are applied in order over one Map, so the last one wins.
lastCommandFor(cmds, r) ==
    CHOOSE i \in DOMAIN cmds :
        /\ cmds[i].ref = r
        /\ \A j \in DOMAIN cmds : cmds[j].ref = r => j <= i

applyReceiveCommands(current, cmds) ==
    [r \in RefName |->
        IF \E i \in DOMAIN cmds : cmds[i].ref = r
        THEN cmds[lastCommandFor(cmds, r)].newOid
        ELSE current[r]]

\* resolveHeadAfterReceive and resolveHead: the target stays, its oid follows
\* the refs.
resolveHead(stored, refs) == [target |-> stored.target, oid |-> refs[stored.target]]

hasNonDelete(cmds) == \E i \in DOMAIN cmds : ~ isDelete(cmds[i])

newTips(cmds) == {cmds[i].newOid : i \in DOMAIN cmds} \ {ZeroOid}
=============================================================================
