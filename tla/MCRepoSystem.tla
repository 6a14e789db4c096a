---------------------------- MODULE MCRepoSystem ----------------------------
(* Instances of RepoSystem for TLC. *)
EXTENDS RepoSystem

CONSTANTS main, o1

Cmd(r, old, new) == [ref |-> r, oldOid |-> old, newOid |-> new]

\* A branch created and then pushed to again
PushCommands == { <<Cmd(main, ZeroOid, o1)>>, <<Cmd(main, o1, o1)>> }

\* The operator empties the refs
OperatorRefs == {NoRefs}

\* Tokens are interchangeable (random UUIDs that are only compared), so only
\* the behaviours that hand them out in increasing order are explored.
TokensInOrder == \A t \in issued : 1 .. t \subseteq issued

\* A reader changes nothing, and nothing is promised to it without packs or for
\* longer than compaction-delete waits: only behaviours in which it has packs, and
\* ends by then, are explored.
ReadersEndInTime ==
    reader # NoReader => reader.keys # {} /\ now < reader.since + DELETE_DELAY
=============================================================================
