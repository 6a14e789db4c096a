------------------------------ MODULE MCRepoDO ------------------------------
(* Instances of RepoDO for TLC. *)
EXTENDS RepoDO

CONSTANTS main, bad, o1, o2

Cmd(r, old, new) == [ref |-> r, oldOid |-> old, newOid |-> new]

\* create, update, delete, an invalid name, and two commands on one ref
Commands ==
    { <<Cmd(main, ZeroOid, o1)>>,
      <<Cmd(main, o1, o2)>>,
      <<Cmd(main, o2, o1)>>,
      <<Cmd(main, o2, ZeroOid)>>,
      <<Cmd(bad, ZeroOid, o1)>>,
      <<Cmd(main, ZeroOid, o1), Cmd(main, ZeroOid, o2)>> }

\* The operator points main at an object by hand
OperatorRefs == {[NoRefs EXCEPT ![main] = o1]}

OperatorHeads == {[target |-> main, oid |-> ZeroOid]}

\* Tokens are interchangeable (random UUIDs that are only compared), so only
\* the behaviours that hand them out in increasing order are explored.
TokensInOrder == \A t \in issued : 1 .. t \subseteq issued
=============================================================================
