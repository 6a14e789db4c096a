---------------------------- MODULE MCPackStore ----------------------------
(***************************************************************************)
(* Small instances of PackStore: object ids are interchangeable.           *)
(***************************************************************************)
EXTENDS PackStore, TLC

Ids == Permutations(Oid)
=============================================================================
