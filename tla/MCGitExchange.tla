--------------------------- MODULE MCGitExchange ---------------------------
(***************************************************************************)
(* A small history: two roots c and r, a merge m of them whose tree has a  *)
(* gitlink, and a tag g of the merge.                                      *)
(***************************************************************************)
EXTENDS GitExchange, TLC

CONSTANTS c, m, r, g, t, u, b, sub

MCOid == {c, m, r, g, t, u, b}
MCGitlink == {sub}

MCKind == [o \in MCOid |-> CASE o \in {c, m, r} -> "commit"
                             [] o = g -> "tag"
                             [] o \in {t, u} -> "tree"
                             [] OTHER -> "blob"]

MCLinks == [o \in MCOid |->
    CASE o = c -> <<t>>
      [] o = r -> <<u>>
      [] o = m -> <<u, c, r>>
      [] o = g -> <<m>>
      [] o = t -> <<b>>
      [] o = u -> <<b, sub>>
      [] OTHER -> <<>>]
=============================================================================
