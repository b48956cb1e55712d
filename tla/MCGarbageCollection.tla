------------------------ MODULE MCGarbageCollection ------------------------
(***************************************************************************)
(* Small instances of GarbageCollection: two paths of different shards, an *)
(* object that is tracked, and one that only a commit and another          *)
(* repository name.                                                        *)
(***************************************************************************)
EXTENDS GarbageCollection

CONSTANTS p, q, s1, s2, tracked, foreign, other

MCSlotOf == [x \in Paths |-> IF x = q THEN s2 ELSE s1]

RowsWith(x) == [y \in Paths |-> IF y = x THEN tracked ELSE NoOid]

\* Nothing tracked, or one file.
MCStartRows == {NoRows, RowsWith(p)}
MCOneRow == {RowsWith(p)}

MCNothing == {}
MCPast == {foreign}
MCRepoOids == [x \in Repos |-> {foreign}]
=============================================================================
