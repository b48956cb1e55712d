----------------------------- MODULE MCWorktree -----------------------------
(* Two paths; one content of each kind that matters: two committed versions *)
(* and one that only the user has, as long as the first version.            *)
EXTENDS Worktree
CONSTANTS a, b, v1, v2, mine
MCOrder == <<a, b>>
MCSizeOf == [o \in Oids |-> IF o = v2 THEN 2 ELSE 1]
MCOlder == [p \in Paths |-> v1]
MCNewer == [p \in Paths |-> IF p = a THEN v2 ELSE None]
MCCommits == {MCOlder, MCNewer}
MCSelections == {{a, b}, {a}}
MCUserBytes == {mine}
=============================================================================
