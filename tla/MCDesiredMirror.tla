--------------------------- MODULE MCDesiredMirror ---------------------------
(* Model values for the runs of DesiredMirror. *)
EXTENDS DesiredMirror, TLC

CONSTANTS p1, p2, x1, x2, f, s1, s2

\* A flat file, and a tree in which the two paths hash to different shards.
MCLevelOf == [s \in Shards |-> IF s = f THEN 0 ELSE 1]

MCShardOf == [d \in Levels |->
               [x \in Paths |-> IF d = 0 THEN f ELSE IF x = x1 THEN s1 ELSE s2]]

\* A flat lock stays flat, and one about to be sharded may still be flat.
MCDepthsOf == [t \in Targets |-> 0 .. t]

ASSUME FlatHistory

MCKindsOf == (p1 :> {"add", "rm"}) @@ (p2 :> {"mv", "sync"})
=============================================================================
