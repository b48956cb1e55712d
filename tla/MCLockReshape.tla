---------------------------- MODULE MCLockReshape ----------------------------
(* Model values for the runs of LockReshape. *)
EXTENDS LockReshape

CONSTANTS x1, x2, s1, s2

\* At every positive depth the two paths hash to different shard files, the
\* finest interleaving of a sharded publication; a flat file is one shard.
MCShardOf == [d \in Levels |->
               [x \in Paths |-> IF d > 0 /\ x = x2 THEN s2 ELSE s1]]
=============================================================================
