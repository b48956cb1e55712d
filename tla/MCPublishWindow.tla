-------------------------- MODULE MCPublishWindow --------------------------
(***************************************************************************)
(* Small instances of PublishWindow: a remote that probes in batches and   *)
(* one that does not, an object owed to both, and buffers so large that    *)
(* bytes run out before jobs do, of one remote and of the operation.       *)
(***************************************************************************)
EXTENDS PublishWindow

CONSTANTS disk, net, o1, o2, o3

Owed(r, o) == [remote |-> r, oid |-> o]

\* o1 is owed to both remotes, to one of them behind a failure of o2.
MCShared == <<Owed(net, o1), Owed(disk, o2), Owed(disk, o1), Owed(disk, o3)>>
\* Every oid is owed to one remote.
MCDistinct == <<Owed(net, o1), Owed(disk, o2), Owed(disk, o3)>>

MCBytesOf == [i \in Indices |-> IF i \in {1, 3} THEN 2 ELSE 1]
MCProbeLimit == [r \in Remotes |-> IF r = disk THEN 2 ELSE 1]
=============================================================================
