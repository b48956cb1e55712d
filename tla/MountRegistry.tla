--------------------------- MODULE MountRegistry ---------------------------
(***************************************************************************)
(* What `gat mount` promises, with nothing said about how: a mount command *)
(* changes the configuration and every row it owns in one step, and a      *)
(* command that is interrupted either happened or did not.  MountJournal   *)
(* is shown to implement this module.                                      *)
(***************************************************************************)
CONSTANTS
  Names,     \* mount names
  Targets,   \* disjoint destination subtrees
  Leaves,    \* paths below a target
  Versions,  \* snapshots of the source repository
  Content,   \* Content[v]: the leaves the selection takes from snapshot v
  None,      \* not mounted; no row
  Root       \* a row the repository tracks itself

VARIABLES
  mounts,    \* the mount each name stands for: <<target, snapshot>>, or None
  rows       \* the snapshot each desired row came from, Root, or None

Paths == Targets \X Leaves
Under(t) == {x \in Paths : x[1] = t}

\* No row is there and no other name has the target.
Free(n, t) == \A m \in Names \ {n} : mounts[m] # None => mounts[m][1] # t
Vacant(t) == \A x \in Under(t) : rows[x] = None

\* The rows of snapshot v at t over the rows r.
Import(r, t, v) ==
  [x \in Paths |-> IF x[1] = t /\ x[2] \in Content[v] THEN v ELSE r[x]]
Without(r, t) == [x \in Paths |-> IF x[1] = t THEN None ELSE r[x]]

Init ==
  /\ mounts = [n \in Names |-> None]
  /\ rows \in [Paths -> {None, Root}]

Add(n, t, v) ==
  /\ mounts[n] = None /\ Free(n, t) /\ Vacant(t)
  /\ mounts' = [mounts EXCEPT ![n] = <<t, v>>]
  /\ rows' = Import(rows, t, v)

Update(n, t, v) ==
  /\ mounts[n] # None /\ Free(n, t)
  /\ t # mounts[n][1] => Vacant(t)
  /\ mounts' = [mounts EXCEPT ![n] = <<t, v>>]
  /\ rows' = Import(Without(rows, mounts[n][1]), t, v)

\* Also what a failed `mount add` amounts to, once it was taken back.
Remove(n) ==
  /\ mounts[n] # None
  /\ mounts' = [mounts EXCEPT ![n] = None]
  /\ rows' = Without(rows, mounts[n][1])

Detach(n) ==
  /\ mounts[n] # None
  /\ mounts' = [mounts EXCEPT ![n] = None]
  /\ UNCHANGED rows

Owned(x) == \E n \in Names : mounts[n] # None /\ mounts[n][1] = x[1]

\* The repository's own tracking; what it adds may be below a target (see
\* MountJournal!OwnsTarget), what it removes never is.
Track(x) == rows' = [rows EXCEPT ![x] = Root] /\ UNCHANGED mounts
Untrack(x) == ~Owned(x) /\ rows' = [rows EXCEPT ![x] = None] /\ UNCHANGED mounts

Next ==
  \/ \E n \in Names, t \in Targets, v \in Versions : Add(n, t, v) \/ Update(n, t, v)
  \/ \E n \in Names : Remove(n) \/ Detach(n)
  \/ \E x \in Paths : Track(x) \/ Untrack(x)

Spec == Init /\ [][Next]_<<mounts, rows>>
============================================================================
