---------------------------- MODULE DesiredMirror ----------------------------
(***************************************************************************)
(* The desired mirror: the SQLite copy of `gat.lock` that every command    *)
(* works on, the shard catalog that says which bytes it was read from, and *)
(* the ways the two files meet -- refresh, the pinned session of           *)
(* `gat add`, the locked edits of `gat rm` and `gat mv`, publication, and  *)
(* the revalidated reconciliation of `gat sync` -- while git rewrites      *)
(* `gat.lock` without asking.                                              *)
(*                                                                         *)
(* Source: gat-io/src/state/{reconciliation,desired,repository}.rs,        *)
(* gat-io/src/lock/{observation,identity,persistence}.rs and               *)
(* gat-engine/src/{repository,mutation,operation}.rs.                      *)
(*                                                                         *)
(* A stat proof is modelled by what it tells: it is TRUE as long as the    *)
(* shard file has not been rewritten since the proof was taken.  A rewrite *)
(* that keeps size and modification time is outside the model, as it is    *)
(* outside the promise of StatProof.                                       *)
(***************************************************************************)
EXTENDS Naturals

CONSTANTS
  Procs,        \* processes (commands) working on one repository
  Paths, Oids,  \* tracked paths and object ids
  Levels,       \* shard depths in use; 0 is the flat file
  Shards,       \* names of shard files
  ShardOf,      \* ShardOf[d][x]: the shard file of path x at depth d
  LevelOf,      \* LevelOf[s]: the depth shard s belongs to
  Targets,      \* values of lock.shard_levels
  DepthsOf,     \* DepthsOf[t]: the depths of the locks git knows, t configured
  KindsOf,      \* KindsOf[p]: the commands process p runs
  GitMoves,     \* bound: how often git writes gat.lock
  None          \* nothing: no file, no row, no owner

ASSUME LevelsAssumption == Levels \subseteq Nat /\ 0 \in Levels /\ Targets \subseteq Levels
ASSUME DepthsAssumption == DepthsOf \in [Targets -> SUBSET Levels]
\* Where the flat file is configured, no commit git knows has a shard tree.  Not
\* an assumption of the model, but of what is proved about the mirror's rows.
FlatHistory == 0 \in Targets => DepthsOf[0] = {0}

ASSUME ShardAssumption ==
  /\ LevelOf \in [Shards -> Levels]
  /\ ShardOf \in [Levels -> [Paths -> Shards]]
  /\ \A d \in Levels, x \in Paths : LevelOf[ShardOf[d][x]] = d
  /\ \E f \in Shards : \A s \in Shards : LevelOf[s] = 0 <=> s = f
ASSUME MovesAssumption == GitMoves \in Nat
ASSUME NoneAssumption == None \notin Procs \cup Oids \cup Paths

VARIABLES
  files,    \* gat.lock: the rows of each shard file, or None
  mirror,   \* table `state`: the desired oid and owning shard of each path
  catalog,  \* table `lock_shards`: identity and stat proof of each shard
  owner,    \* the process holding the RepoLock
  pc,       \* where each process is
  job,      \* the local variables of each process
  moves,    \* how often git has written so far
  target    \* the configured lock.shard_levels

vars == <<files, mirror, catalog, owner, pc, job, moves, target>>

-----------------------------------------------------------------------------
(* Rows, shard files and what was seen of them. *)

Rows == [Paths -> Oids \cup {None}]

NoRows == [x \in Paths |-> None]

Row == [oid : Oids, shard : Shards]

\* A shard identity is the hash of its bytes: equal exactly for equal rows.
Stored == [rows : Rows, proof : BOOLEAN]

\* A file, an entry and a depth are none of them missing.
ASSUME NoValueAssumption == None \notin Rows \cup Row \cup Stored \cup Levels

NoShards == [s \in Shards |-> None]

Slice(m, s) ==
  [x \in Paths |-> IF ShardOf[LevelOf[s]][x] = s THEN m[x] ELSE None]

\* What a complete publication of m at depth d leaves on disk.
Layout(m, d) ==
  [s \in Shards |->
     IF LevelOf[s] = d /\ (d = 0 \/ Slice(m, s) # NoRows) THEN Slice(m, s) ELSE None]

Present(f) == {s \in Shards : f[s] # None}

\* shard_topology: a listing that finds shard files of two depths is an error.
OneLevel(S) == \A s, u \in S : LevelOf[s] = LevelOf[u]

\* on_disk_shape: a flat file and a shard tree cannot coexist.
Shape(f) ==
  IF Present(f) = {} THEN None ELSE LevelOf[CHOOSE s \in Present(f) : TRUE]

Merged(c) ==
  [x \in Paths |->
     IF \E s \in Shards : c[s] # None /\ c[s][x] # None
     THEN c[CHOOSE s \in Shards : c[s] # None /\ c[s][x] # None][x]
     ELSE None]

LiveRows == Merged(files)

MirrorRows == [x \in Paths |-> IF mirror[x] = None THEN None ELSE mirror[x].oid]

\* CanonicalDesiredIdentity: the set of (shard, identity) pairs.
Identity(c) == [s \in Shards |-> IF c[s] = None THEN None ELSE c[s].rows]

\* The proofs taken of the shard files in S stop matching.
Unproven(c, S) ==
  [s \in Shards |-> IF s \in S /\ c[s] # None THEN [c[s] EXCEPT !.proof = FALSE] ELSE c[s]]

-----------------------------------------------------------------------------
(* Processes. *)

Kinds == {"none", "add", "rm", "mv", "sync"}

PCs == {"idle", "capture", "refresh", "pinned", "captured", "recheck", "ready",
        "publish", "reconcile"}

NoJob == [kind |-> "none", from |-> None, to |-> None, oid |-> None,
          reused |-> FALSE, inc |-> FALSE, quiet |-> FALSE,
          todo |-> {}, touched |-> {}, seen |-> NoShards, now |-> NoShards]

\* quiet is history: git has not written since this process took the lock.
JobType ==
  [kind : Kinds, from : Paths \cup {None}, to : Paths \cup {None},
   oid : Oids \cup {None}, reused : BOOLEAN, inc : BOOLEAN, quiet : BOOLEAN,
   todo : SUBSET Shards, touched : SUBSET Shards,
   seen : [Shards -> Stored \cup {None}], now : [Shards -> Stored \cup {None}]]

\* The repository as cloned: some lock, and a state database nobody filled.
Init ==
  /\ target \in Targets
  /\ \/ files = NoShards
     \/ \E m \in Rows, d \in DepthsOf[target] : files = Layout(m, d)
  /\ mirror = [x \in Paths |-> None]
  /\ catalog = NoShards
  /\ owner = None
  /\ pc = [p \in Procs |-> "idle"]
  /\ job = [p \in Procs |-> NoJob]
  /\ moves = 0

\* RepoLock::acquire_repository, then step l of job j.
Lock(p, l, j) ==
  /\ owner = None
  /\ owner' = p
  /\ pc' = [pc EXCEPT ![p] = l]
  /\ job' = [job EXCEPT ![p] = [j EXCEPT !.quiet = TRUE]]

Release(p) ==
  /\ owner' = None
  /\ pc' = [pc EXCEPT ![p] = "idle"]
  /\ job' = [job EXCEPT ![p] = NoJob]

Goto(p, l, j) ==
  /\ pc' = [pc EXCEPT ![p] = l]
  /\ job' = [job EXCEPT ![p] = j]

\* The listing of list_shard_files starts every observation.  It fails on a
\* tree of mixed depth: whoever lists asks Listable, or see Abort.
Listable == OneLevel(Present(files))

Listed(j) == [j EXCEPT !.todo = Present(files), !.now = NoShards]

-----------------------------------------------------------------------------
(* Opening. *)

\* DesiredStateSession::open: refresh under the lock, to be pinned.
OpenAdd(p, x, o) ==
  /\ pc[p] = "idle"
  /\ "add" \in KindsOf[p]
  /\ Listable
  /\ Lock(p, "refresh",
          Listed([NoJob EXCEPT !.kind = "add", !.to = x, !.oid = o]))
  /\ UNCHANGED <<files, mirror, catalog, moves, target>>

\* Fault: an edit trusts the mirror as the last command left it.
OpenEditUnrefreshed(p, x, y) ==
  LET kind == IF y = None THEN "rm" ELSE "mv"
  IN  /\ pc[p] = "idle"
      /\ kind \in KindsOf[p]
      /\ x # y
      /\ Lock(p, "ready", [NoJob EXCEPT !.kind = kind, !.from = x, !.to = y,
                                       !.inc = (Shape(files) = target)])
      /\ UNCHANGED <<files, mirror, catalog, moves, target>>

\* DesiredMutationSession::acquire for `gat rm x` and `gat mv x y`: the shape
\* first, then a refresh, all under the lock.
OpenEdit(p, x, y) ==
  LET kind == IF y = None THEN "rm" ELSE "mv"
  IN  /\ pc[p] = "idle"
      /\ kind \in KindsOf[p]
      /\ x # y
      /\ Listable
      /\ Lock(p, "refresh",
              Listed([NoJob EXCEPT !.kind = kind, !.from = x, !.to = y,
                                   !.inc = (Shape(files) = target)]))
      /\ UNCHANGED <<files, mirror, catalog, moves, target>>

\* current_desired_revision of an operation's snapshot: no lock.
OpenSync(p) ==
  /\ pc[p] = "idle"
  /\ "sync" \in KindsOf[p]
  /\ Listable
  /\ Goto(p, "capture", Listed([NoJob EXCEPT !.kind = "sync"]))
  /\ UNCHANGED <<files, mirror, catalog, owner, moves, target>>

-----------------------------------------------------------------------------
(* Observation: resolve_shard_identity, shard by shard. *)

\* The catalog an observation is checked against: into_mutation brings the
\* one its session was refreshed with, everybody else reads the database.
Prior(p) ==
  IF job[p].kind = "add" /\ pc[p] = "recheck" THEN job[p].seen ELSE catalog

\* Fault: a recorded identity is believed whether or not its proof matches.
ObserveUnproven(p, s) ==
  /\ pc[p] \in {"capture", "refresh", "recheck"}
  /\ s \in job[p].todo
  /\ files[s] # None
  /\ job' = [job EXCEPT ![p].todo = @ \ {s},
                        ![p].now[s] = IF Prior(p)[s] # None THEN Prior(p)[s]
                                      ELSE [rows |-> files[s], proof |-> TRUE]]
  /\ UNCHANGED <<files, mirror, catalog, owner, pc, moves, target>>

\* A matching proof stands for the bytes; otherwise they are read coherently.
\* A shard that vanished since the listing is an error: see Abort.
Observe(p, s) ==
  LET prior == Prior(p)[s]
  IN  /\ pc[p] \in {"capture", "refresh", "recheck"}
      /\ s \in job[p].todo
      /\ files[s] # None
      /\ job' = [job EXCEPT ![p].todo = @ \ {s},
                            ![p].now[s] = IF prior # None /\ prior.proof THEN prior
                                          ELSE [rows |-> files[s], proof |-> TRUE]]
      /\ UNCHANGED <<files, mirror, catalog, owner, pc, moves, target>>

Observed(p, l) == pc[p] = l /\ job[p].todo = {}

EndCapture(p) ==
  /\ Observed(p, "capture")
  /\ Goto(p, "captured", [job[p] EXCEPT !.seen = Unproven(job[p].now, Shards),
                                        !.now = NoShards])
  /\ UNCHANGED <<files, mirror, catalog, owner, moves, target>>

-----------------------------------------------------------------------------
(* refresh_desired_state_inner *)

Changed(now) ==
  {s \in Shards : now[s] # None /\ (catalog[s] = None \/ catalog[s].rows # now[s].rows)}

Removed(now) == {s \in Shards : catalog[s] # None /\ now[s] = None}

\* apply_shard_refresh_tx: rows of removed shards go, changed shards are
\* rewritten row by row, rows of unchanged shards are not looked at.
RefreshedFrom(now, gone) ==
  [x \in Paths |->
     IF \E s \in Changed(now) : now[s].rows[x] # None
     THEN LET s == CHOOSE u \in Changed(now) : now[u].rows[x] # None
          IN  [oid |-> now[s].rows[x], shard |-> s]
     ELSE IF mirror[x] # None /\ mirror[x].shard \in gone \cup Changed(now)
     THEN None
     ELSE mirror[x]]

\* Fault: shards that disappeared keep their rows.
RefreshedKeeping(now) == RefreshedFrom(now, {})

Refreshed(now) == RefreshedFrom(now, Removed(now))

\* Fault: require_desired_identity is not asked.
ApplyUnasked(p) ==
  /\ Observed(p, "refresh")
  /\ mirror' = Refreshed(job[p].now)
  /\ catalog' = job[p].now
  /\ CASE job[p].kind = "add" ->
            /\ owner' = None
            /\ Goto(p, "pinned", [job[p] EXCEPT !.seen = job[p].now, !.now = NoShards])
       [] job[p].kind \in {"rm", "mv"} ->
            /\ Goto(p, "ready", [job[p] EXCEPT !.now = NoShards])
            /\ UNCHANGED owner
       [] OTHER ->
            /\ Goto(p, "reconcile", [job[p] EXCEPT !.now = NoShards])
            /\ UNCHANGED owner
  /\ UNCHANGED <<files, moves, target>>

\* One SQLite transaction; then the add session is pinned and lets go of the
\* lock, the edits carry on, and sync compares what it got with what it saw.
\* partition_reusable decides on the pinned rows whether an added file is
\* `unchanged_desired`.
ApplyRefresh(p) ==
  LET j == job[p]
      now == j.now
  IN  /\ Observed(p, "refresh")
      /\ mirror' = Refreshed(now)
      /\ catalog' = now
      /\ CASE j.kind = "add" ->
                /\ owner' = None
                /\ \E r \in {FALSE, mirror'[j.to] # None /\ mirror'[j.to].oid = j.oid} :
                     Goto(p, "pinned", [j EXCEPT !.seen = now, !.now = NoShards,
                                                 !.reused = r, !.quiet = FALSE])
           [] j.kind \in {"rm", "mv"} ->
                /\ Goto(p, "ready", [j EXCEPT !.now = NoShards])
                /\ UNCHANGED owner
           [] j.kind = "sync" /\ Identity(now) = Identity(j.seen) ->
                /\ Goto(p, "reconcile", [j EXCEPT !.now = NoShards])
                /\ UNCHANGED owner
           [] OTHER -> Release(p)
      /\ UNCHANGED <<files, moves, target>>

-----------------------------------------------------------------------------
(* Revalidation. *)

\* Operation::mutate and acquire_mutation_access: the captured revision is
\* observed again, now under the lock.
Revalidate(p) ==
  /\ pc[p] = "captured"
  /\ Listable
  /\ Lock(p, "recheck", Listed(job[p]))
  /\ UNCHANGED <<files, mirror, catalog, moves, target>>

\* into_mutation: the shape decides how to publish -- nothing tracked counts
\* as the target shape -- before the identity is observed again.
IntoMutation(p) ==
  LET j == job[p]
  IN  /\ pc[p] = "pinned"
      /\ Listable
      /\ Lock(p, "recheck",
              Listed([j EXCEPT !.inc = \/ Shape(files) = target
                                       \/ Shape(files) = None /\ j.seen = NoShards]))
      /\ UNCHANGED <<files, mirror, catalog, moves, target>>

\* Fault: the lock is dropped once the revision is found current.
RecheckedUnlocked(p) ==
  LET next == IF job[p].kind = "sync" THEN "refresh" ELSE "ready"
  IN  /\ Observed(p, "recheck")
      /\ IF Identity(job[p].now) = Identity(job[p].seen)
         THEN Goto(p, next, Listed(job[p])) /\ owner' = None
         ELSE Release(p)
      /\ UNCHANGED <<files, mirror, catalog, moves, target>>

\* StaleDesiredRevisionError and DesiredMutationOpenError::Stale give up.
\* Otherwise sync refreshes, and the add drops its pinned snapshot.
Rechecked(p) ==
  LET j == job[p]
      next == IF j.kind = "sync" THEN "refresh" ELSE "ready"
  IN  /\ Observed(p, "recheck")
      /\ IF Identity(j.now) = Identity(j.seen)
         THEN /\ j.kind = "sync" => Listable
              /\ Goto(p, next, Listed(j))
              /\ UNCHANGED owner
         ELSE Release(p)
      /\ UNCHANGED <<files, mirror, catalog, moves, target>>

-----------------------------------------------------------------------------
(* Publication. *)

\* The desired rows once the mutation of job j is applied.
After(j) ==
  [x \in Paths |->
     CASE x = j.to /\ j.kind = "add" -> [oid |-> j.oid, shard |-> ShardOf[target][x]]
       [] x = j.to /\ j.kind = "mv" -> [oid |-> mirror[j.from].oid, shard |-> ShardOf[target][x]]
       [] x = j.from -> None
       [] OTHER -> mirror[x]]

AfterRows(j) == [x \in Paths |-> IF After(j)[x] = None THEN None ELSE After(j)[x].oid]

\* desired_rows_by_shard_ids after the mutation.
ShardRows(j, s) ==
  [x \in Paths |->
     IF After(j)[x] # None /\ After(j)[x].shard = s THEN After(j)[x].oid ELSE None]

\* The shards a mutation touches: those that owned its paths and those that
\* will.  An added row that is already there touches nothing.
TouchedBy(j) ==
  IF j.kind = "add" /\ (j.reused \/ (mirror[j.to] # None /\ mirror[j.to].oid = j.oid))
  THEN {}
  ELSE {mirror[x].shard : x \in {y \in {j.from, j.to} \cap Paths : mirror[y] # None}}
       \cup {ShardOf[target][x] : x \in {j.to} \cap Paths}

\* What a command that rewrites the shard files in S does to the proofs held
\* of them, its own next local state being j.
Rewrite(p, S, j) ==
  /\ catalog' = Unproven(catalog, S)
  /\ job' = [q \in Procs |->
               IF q = p THEN [j EXCEPT !.seen = Unproven(@, S)]
               ELSE [job[q] EXCEPT !.seen = Unproven(@, S), !.now = Unproven(@, S)]]

\* The flat file is published as a whole, whatever was touched; a complete
\* publication covers every shard.
Scope(j) ==
  CASE ~j.inc -> Shards
    [] j.inc /\ TouchedBy(j) # {} /\ target = 0 -> {s \in Shards : LevelOf[s] = 0}
    [] OTHER -> TouchedBy(j)

\* The publication starts; there is none for a removal or a move of nothing.
BeginPublish(p) ==
  LET j == job[p]
  IN  /\ pc[p] = "ready"
      /\ j.from # None => mirror[j.from] # None
      /\ Scope(j) # {}
      /\ Goto(p, "publish", [j EXCEPT !.now = NoShards, !.touched = Scope(j), !.todo = Scope(j)])
      /\ UNCHANGED <<files, mirror, catalog, owner, moves, target>>

\* Nothing to publish: an untracked path, or an added row that is there.
NothingToDo(p) ==
  LET j == job[p]
  IN  /\ pc[p] = "ready"
      /\ (j.from # None /\ mirror[j.from] = None) \/ Scope(j) = {}
      /\ Release(p)
      /\ UNCHANGED <<files, mirror, catalog, moves, target>>

\* LockStore::publish_complete_with_evidence, one step here: LockReshape shows
\* what happens inside it.  An empty lock cannot be reshaped into a tree.
PublishComplete(p) ==
  LET j == job[p]
      new == Layout(AfterRows(j), target)
  IN  /\ pc[p] = "publish"
      /\ ~j.inc
      /\ j.todo # {}
      /\ AfterRows(j) = NoRows /\ target # 0 => Shape(files) \in {None, target}
      /\ files' = new
      /\ Rewrite(p, Shards, [j EXCEPT !.todo = {},
           !.now = [s \in Shards |->
                      IF new[s] = None THEN None ELSE [rows |-> new[s], proof |-> TRUE]]])
      /\ UNCHANGED <<mirror, owner, pc, moves, target>>

\* publish_flat_shard_streaming: all rows, always written, in place of a tree
\* if git put one there; no rows, no file.
PublishFlat(p) ==
  LET j == job[p]
      m == AfterRows(j)
  IN  /\ pc[p] = "publish"
      /\ j.inc
      /\ target = 0
      /\ \E s \in j.todo :
           /\ files' = [NoShards EXCEPT ![s] = IF m = NoRows THEN None ELSE m]
           /\ Rewrite(p, Shards, [j EXCEPT !.todo = {},
                !.now[s] = IF m = NoRows THEN None ELSE [rows |-> m, proof |-> TRUE]])
      /\ UNCHANGED <<mirror, owner, pc, moves, target>>

\* create_dir_all fails on a flat gat.lock, relative_shard_path on its name:
\* both are errors, see Abort.
InTree(s) == LevelOf[s] # 0 /\ Shape(files) # 0

\* save_sparse_shards removes the shards left empty before it writes any.
DropShard(p, s) ==
  LET j == job[p]
  IN  /\ pc[p] = "publish"
      /\ j.inc
      /\ target # 0
      /\ InTree(s)
      /\ s \in j.todo
      /\ ShardRows(j, s) = NoRows
      /\ files' = [files EXCEPT ![s] = None]
      /\ Rewrite(p, {s}, [j EXCEPT !.todo = @ \ {s}])
      /\ UNCHANGED <<mirror, owner, pc, moves, target>>

\* publish_rendered_shard, in parallel: a shard proven or read to hold the
\* rows already keeps its file, any other is replaced.
PublishShard(p, s) ==
  LET j == job[p]
      new == ShardRows(j, s)
      prior == catalog[s]
      same == IF prior # None /\ prior.proof THEN prior.rows = new ELSE files[s] = new
      done == [j EXCEPT !.todo = @ \ {s}, !.now[s] = [rows |-> new, proof |-> TRUE]]
  IN  /\ pc[p] = "publish"
      /\ j.inc
      /\ target # 0
      /\ InTree(s)
      /\ s \in j.todo
      /\ \A u \in j.todo : ShardRows(j, u) # NoRows
      /\ IF same
         THEN job' = [job EXCEPT ![p] = done] /\ UNCHANGED <<files, catalog>>
         ELSE files' = [files EXCEPT ![s] = new] /\ Rewrite(p, {s}, done)
      /\ UNCHANGED <<mirror, owner, pc, moves, target>>

Published(p) == pc[p] = "publish" /\ job[p].todo = {}

\* The mirror after publication: the mutated rows, or for a complete
\* publication what apply_full_lock_evidence_tx makes of its receipt.
Mirrored(j) ==
  IF j.inc
  THEN After(j)
  ELSE [x \in Paths |->
          IF AfterRows(j)[x] = None THEN None
          ELSE [oid |-> AfterRows(j)[x], shard |-> ShardOf[target][x]]]

\* Fault: the shards' evidence is what is on disk by now, not what was written.
CommitRestat(p) ==
  /\ Published(p)
  /\ mirror' = Mirrored(job[p])
  /\ catalog' = [s \in Shards |->
       IF s \notin job[p].touched THEN catalog[s]
       ELSE IF job[p].now[s] = None THEN None
       ELSE [rows |-> job[p].now[s].rows, proof |-> TRUE]]
  /\ Release(p)
  /\ UNCHANGED <<files, moves, target>>

\* desired_write commits: rows, identities and proofs in one transaction.
Commit(p) ==
  LET j == job[p]
  IN  /\ Published(p)
      /\ mirror' = Mirrored(j)
      /\ catalog' = [s \in Shards |-> IF s \in j.touched THEN j.now[s] ELSE catalog[s]]
      /\ Release(p)
      /\ UNCHANGED <<files, moves, target>>

\* The reconciliation itself is the matter of other modules.
EndReconcile(p) ==
  /\ pc[p] = "reconcile"
  /\ Release(p)
  /\ UNCHANGED <<files, mirror, catalog, moves, target>>

\* A process dies, or an error ends its command: the open transaction is
\* rolled back and the lock released, whatever was published stays.
Abort(p) ==
  /\ pc[p] # "idle"
  /\ owner' = IF owner = p THEN None ELSE owner
  /\ Goto(p, "idle", NoJob)
  /\ UNCHANGED <<files, mirror, catalog, moves, target>>

-----------------------------------------------------------------------------
(* git, which knows nothing of the RepoLock. *)

\* Bound: git writes at most GitMoves times.
GitWrites(new) ==
  LET S == {s \in Shards : new[s] # files[s]}
  IN  /\ moves < GitMoves
      /\ S # {}
      /\ files' = new
      /\ catalog' = Unproven(catalog, S)
      /\ job' = [p \in Procs |-> [job[p] EXCEPT !.quiet = FALSE,
                    !.seen = Unproven(@, S), !.now = Unproven(@, S)]]
      /\ moves' = moves + 1
      /\ UNCHANGED <<mirror, owner, pc, target>>

\* One shard file of the shape in use is replaced, created or removed.
GitWrite(s, m) ==
  /\ Shape(files) \in {None, LevelOf[s]}
  /\ GitWrites([files EXCEPT ![s] = Layout(m, LevelOf[s])[s]])

\* A checkout that replaces the lock, and maybe its shape, between commands.
GitCheckout(m, d) ==
  /\ owner = None
  /\ GitWrites(Layout(m, d))

-----------------------------------------------------------------------------
Opening(p) ==
  \/ \E x \in Paths, o \in Oids : OpenAdd(p, x, o)
  \/ \E x \in Paths, y \in Paths \cup {None} : OpenEdit(p, x, y)
  \/ OpenSync(p)

Observing(p) ==
  \/ \E s \in Shards : Observe(p, s)
  \/ EndCapture(p)
  \/ ApplyRefresh(p)
  \/ Revalidate(p)
  \/ IntoMutation(p)
  \/ Rechecked(p)

Publishing(p) ==
  \/ BeginPublish(p)
  \/ NothingToDo(p)
  \/ PublishComplete(p)
  \/ PublishFlat(p)
  \/ \E s \in Shards : DropShard(p, s) \/ PublishShard(p, s)
  \/ Commit(p)
  \/ EndReconcile(p)

Git ==
  \E m \in Rows :
    \/ \E s \in {t \in Shards : LevelOf[t] \in DepthsOf[target]} : GitWrite(s, m)
    \/ \E d \in DepthsOf[target] : GitCheckout(m, d)

Next == Git \/ \E p \in Procs : Opening(p) \/ Observing(p) \/ Publishing(p) \/ Abort(p)

Spec == Init /\ [][Next]_vars

-----------------------------------------------------------------------------
(* Properties. *)

\* Every variable has its type; the process at work with the lock is its owner.
TypeOK ==
  /\ files \in [Shards -> Rows \cup {None}]
  /\ mirror \in [Paths -> Row \cup {None}]
  /\ catalog \in [Shards -> Stored \cup {None}]
  /\ owner \in Procs \cup {None}
  /\ pc \in [Procs -> PCs]
  /\ job \in [Procs -> JobType]
  /\ moves \in 0..GitMoves
  /\ target \in Targets
  /\ \A p \in Procs : pc[p] \in {"refresh", "recheck", "ready", "publish", "reconcile"}
                       <=> owner = p

\* The rows of table `state` that a shard owns are the rows its recorded
\* identity stands for.  refresh_desired_state_inner relies on it: it never
\* looks at the rows of a shard whose identity has not changed.
MirrorMatchesCatalog ==
  \A s \in Shards :
    [x \in Paths |-> IF mirror[x] # None /\ mirror[x].shard = s THEN mirror[x].oid ELSE None]
      = IF catalog[s] = None THEN NoRows ELSE catalog[s].rows

\* A proof that still matches vouches for the right bytes, in the database,
\* in the catalog a session carries and in the evidence of a publication,
\* whoever rewrote the file since.
ProofHonest ==
  LET Honest(c) == \A s \in Shards : c[s] # None /\ c[s].proof => files[s] = c[s].rows
  IN  /\ Honest(catalog)
      /\ \A p \in Procs : Honest(job[p].seen) /\ Honest(job[p].now)

\* What sync reconciles the worktree with is the desired state it captured
\* before it had the lock, although git and other commands wrote in between.
AdmittedRowsCurrent ==
  \A p \in Procs :
    pc[p] = "reconcile" => MirrorRows = Merged(Identity(job[p].seen))

\* An edit or a reconciliation under the lock works on gat.lock as it is, as
\* long as git keeps out, whatever earlier commands left behind when they died.
MirrorFresh ==
  \A p \in Procs :
    /\ pc[p] \in {"ready", "reconcile"}
    /\ job[p].kind # "add"
    /\ job[p].quiet
    => MirrorRows = LiveRows

\* load_desired_as_lock: the caller must first refresh the mirror from every
\* current shard.  gat add calls it when its shape is not the target.
AddMirrorFresh ==
  \A p \in Procs :
    /\ pc[p] = "ready"
    /\ job[p].kind = "add"
    /\ ~job[p].inc
    /\ job[p].quiet
    => MirrorRows = LiveRows

\* No edit changes the entry of a path its command does not name: the entry a
\* concurrent command published is never rolled back to an older one.
OthersKept ==
  \A p \in Procs :
    /\ pc[p] = "publish"
    /\ job[p].kind \in {"rm", "mv"}
    /\ job[p].quiet
    /\ files' # files
    /\ moves' = moves
    => \A x \in Paths \ {job[p].from, job[p].to} : LiveRows'[x] = LiveRows[x]

EditKeepsOthers == [][OthersKept]_vars
=============================================================================
