----------------------------- MODULE LockReshape -----------------------------
(***************************************************************************)
(* The canonical lock `gat.lock` on disk and everything that may write it: *)
(* the transactional change of its shape (`lock.shard_levels`), complete   *)
(* and sparse publication of a new entry set, explicit recovery of an      *)
(* interrupted reshape (`gat system repair lock`) and the cleaning of      *)
(* transaction scratch (`gat system clean lock`).                          *)
(*                                                                         *)
(* Source: gat-io/src/lock/persistence.rs, reshape_record.rs,              *)
(* maintenance.rs, gat-io/src/atomic.rs (RepoLock) and                     *)
(* gat-engine/src/maintenance.rs.                                          *)
(*                                                                         *)
(* A representation (a file or a shard tree) is its fan-out depth with the *)
(* entries it holds: a shard file holds exactly the rows whose path hashes *)
(* to it and exists only while it has rows, so a tree is determined by     *)
(* those two.  Depth 0 is the flat file.  Every single system call that    *)
(* changes the disk (rename, atomic replace, unlink, rmdir) is one step,   *)
(* and a process may die, or fail with an I/O error, between any two.      *)
(***************************************************************************)
EXTENDS Naturals, FiniteSets

CONSTANTS
  Procs,     \* processes (commands) working on one repository
  Paths,     \* tracked paths
  Oids,      \* object ids
  Levels,    \* the values of lock.shard_levels in use; 0 is the flat file
  Shards,    \* names of shard files
  ShardOf,   \* ShardOf[d][x]: the shard file of path x at depth d
  Txns,      \* names of transaction directories under .gat/lock-reshape
  None       \* nothing: no file, no row, no owner

ASSUME LevelsAssumption == Levels \subseteq Nat /\ 0 \in Levels
ASSUME ShardOfAssumption == ShardOf \in [Levels -> [Paths -> Shards]]
ASSUME NoneAssumption == None \notin Procs \cup Oids \cup Levels \cup Txns

VARIABLES
  live,    \* what is at <root>/gat.lock
  txn,     \* .gat/lock-reshape/<id>: directory, record, new, backup, replaced-live
  owner,   \* the process holding the RepoLock
  pc,      \* where each process is
  job,     \* the local variables of each process
  truth    \* history: the entries last published, whatever shape they are in

vars == <<live, txn, owner, pc, job, truth>>

-----------------------------------------------------------------------------
(* Entry sets and their representations. *)

Rows == [Paths -> Oids \cup {None}]

NoRows == [x \in Paths |-> None]

Rep == [shape : Levels, rows : Rows]

Record == [src : Levels, tgt : Levels]

ASSUME NoFileAssumption == None \notin Rep \cup Record

IsDir(r) == r # None /\ r.shape # 0

\* The shape on_disk_shape_at reads off the disk: a tree without a single
\* shard file has none, exactly like a missing path.
OnDiskShape(r) ==
  IF r = None \/ (r.shape # 0 /\ r.rows = NoRows) THEN None ELSE r.shape

\* The entries a complete load of r yields.
Entries(r) == IF r = None THEN NoRows ELSE r.rows

\* LiveLockState::Valid, and the live_valid of every scratch decision.
Valid(r) == OnDiskShape(r) # None

InShard(x, d, s) == ShardOf[d][x] = s

\* `old` with the rows of shard file s replaced by those of `new`.
Patch(old, new, d, s) ==
  [x \in Paths |-> IF InShard(x, d, s) THEN new[x] ELSE old[x]]

Emptied(m, d, s) == \A x \in Paths : InShard(x, d, s) => m[x] = None

\* The shard files of m, and those in which m and n differ.
ShardsOf(m, d) == {s \in Shards : ~Emptied(m, d, s)}

Touched(m, n, d) ==
  {s \in Shards : \E x \in Paths : InShard(x, d, s) /\ m[x] # n[x]}

-----------------------------------------------------------------------------
(* Transaction scratch. *)

NoTxn == [dir |-> FALSE, record |-> None, new |-> None, backup |-> None,
          replaced |-> None, goal |-> NoRows]

\* goal is history: the entries the transaction was opened to publish.
TxnType == [dir : BOOLEAN, record : Record \cup {None}, new : Rep \cup {None},
            backup : Rep \cup {None}, replaced : Rep \cup {None}, goal : Rows]

Prepared(t) == txn[t].record # None

\* fail_if_pending_reshape: a durable record beside a missing live path.
Pending == \E t \in Txns : Prepared(t)

\* inspect_candidate and recover_prepared_reshape: the candidate of a choice
\* must have exactly the shape the record names for it.
Choices == {"backup", "new"}

Expected(t, c) == IF c = "backup" THEN txn[t].record.src ELSE txn[t].record.tgt

CandidateValid(t, c) == OnDiskShape(txn[t][c]) = Expected(t, c)

\* select_explicit_transaction: the transactions a choice can be applied to.
Selectable(c) ==
  {t \in Txns : Prepared(t) /\ ~Valid(live) /\ CandidateValid(t, c)}

\* What one unlink or rmdir of remove_dir_all leaves of a representation.
Shrink(r) ==
  IF r.shape = 0 \/ r.rows = NoRows
  THEN {None}
  ELSE {[r EXCEPT !.rows = Patch(r.rows, NoRows, r.shape, s)] :
          s \in ShardsOf(r.rows, r.shape)}

-----------------------------------------------------------------------------
(* Processes. *)

Kinds == {"none", "reshape", "publish", "sparse", "recover", "clean"}

PCs == {"idle", "wait", "sweep", "stage", "record", "aside", "promote", "tidy",
        "flat", "drop", "mkdir", "shards", "displace", "restore", "clean"}

NoJob == [kind |-> "none", want |-> NoRows, target |-> 0, txn |-> None,
          choice |-> "backup", todo |-> {}, doomed |-> {}]

JobType == [kind : Kinds, want : Rows, target : Levels, txn : Txns \cup {None},
            choice : Choices, todo : SUBSET Shards, doomed : SUBSET Txns]

Dirs == {t \in Txns : txn[t].dir}

Init ==
  /\ live \in Rep \cup {None}
  /\ live # None => Valid(live)
  /\ txn = [t \in Txns |-> NoTxn]
  /\ owner = None
  /\ pc = [p \in Procs |-> "idle"]
  /\ job = [p \in Procs |-> NoJob]
  /\ truth = Entries(live)

\* RepoLock::acquire_repository by an idle process that starts job j at step l.
Start(p, l, j) ==
  /\ pc[p] \in {"idle", "wait"}
  /\ owner = None
  /\ owner' = p
  /\ pc' = [pc EXCEPT ![p] = l]
  /\ job' = [job EXCEPT ![p] = j]

\* The guard is dropped: the operation is over.
Release(p) ==
  /\ owner' = None
  /\ pc' = [pc EXCEPT ![p] = "idle"]
  /\ job' = [job EXCEPT ![p] = NoJob]

Goto(p, l) == pc' = [pc EXCEPT ![p] = l]

-----------------------------------------------------------------------------
(* begin_reshape and PendingLockReshape::apply *)

\* The first, unlocked look at the shape: only a mismatch goes on to wait for
\* the lock; a matching or missing lock returns without taking it.
BeginReshape(p, d) ==
  /\ pc[p] = "idle"
  /\ OnDiskShape(live) \notin {None, d}
  /\ Goto(p, "wait")
  /\ job' = [job EXCEPT ![p] = [NoJob EXCEPT !.kind = "reshape", !.target = d]]
  /\ UNCHANGED <<live, txn, owner, truth>>

\* Fault: leftovers of earlier transactions are not swept.
ConfirmWithoutSweep(p) ==
  /\ pc[p] = "wait"
  /\ OnDiskShape(live) \notin {None, job[p].target}
  /\ Start(p, "sweep", [job[p] EXCEPT !.want = live.rows])
  /\ UNCHANGED <<live, txn, truth>>

\* Fault: the entries are loaded while the process still waits for the lock.
ConfirmEarlierLoad(p) ==
  /\ pc[p] = "wait"
  /\ OnDiskShape(live) \notin {None, job[p].target}
  /\ IF job[p].want = NoRows
     THEN job' = [job EXCEPT ![p].want = live.rows] /\ UNCHANGED <<pc, owner>>
     ELSE Start(p, "sweep", [job[p] EXCEPT !.doomed = Dirs])
  /\ UNCHANGED <<live, txn, truth>>

\* The lock is held and the shape still differs: load the complete lock once.
ConfirmReshape(p) ==
  /\ pc[p] = "wait"
  /\ OnDiskShape(live) \notin {None, job[p].target}
  /\ Start(p, "sweep", [job[p] EXCEPT !.want = live.rows, !.doomed = Dirs])
  /\ UNCHANGED <<live, txn, truth>>

\* Another process reshaped, removed or interrupted the lock in between.
DeclineReshape(p) ==
  /\ pc[p] = "wait"
  /\ owner = None
  /\ OnDiskShape(live) \in {None, job[p].target}
  /\ Goto(p, "idle")
  /\ job' = [job EXCEPT ![p] = NoJob]
  /\ UNCHANGED <<live, txn, owner, truth>>

\* Fault: an acquisition without a deadline.
WaitForever(p) == FALSE /\ UNCHANGED vars

\* RepoLock::acquire_at gives up after LOCK_WAIT while somebody holds the lock.
\* The other operations read nothing before they hold it, so that waiting for
\* it is not a state of theirs.
TimeOut(p) ==
  /\ pc[p] = "wait"
  /\ owner # None
  /\ Goto(p, "idle")
  /\ job' = [job EXCEPT ![p] = NoJob]
  /\ UNCHANGED <<live, txn, owner, truth>>

-----------------------------------------------------------------------------
(* reshape_transactional *)

\* One unlink or rmdir of remove_dir_all on a condemned transaction directory:
\* cleanup_completed_reshape, cleanup_txn_dir and
\* clean_disposable_reshape_scratch delete in whatever order readdir yields.
RemovePiece(p) ==
  /\ pc[p] \in {"sweep", "tidy", "clean"}
  /\ \E t \in job[p].doomed :
       \/ /\ Prepared(t)
          /\ txn' = [txn EXCEPT ![t].record = None]
          /\ UNCHANGED job
       \/ /\ \E part \in {"new", "backup", "replaced"} :
               /\ txn[t][part] # None
               /\ \E r \in Shrink(txn[t][part]) :
                    txn' = [txn EXCEPT ![t] = [@ EXCEPT ![part] = r]]
          /\ UNCHANGED job
       \/ /\ ~Prepared(t)
          /\ \A part \in {"new", "backup", "replaced"} : txn[t][part] = None
          /\ txn' = [txn EXCEPT ![t] = NoTxn]
          /\ job' = [job EXCEPT ![p].doomed = @ \ {t}]
  /\ UNCHANGED <<live, owner, pc, truth>>

\* Fault: the new transaction opens while older scratch is still there.
OpenTxnEarly(p) ==
  /\ pc[p] = "sweep"
  /\ \E t \in Txns \ Dirs :
       /\ txn' = [txn EXCEPT ![t] = [NoTxn EXCEPT !.dir = TRUE, !.goal = job[p].want]]
       /\ job' = [job EXCEPT ![p].txn = t]
  /\ Goto(p, "stage")
  /\ UNCHANGED <<live, owner, truth>>

\* All leftover scratch is gone: create a directory for this transaction.
OpenTxn(p) ==
  /\ pc[p] = "sweep"
  /\ job[p].doomed = {}
  /\ \E t \in Txns \ Dirs :
       /\ txn' = [txn EXCEPT ![t] = [NoTxn EXCEPT !.dir = TRUE, !.goal = job[p].want]]
       /\ job' = [job EXCEPT ![p].txn = t]
  /\ Goto(p, "stage")
  /\ UNCHANGED <<live, owner, truth>>

\* Stage the destination: one atomic file, or a directory and then its shards.
StageRoot(p) ==
  LET t == job[p].txn
      d == job[p].target
      w == job[p].want
  IN  /\ pc[p] = "stage"
      /\ txn[t].new = None
      /\ txn' = [txn EXCEPT ![t].new =
                   [shape |-> d, rows |-> IF d = 0 THEN w ELSE NoRows]]
      /\ job' = [job EXCEPT ![p].todo = IF d = 0 THEN {} ELSE ShardsOf(w, d)]
      /\ UNCHANGED <<live, owner, pc, truth>>

\* save_sharded writes its buckets in parallel: in any order.
StageShard(p, s) ==
  LET t == job[p].txn
  IN  /\ pc[p] = "stage"
      /\ txn[t].new # None
      /\ s \in job[p].todo
      /\ txn' = [txn EXCEPT ![t].new.rows =
                   Patch(@, job[p].want, job[p].target, s)]
      /\ job' = [job EXCEPT ![p].todo = @ \ {s}]
      /\ UNCHANGED <<live, owner, pc, truth>>

Staged(p) ==
  /\ pc[p] = "stage"
  /\ txn[job[p].txn].new # None
  /\ job[p].todo = {}

StagedMatches(p) ==
  /\ OnDiskShape(txn[job[p].txn].new) = job[p].target
  /\ txn[job[p].txn].new.rows = job[p].want

\* The staged copy has the target shape and exactly the entries wanted.
ValidateStaged(p) ==
  /\ Staged(p)
  /\ StagedMatches(p)
  /\ Goto(p, "record")
  /\ UNCHANGED <<live, txn, owner, job, truth>>

\* StagedShapeMismatch: the operation fails and leaves its scratch behind.
RefuseStaged(p) ==
  /\ Staged(p)
  /\ ~StagedMatches(p)
  /\ Release(p)
  /\ UNCHANGED <<live, txn, truth>>

\* Faults: no record at all; a source shape read off the backup, too early.
SkipRecord(p) ==
  /\ pc[p] = "record"
  /\ Goto(p, "aside")
  /\ UNCHANGED <<live, txn, owner, job, truth>>

RecordOfBackup(p) ==
  /\ pc[p] = "record"
  /\ txn' = [txn EXCEPT ![job[p].txn].record =
               [src |-> OnDiskShape(txn[job[p].txn].backup), tgt |-> job[p].target]]
  /\ Goto(p, "aside")
  /\ UNCHANGED <<live, owner, job, truth>>

\* The durable PREPARED record comes before the first change of the live path.
WriteRecord(p) ==
  /\ pc[p] = "record"
  /\ txn' = [txn EXCEPT ![job[p].txn].record =
               [src |-> live.shape, tgt |-> job[p].target]]
  /\ Goto(p, "aside")
  /\ UNCHANGED <<live, owner, job, truth>>

\* First commit rename: gat.lock -> <txn>/backup.
RenameAside(p) ==
  /\ pc[p] = "aside"
  /\ txn' = [txn EXCEPT ![job[p].txn].backup = live]
  /\ live' = None
  /\ Goto(p, "promote")
  /\ UNCHANGED <<owner, job, truth>>

\* Second commit rename: <txn>/new -> gat.lock.
RenamePromote(p) ==
  LET t == job[p].txn
  IN  /\ pc[p] = "promote"
      /\ live' = txn[t].new
      /\ truth' = txn[t].new.rows
      /\ txn' = [txn EXCEPT ![t].new = None]
      /\ job' = [job EXCEPT ![p].doomed = {t}]
      /\ Goto(p, "tidy")
      /\ UNCHANGED owner

\* The end of cleanup_txn_dir, which ignores a removal that failed part-way.
\* publish_complete then saves its entries once more in the target shape.
EndTidy(p) ==
  /\ pc[p] = "tidy"
  /\ IF job[p].kind = "publish"
     THEN /\ Goto(p, IF job[p].target = 0 THEN "flat" ELSE "mkdir")
          /\ job' = [job EXCEPT ![p].doomed = {}, ![p].txn = None]
          /\ UNCHANGED owner
     ELSE Release(p)
  /\ UNCHANGED <<live, txn, truth>>

-----------------------------------------------------------------------------
(* Publication of a new entry set. *)

\* Fault: the complete lock is saved over a mismatched shape in place.
PublishInPlace(p, m, d) ==
  /\ pc[p] = "idle"
  /\ OnDiskShape(live) = None => ~Pending
  /\ Start(p, IF d = 0 THEN "flat" ELSE "mkdir",
              [NoJob EXCEPT !.kind = "publish", !.want = m, !.target = d])
  /\ UNCHANGED <<live, txn, truth>>

\* publish_complete(_with_evidence): the whole logical lock, at depth d.
PublishComplete(p, m, d) ==
  LET shape == OnDiskShape(live)
      j == [NoJob EXCEPT !.kind = "publish", !.want = m, !.target = d]
  IN  /\ pc[p] = "idle"
      /\ shape = None => ~Pending
      /\ IF shape \in {None, d}
         THEN Start(p, IF d = 0 THEN "flat" ELSE "mkdir", j)
         ELSE Start(p, "sweep", [j EXCEPT !.doomed = Dirs])
      /\ UNCHANGED <<live, txn, truth>>

\* LockWriteGuard with an incremental shape, then publish_touched: only the
\* shards in which the entries changed (add, rm, mv and mount replay).
PublishSparse(p, m, d) ==
  LET shape == OnDiskShape(live)
      j == [NoJob EXCEPT !.kind = "sparse", !.want = m, !.target = d]
  IN  /\ pc[p] = "idle"
      /\ shape \in {None, d}
      /\ shape = None => ~Pending
      /\ m # Entries(live)
      /\ Start(p, IF d # 0 THEN "mkdir" ELSE IF m = NoRows THEN "drop" ELSE "flat", j)
      /\ UNCHANGED <<live, txn, truth>>

\* remove_empty_lock: a flat lock without entries is no file at all.
DropEmpty(p) ==
  /\ pc[p] = "drop"
  /\ live' = None
  /\ truth' = NoRows
  /\ Release(p)
  /\ UNCHANGED txn

\* A directory in the way of the flat file is removed before the rename.
ClearDir(p) ==
  /\ pc[p] = "flat"
  /\ IsDir(live)
  /\ live' = None
  /\ UNCHANGED <<txn, owner, pc, job, truth>>

\* write_atomic: temporary file, fsync, rename over gat.lock.
WriteFlat(p) ==
  /\ pc[p] = "flat"
  /\ ~IsDir(live)
  /\ live' = [shape |-> 0, rows |-> job[p].want]
  /\ truth' = job[p].want
  /\ Release(p)
  /\ UNCHANGED txn

\* create_dir_all on gat.lock, and the list of shard files to touch.
MakeDir(p) ==
  LET d == job[p].target
      old == Entries(live)
  IN  /\ pc[p] = "mkdir"
      /\ live' = [shape |-> d, rows |-> old]
      /\ job' = [job EXCEPT ![p].todo = Touched(old, job[p].want, d)]
      /\ Goto(p, "shards")
      /\ UNCHANGED <<txn, owner, truth>>

\* save_sparse_shards unlinks emptied shards before it publishes the others;
\* save_sharded publishes first and removes stale files last.
Ordered(p, s) ==
  LET d == job[p].target
      gone == {u \in job[p].todo : Emptied(job[p].want, d, u)}
  IN  IF job[p].kind = "sparse"
      THEN gone # {} => s \in gone
      ELSE gone # job[p].todo => s \notin gone

\* One shard file is atomically replaced, created or unlinked.
SaveShard(p, s) ==
  LET d == job[p].target
  IN  /\ pc[p] = "shards"
      /\ s \in job[p].todo
      /\ Ordered(p, s)
      /\ live' = [live EXCEPT !.rows = Patch(@, job[p].want, d, s)]
      /\ truth' = Patch(truth, job[p].want, d, s)
      /\ job' = [job EXCEPT ![p].todo = @ \ {s}]
      /\ UNCHANGED <<txn, owner, pc>>

EndSave(p) ==
  /\ pc[p] = "shards"
  /\ job[p].todo = {}
  /\ Release(p)
  /\ UNCHANGED <<live, txn, truth>>

-----------------------------------------------------------------------------
(* gat system repair lock, gat system clean lock *)

\* repair_lock with an explicit choice; recover_prepared_reshape refuses a
\* valid live lock, a candidate of the wrong shape, and a second displaced one.
BeginRecover(p, t, c) ==
  /\ pc[p] = "idle"
  /\ t \in Selectable(c)
  /\ live # None => txn[t].replaced = None
  /\ Start(p, IF live = None THEN "restore" ELSE "displace",
              [NoJob EXCEPT !.kind = "recover", !.txn = t, !.choice = c])
  /\ UNCHANGED <<live, txn, truth>>

\* An invalid live path is kept as <txn>/replaced-live.
Displace(p) ==
  /\ pc[p] = "displace"
  /\ txn' = [txn EXCEPT ![job[p].txn].replaced = live]
  /\ live' = None
  /\ Goto(p, "restore")
  /\ UNCHANGED <<owner, job, truth>>

\* The candidate becomes the live lock; the scratch is left for `clean`.
Restore(p) ==
  LET t == job[p].txn
      c == job[p].choice
  IN  /\ pc[p] = "restore"
      /\ live' = txn[t][c]
      /\ truth' = txn[t][c].rows
      /\ txn' = [txn EXCEPT ![t] = [@ EXCEPT ![c] = None]]
      /\ Release(p)

\* clean_disposable_reshape_scratch: scratch without a record, and every
\* prepared transaction once the live lock is valid.
Disposable(t) == txn[t].dir /\ (Prepared(t) => Valid(live))

BeginClean(p) ==
  LET doomed == {t \in Txns : Disposable(t)}
  IN  /\ pc[p] = "idle"
      /\ doomed # {}
      /\ Start(p, "clean", [NoJob EXCEPT !.kind = "clean", !.doomed = doomed])
      /\ UNCHANGED <<live, txn, truth>>

EndClean(p) ==
  /\ pc[p] = "clean"
  /\ job[p].doomed = {}
  /\ Release(p)
  /\ UNCHANGED <<live, txn, truth>>

-----------------------------------------------------------------------------
\* The process is killed, or a system call fails and the error is returned:
\* the disk stays as it is and the RepoLock is released.
Abort(p) ==
  /\ pc[p] # "idle"
  /\ owner' = IF owner = p THEN None ELSE owner
  /\ Goto(p, "idle")
  /\ job' = [job EXCEPT ![p] = NoJob]
  /\ UNCHANGED <<live, txn, truth>>

\* What a process does by itself once it has started an operation.
Work(p) ==
  \/ ConfirmReshape(p) \/ DeclineReshape(p) \/ TimeOut(p)
  \/ RemovePiece(p) \/ OpenTxn(p) \/ StageRoot(p)
  \/ \E s \in Shards : StageShard(p, s)
  \/ ValidateStaged(p) \/ RefuseStaged(p)
  \/ WriteRecord(p) \/ RenameAside(p) \/ RenamePromote(p) \/ EndTidy(p)
  \/ DropEmpty(p) \/ ClearDir(p) \/ WriteFlat(p) \/ MakeDir(p)
  \/ \E s \in Shards : SaveShard(p, s)
  \/ EndSave(p)
  \/ Displace(p) \/ Restore(p)
  \/ EndClean(p)

\* What the user starts.
Request(p) ==
  \/ \E d \in Levels : BeginReshape(p, d)
  \/ \E m \in Rows, d \in Levels : PublishComplete(p, m, d) \/ PublishSparse(p, m, d)
  \/ \E t \in Txns, c \in Choices : BeginRecover(p, t, c)
  \/ BeginClean(p)

Next == \E p \in Procs : Work(p) \/ Request(p) \/ Abort(p)

Spec == Init /\ [][Next]_vars

\* A running process keeps executing, and the deadline of a waiting one passes;
\* nothing makes a user start an operation and nothing makes a process die.
Fairness == \A p \in Procs : WF_vars(Work(p))

FairSpec == Spec /\ Fairness

-----------------------------------------------------------------------------
(* Properties. *)

\* Every variable has its type: representations, records and jobs.
TypeOK ==
  /\ live \in Rep \cup {None}
  /\ txn \in [Txns -> TxnType]
  /\ owner \in Procs \cup {None}
  /\ pc \in [Procs -> PCs]
  /\ job \in [Procs -> JobType]
  /\ truth \in Rows

\* The entries last published, as the backup of a PREPARED transaction in the
\* shape its record names: what `repair lock` accepts.
BackedUp ==
  \E t \in Txns : /\ Prepared(t)
                 /\ txn[t].backup # None
                 /\ txn[t].backup.rows = truth
                 /\ CandidateValid(t, "backup")

\* Whatever crash, I/O error or interleaving happened, the entries last
\* published are complete on disk: at gat.lock, or -- while gat.lock is
\* missing between the two commit renames of reshape_transactional -- as a
\* backup that recover_prepared_reshape accepts.
NothingLost ==
  truth # NoRows =>
    \/ live # None /\ live.rows = truth
    \/ live = None /\ BackedUp

\* What `repair lock` offers after a genuine interruption is never a torn or
\* half-deleted copy (inspect_candidate): the backup is the lock before the
\* transaction and the staged copy is all the transaction set out to publish.
CandidatesFaithful ==
  truth # NoRows /\ live = None =>
    \A t \in Txns :
      Prepared(t) =>
        /\ CandidateValid(t, "backup") => txn[t].backup.rows = truth
        /\ CandidateValid(t, "new") => txn[t].new.rows = txn[t].goal

\* select_explicit_transaction never answers "ambiguous" without an id after
\* an interruption: reshape_transactional removes all older scratch first, so
\* at most one transaction holds a record, and it can be restored.
RecoveryUnambiguous ==
  /\ \A t, u \in Txns : Prepared(t) /\ Prepared(u) => t = u
  /\ owner = None /\ live = None /\ truth # NoRows =>
       \E t \in Txns : Selectable("backup") = {t}

\* No step of a reshape (PendingLockReshape::apply) changes an entry, although
\* it loads, stages, validates and promotes them in separate steps.
EntriesKept ==
  \A p \in Procs :
    job[p].kind = "reshape" /\ (pc'[p] # pc[p] \/ job'[p] # job[p]) => truth' = truth

ReshapeKeepsEntries == [][EntriesKept]_vars

\* The live path only disappears while it can be put back, under the PREPARED
\* record of reshape_transactional, or when it holds no entries.
SafeVanishing ==
  live # None /\ live' = None =>
    \/ \E t \in Txns : txn'[t].record # None /\ txn'[t].backup = live
    \/ truth' = NoRows

LiveVanishesSafely == [][SafeVanishing]_vars

\* Every operation ends: no step of a reshape, a publication, a recovery or a
\* clean-up waits for anybody, and a wait for the RepoLock has a deadline.
OperationEnds == \A p \in Procs : pc[p] # "idle" ~> pc[p] = "idle"

\* The comment of fail_if_pending_reshape: a missing live path is never
\* "nothing tracked" while a PREPARED record is around.  An interrupted reshape
\* of a lock without entries, whose backup holds all there was, is left out.
PendingMeansTracked ==
  owner = None /\ live = None /\ Pending => truth # NoRows \/ BackedUp
=============================================================================
