# TLA+ models of gat

gat versions large files beside git.  A text file, `gat.lock`, maps every
tracked path to the content hash (oid) of its bytes and is committed with the
repository; a content-addressed cache holds the bytes; a local SQLite database
mirrors the lock and remembers what was written to the working tree; remotes
hold copies of the objects.  Every command is a short-lived process, and git,
its hooks and the user edit the same files without asking gat.  What can go
wrong is therefore not inside one command but between two: a process killed
half-way, a hook that runs while a user works, a lock file that git replaced
under a command that had already read it.

This directory holds TLA+ modules translated from the Rust sources, TLC
configurations that check them, and TLAPS proofs about them.  `PROJECT.json`
maps each definition to the lines it models, lists the hazards the properties
are for, and gives for every property a mutated definition (a plausible bug in
the code) under which TLC finds it violated; in the modules these definitions
follow a comment that starts with `Fault:`.

    tlc -workers 2 -config LockReshape.cfg MCLockReshape     # one run
    tlapm LockReshapeProofs.tla                              # the proofs of one module;
                                                             # all are in *Proofs.tla

## Inventory

| Component | State it keeps | Operations | What is hard | What makes it correct |
|---|---|---|---|---|
| Lock persistence (`gat-io/src/lock`) | `gat.lock` (a file or a tree of shard files), `.gat/lock-reshape/<txn>` | load, save, sparse publication, transactional reshape, recovery, clean-up | a crash between renames, best-effort clean-up, reading the shape before locking | the entries last published are always on disk; recovery offers only complete copies |
| `RepoLock`, atomic writes (`gat-io/src/atomic.rs`) | an advisory lock per repository | acquire (10 s deadline), release, atomic replace | death of the holder, waiters | mutual exclusion, no wait without end |
| Lock format (`gat-core/src/lock`) | none | parse, render, shard ids, three-way merge | directory/file prefix conflicts | a merged lock has no path that is also a directory |
| Desired mirror (`gat-io/src/state`, SQLite) | rows per shard, shard catalog with stat proofs, pinned snapshots | refresh, pin, mutate, publish | stale proofs, writes by git between observation and use, crash between file and database | the mirror equals the lock whose identity it claims |
| Materialized state (`gat-io/src/state/materialized.rs`) | what gat last wrote to each working file | record, forget, adopt | crash between file and row | never treats user data as its own |
| Mount journal (`gat-io/src/journal`, `gat-engine/src/mount.rs`) | `.gat/mount-txn.json`, staged windows | add, update, remove, detach, roll forward | a crash between journal, rows, configuration and clean-up | roll-forward reaches the state of the uninterrupted operation |
| Sync (`gat-engine/src/workspace/sync`) | plan and execution evidence | plan, execute, reconcile, prune | user edits between plan and execution | no user bytes overwritten or deleted |
| Cache (`gat-io/src/cache`) | objects, verification proofs | ingest, verify, evict, purge | concurrent ingest and sweep, stale proofs | an object found valid has its oid |
| Garbage collection (`gat-engine/src/gc.rs`) | keep set, candidates | mark, sweep | incomplete inspection, concurrent adds | nothing reachable is deleted |
| Remotes and transfer (`gat-engine/src/transfer`, `remote_executor.rs`, `gat-io/src/remote`) | permits, windows, presence | push, fetch, presence, repair | bounded windows, cancellation, partial failure | permits are conserved, results keep their order |
| Merge driver (`gat-engine/src/merge_driver.rs`) | none | merge base/ours/theirs | concurrent edits of one path | no silent loss of one side's change |
| Configuration (`gat-core/src/config.rs`, `gat-io/src/config.rs`) | `gat.yaml` layers | load, edit, resolve | scope precedence, two locks | edits keep unrelated keys |
| Git excludes (`gat-engine/src/excludes`) | managed blocks in `.gitignore`/info/exclude | plan, apply | foreign edits | only the managed block changes |
| Selection, globs, paths (`gat-core`) | none | match, scope | case, normalisation | selection agrees with the reference matcher |
| Commands and CLI (`gat-command`, `src`) | none | argument parsing, output | | |

How they interact: a command loads the configuration, waits for the `RepoLock`
(some, like `gat add`, work first and lock later), brings the desired mirror up
to date with `gat.lock`, edits the mirror inside a SQLite transaction that
publishes shard files before it commits, touches the working tree, records what
it did in the materialized half of the same database, and releases the lock.
Mount commands put a journal around all of this.  Pushes and downloads hold no
`RepoLock`; they share one executor with its `Admission`.  Garbage collection
holds none either: it reads `gat.lock` while others publish it, and sweeps a
cache into which others ingest.  git and the user call nothing: they write the
same files.

## Modules

| Module | Models | Size of the instance |
|---|---|---|
| `LockReshape` | `gat.lock` on disk, reshape, publication, recovery, clean-up, `RepoLock` | 2 processes, 2 paths, depths 0 and 1 |
| `LockReshapeProofs`, `DesiredMirrorProofs`, `MountJournalProofs`, `WorktreeProofs`, `GarbageCollectionProofs`, `CacheObjectsProofs`, `DownloadWindowProofs`, `PublishWindowProofs` | theorems about the module each is named after | every value of the constants |
| `DesiredMirror` | mirror, shard catalog, sessions, revalidation | 2 processes, 2 paths, a file or 2 shards, 2 git writes |
| `MountJournal` | mount transactions, journal, recovery and their neighbours | 2 processes, 1 name, 2 targets, 2 leaves |
| `MountRegistry` | what `gat mount` promises; abstract specification of `MountJournal` | |
| `Worktree` | sync, add, rm, mv, state repair on files and ledger | 2 paths, 3 contents, 3 commands |
| `PublishWindow` | one push window and the executor's admission | 2 remotes, 4 obligations, 1 to 3 permits |
| `Collections` | the filter and the sum that the two windows use: `retain` on queues, the usage that the admission keeps | |
| `GarbageCollection` | mark and sweep beside publications and a reshape, read without the lock | 2 paths, 2 shards, 2 objects, 1 edit, 2 reshapes |
| `CacheObjects` | objects, the index of proofs, memo, tickets, ingest and receipts | 1 client, 1 object, 3 files written, 1 edit, 1 interference |
| `DownloadWindow` | windows of downloads and repairs that share the admission, with their jobs and workers | 2 windows, 4 jobs, 2 leases, 1 worker |

`MC*.tla` give the constants their values.  Apart from `Collections` the modules
do not EXTEND one another: each one takes from its neighbours what the
neighbour's properties allow, and says so.  `DesiredMirror` publishes a complete lock in one step,
which `LockReshape`'s `NothingLost` and `ReshapeKeepsEntries` justify;
`Worktree` lets `gat.lock` change in one step and be current when a sync
starts, which is `AdmittedRowsCurrent` of `DesiredMirror`; `MountJournal`
publishes rows in any portions, a superset of what the mirror does.
`GarbageCollection` has its own, smaller copy of the publications and the
reshape of `LockReshape`: only the steps that a reader without the lock can see
of them.  `Worktree` lets the cache answer anything when sync asks;
`AnswersCurrent` of `CacheObjects` says how old such an answer may be.

### LockReshape

*State.*  `live` is what stands at `gat.lock`: a representation is its depth
and its rows, because a shard file holds exactly the rows that hash to it and
exists only while it has some.  `txn[t]` is `.gat/lock-reshape/<t>` with its
record, `new`, `backup` and `replaced-live`.  `owner`, `pc` and `job` are the
`RepoLock` and the commands' local variables; `truth` is history, the entries
last published.

*Actions.*  One system call that changes the disk is one step, in the order of
`reshape_transactional`: `RemovePiece` (older scratch), `OpenTxn`, `StageRoot`,
`StageShard`, `ValidateStaged`, `WriteRecord`, `RenameAside`, `RenamePromote`,
`EndTidy`; publication is `PublishComplete`, `PublishSparse`, `DropEmpty`,
`ClearDir`, `WriteFlat`, `MakeDir`, `SaveShard`, `EndSave`; `repair lock` is
`BeginRecover`, `Displace`, `Restore`; `clean lock` is `BeginClean` and
`RemovePiece`.  `Abort(p)` is death or an I/O error between any two of them and
releases the lock.  `ConfirmReshape` and `DeclineReshape` are the second look a
command takes once it has the lock, because the shape was first read without.

*Bounds.*  Two paths that hash to different shards make every sharded
publication and every `remove_dir_all` interruptible in the middle; one oid
suffices, since a row is there or not there and the properties compare entry
sets; two transaction directories let the scratch of one command meet the next.
The number of operations is not bounded.

*Deadlock* is not checked (`CHECK_DEADLOCK FALSE`): a repository in which nobody
wants anything more is a legal end.  Two such ends are worth knowing.  After an
interrupted clean-up that removed a backup but not its record, removal of the
last entry leaves a state in which every command is refused until a person
decides.  And after a change of `lock.shard_levels` the last entry cannot be
removed at all: a sharded tree without entries is staged as a directory without
a shape, and `prepare_and_commit_first_rename` answers `StagedShapeMismatch`
(`RefuseStaged`); nothing is lost, and the command fails the same way each time.

*Fairness.*  `WF(Work(p))` for each process: a running process goes on, and the
deadline of a waiting one passes.  Neither requests nor deaths are fair.  It is
used by `OperationEnds` only.

### DesiredMirror

*State.*  `files` are the shard files with their rows, `mirror` and `catalog`
are the tables `state` and `lock_shards`.  A shard identity is its rows (the
hash of the bytes it renders to).  A stat proof is a Boolean: TRUE as long as
the file has not been rewritten since the proof was taken.  A rewrite that keeps
size and modification time is outside the model, as it is outside what
`StatProof` promises.

*Actions.*  `OpenEdit` (rm, mv), `OpenAdd`, `OpenSync`; `Observe`, shard by
shard (a tree of mixed depth is refused by the listing), then `EndCapture`, as `operation.rs` captures a revision without the
lock; `ApplyRefresh` (reconciliation.rs), `Revalidate`, `IntoMutation`,
`Rechecked`; publication by `PublishComplete`, `PublishFlat`, `DropShard`,
`PublishShard`, then `Commit` of the SQLite transaction.  `Abort` dies anywhere:
the files written so far stay, the transaction does not.  `GitWrite` replaces
one shard file at any moment, `GitCheckout` the lock as a whole.

*Bounds.*  `target` is the configured depth.  A repository configured flat sees
flat locks only, one configured sharded sees both (`FlatHistory`): with a sharded
lock under a flat configuration the ABA finding below also reaches
`MirrorMatchesCatalog`, and would hide everything else.  `GitCheckout` happens while nobody holds the
lock, `GitWrite` at any time; two writes suffice for A to B to A.  One process adds and
removes, the other moves and syncs: together every pair of command kinds that
differ in how they read and write is there.

*Deadlock* is checked.  No liveness is claimed.

### MountJournal and MountRegistry

*State.*  `config` is one scope of `gat.yaml`: its mounts, and the number of the
last edit of anything else; `rows` says from which snapshot each row of
`gat.lock` came, `claims` are the rows of the materialized state, `excludes` the
managed block, `journal` and `staged` the transaction on disk.  `kept` is
history.

*Actions.*  `BeginAdd`, `BeginUpdate`, `BeginRemove` and `Detach` take the
decision of the four commands; `ResetStaged`, `StageWindow`, `WriteJournal`
build the transaction; `DeleteShard`, `ForgetSubtree`, `SaveConfig`,
`ReplayShard` carry it out; `MarkPublished`, `SyncExcludes`, `RemoveJournal`,
`RemoveStaged` end it.  `ReadJournal` is recovery: any command that takes the
configuration lock redoes a pending journal first, with the same actions.
`Fail(p)` is a crash or an error after any step, `RollBack(p)` the undo of a
failed add.  `Capture`, `Reacquire`, `Stale`, `Track`, `Untrack`, `Note` and
`Reconcile` are `gat add`, `gat rm` and `gat sync` as far as they share state.

*Abstractions.*  Validation and the write of the journal are one step (the lock
is held, and git writes no mount).  A publication step writes any non-empty part
of what is left, which covers every order and grouping of shards.  Hand edits touch settings other than mounts; one made while a
publication is pending is overwritten by recovery, by design, and `EditsSurvive`
speaks of the others.  Targets are disjoint and there is one scope.  The safety
run leaves `gat add` and `gat rm` out: they have no journal, so their own death
before the excludes are written leaves `ExcludesExact` to the next sync; the
tracked run has them.

*Refinement.*  `AtomicMounts` is `MountRegistry!Spec` under the mapping in which
a mount command takes effect when its journal is written: while a publication is
pending, the abstract mounts and rows are the ones the journal and its staged
windows promise.

*Fairness.*  `LiveSpec` has weak fairness of "some process takes a command
step": a process that runs goes on, and somebody goes on using gat.  A journal
left behind is, after all, finished by whoever comes next, and by nobody if
nobody does.  Faults, roll-backs and hand edits are not fair and are bounded by
`MaxFaults` and `MaxEdits`.

*Bounds.*  Snapshots of two rows, one row and none make an update add and drop
rows and a mount own nothing yet; a window of one row stages in several windows;
two faults allow a crash in the recovery of a crash.  `SYMMETRY` over the
processes is used in the safety run only.  Deadlock is checked.

### Worktree

*State.*  `lock`, `rows` (with proofs), `validationRequired`, `file`, the
`backups` of a move, `job` (the command that holds the `RepoLock`), `prep` (a
`gat add` that has hashed and not locked yet).  Bytes are named by their oid and
a proof by the bytes it was taken of.  `raced`, `saved` and the `touched` paths
of a job are history.

*Actions.*  Sync is `SyncStart` (policy, force, selection), `SyncClassify` path
by path, `SyncVerify` at the end of a window, `SyncPublish`, `SyncStat`,
`SyncRemove`, `SyncReport`, `SyncNextWindow`, `SyncFlush`, `SyncEnd`, and
`SyncFail` for an error in any action; add is `AddPrepare`, `AddPublish`,
`AddRecord`; rm is `RmPublish`, `RmDelete`, `RmForget`; mv is `MvRename`,
`MvPublish`, `MvCommit`, `MvRollback`; `RepairState` rebuilds the database.
`Crash` ends the running command anywhere; `UserEdits` and `GitCheckout` happen
between any two steps.

*Abstractions.*  Regular files only (the copy and reflink strategies); the
answer of the cache (valid, missing, corrupt) is chosen when sync asks, since
gc and purge hold no `RepoLock`; a corruption after the answer is not modelled.
The exclude step of sync is in `MountJournal`.  Add, rm and mv take one path; a move sets the
target aside and renames in one step, and commits its rows and removes its
backup in one.  An add that dies while hashing is one that never continues.

*Bounds.*  Two paths, so that a window and a scope can split them; two committed
versions and one the user alone has; three commands allow "damage, sync, sync
again"; windows of two merge steps with one dirty path, and batches of two, so
that window and batch end at different moments.  A larger instance (`MaxEdits
2`, `MaxFaults 1`, 3.9 million states) passes as well.  `CHECK_DEADLOCK FALSE`,
because commands and edits are bounded and a user may stop.  No liveness is
claimed.

### PublishWindow

*State.*  The queues of `publish_window` by the coordinator's names: `pending`,
`ready`, `waiting`, `unverified`, `verified`, the batches under way, and the
`queue` of Admission.  `error` is the index of the earliest failure so far,
which is the frontier; `late` is history.

*Actions.*  `Answer` is what a worker says: `ProbePresent`, `ProbeAbsent`,
`ProbeFails`, `VerifySucceeds`, `VerifyFails`, `UploadSucceeds`, `UploadFails`,
chosen when it answers and in any order.  `Coordinate` is the loop:
drain what is ready, `StartVerification`, then refill remote by remote with
`AdmitProbe`, `AdmitUpload`, `PassOver`, and `Finish`.  One visit of one remote
is one step.  `Cancel` is the interrupt.

*Abstractions.*  The window starts with its remotes open (an open or identity
failure returns before any work).  Obligations are distinct, as `StreamingWindow`
deduplicates them.  Nothing else uses the executor in production, so permits are
the window's own; the permits of one remote are half of all, rounded up, as in
`ExecutionLimits::from_network`.

*Fairness.*  `WF(Answer)`: probes, uploads and verifications end, in success or
failure (requests have time limits); `WF(Coordinate)`: the loop goes on.
`Cancel` is not fair.

*Bounds.*  Four obligations: one oid owed to two remotes, a failure that may
come before it and after it, objects whose bytes exhaust a remote's budget
before its jobs do, a remote that probes one by one and one that probes in
batches of two, verification batches of two, and one, two or three permits.
Deadlock is checked; a returned window stutters.

### GarbageCollection

*State.*  `live`, `disk` and `record` are `gat.lock` as a reader without the
lock meets it: missing, one flat file or a tree of shards, their rows, and the
record of a prepared reshape.  `editor` is the command that holds the
`RepoLock`.  `listing` is the directory handle of the collection, which follows
a directory that is renamed away and comes to its end when that directory is
deleted.  `keep`, `pending` and `issues` are those of `compute_keep_set`,
`store` is the cache or the remote that is collected.  `lock`, `start`,
`touched`, `named` and `removed` are history.

*Actions.*  The editor: `BeginEdit`, then `PublishFlat`, or `RemoveEmptied` for
every emptied shard before any `WriteShard`, then `FinishEdit`;
`PrepareReshape`, `MoveAside`, `Promote`, `CleanUp`; `Die` anywhere.  The
collection: `Start`, `MarkHistory`, then the working lock by `List`, `Check`
(the refusal of a pending reshape), `Relist`, `Scan` name by name and `Read`
shard by shard, `MarkEnds`, `Inspect` of each additional repository and
`KeepSetReady`; then `Sweep` of the cache, or `Inventory` and `DeleteWindow` of
a remote.  `MarkFails`, `Interrupt` and the failing alternatives of each step
are its errors.  `options` and `shallow` are chosen freely at the start.

*Abstractions.*  One level of shards.  A coherent read of one shard is one step
and may fail.  The fan-out directories of the cache are swept in parallel; one
object stands for one of them.  A dead editor is not succeeded by another one
that would repair what it left.  A push that uploads to the collected remote
meanwhile is not modelled: the documentation excludes it.

*Bounds.*  Two paths in different shards, so that a move between shards can be
read half done; an object that is tracked and one that only a commit and another
repository name; deletion windows of one object, so that a deletion can stop half
way; an edit and two reshapes in one behaviour (5.5 million states), so that
one reshape can be seen under way and another move the lock aside before the
second look.  `CHECK_DEADLOCK FALSE`: collection and edits end.  `TypeOK` is
in no configuration; it is proved.  No liveness is claimed.

### CacheObjects

*State.*  `object` is the file at the path of each oid (its bytes, its stat and
whether gat put it there), `proofs` the index, `source` the worktree file that is
being added.  A stat is a number and no two files of the cache share one:
what `file_state.rs` says of a stat proof holds only as long as that is so.  Per
client: `memo`, `ticket` (a verification under way, with what is `known` and the
`work` on the rest), `ingest` and `receipts`.  `seen` is history: what was true
of an object since the client asked.

*Actions.*  Verification is `Prepare` on the coordinator, `Stat`, `Observe`,
`Hash` and `Confirm` by a worker, one look at the file after the other, and
`Commit` or, when a publication has ended the generation, `Reverify`.  Ingest is
`BeginAdd`, `Fingerprint`, `Copy`, `HashCopy` or `HashSource` and `Trust` (by the
strategies stream, safe and hybrid), or `Receive`; then `Publish` by rename,
`Check` of the source and, on the coordinator, `Apply` of the receipts.  The
others: `Unlink` and `ForgetUnlinked` (a sweep, also one that dies in between),
`RebuildIndex`, `Damage` and `EditSource`.

*Abstractions.*  The database may fail at any time: priors are then unknown and
nothing is recorded.  The mmap strategy is left out; it documents that it needs a
source that nobody edits.  A publication of the same object by another process
is a `Damage` with the right bytes.  A ticket that another client prepared is
verified again like one of an ended generation (`Reverify`), and is not modelled
besides.  Every edit of the source changes its stat.  `hybrid` compares size and
mtime, and says itself that an edit which keeps both escapes it (object.rs:1389);
for `safe` and `stream` nothing depends on this.

*Bounds.*  One client, one object and `Junk` for all other bytes, three files
that come to be, one edit of the source, one interference: enough to replace an
object in any gap of a verification and to edit the source in any gap of an
ingest (3.2 million states).  What several clients and several objects do to each
other is in the proofs, which bound nothing.  Deadlock is checked.

### DownloadWindow

*State.*  Per window the locals of `run_transfer_window_until`: its `queues`, one
per remote, where it is in its round (`phase`, `at`, `admitted`), its subscription
(`woken`), the `frontier` and the `results`.  Per job the network side `net`, the
local side `local`, and how it `ended`.  `leases` and `line` are the Admission.

*Actions.*  A turn is `Arm` (subscribe, or drain when cancelled), then `Admit`,
`Refuse` or `DropBeyond` for the head of each queue, `EndRound`, and a wait:
`Completed`, `NoneActive` (return, or sleep for capacity that another window
holds), `Wake`, `Heed` (the interrupt) or `Refresh` (the progress timer).  A job
is `Chunk`, `BodyEnds`, `ReadFails` on the network and `WorkerStarts`,
`Appended`, `Published`, `WorkerFails`, `Stopped` on the local side.

*Abstractions.*  A change of the Admission and the notification after its unlock
are one step; later it could only wake somebody once more.  Chunks that stay in
the buffer are part of the read.

*Fairness.*  Weak fairness of "some coordinator, some read, some local task goes
on": coordinators have threads of their own, reads and local work end, in
success or failure.  The progress timer and the interrupt are not fair.

*Bounds.*  A download of three jobs, one of them from a file remote, and a repair
whose body fills the buffer; both want the same network remote, which admits one
job, of two that are admitted in all, and the first job of the download takes all
bytes.  One worker makes leases wait for workers (403 k states).  Deadlock is
checked; returned windows stutter.

## Runs

| Run | Properties | What it shows |
|---|---|---|
| `lock_reshape` | `TypeOK` `NothingLost` `CandidatesFaithful` `RecoveryUnambiguous` `ReshapeKeepsEntries` `LiveVanishesSafely` `OperationEnds` | whatever dies and whenever, the entries last published are complete on disk, recovery offers only complete copies and one of them, and every operation ends |
| `desired_mirror` | `TypeOK` `MirrorMatchesCatalog` `ProofHonest` `AdmittedRowsCurrent` `MirrorFresh` `EditKeepsOthers` | mirror, catalog and proofs agree with `gat.lock` wherever a command relies on it, with git writing in between; no edit rolls back somebody else's entry (575 k states) |
| `mount_journal` | `TypeOK` `JournalReadable` `MountsComplete` `ExcludesExact` `ClaimsFollow` `EditsSurvive` `AtomicMounts` | mount commands are atomic under crashes, also in recovery, and their side effects follow (1.2 M states) |
| `mount_journal_tracked` | `Recovers` | beside `gat add` and `gat rm`, a journal left behind is finished (340 k states) |
| `worktree` | `TypeOK` `ProofsHonest` `CleanSyncReconciles` `LocalBytesKept` `TrustRestored` `LedgerNeverAhead` | three commands, two faults, an edit and a checkout anywhere: proofs are honest, a clean sync has reconciled, nobody's work is destroyed unasked (1.2 M states) |
| `publish_window` | `TypeOK` `Accounted` `LimitsHeld` `NoGhostWaiter` `Settled` `FrontierHeld` `Returns` | no obligation is lost or completed twice, budgets hold, nothing beyond the frontier starts, the window returns (142 k states) |
| `gc` | `ReachableKept` | whatever is published, reshaped or interrupted beside it, a collection deletes nothing in a dry run, nothing of a row that nobody touched unless a reshape moved the directory it was listing, nothing a commit named, and nothing of a repository it could not inspect, unless `--unsafe` says so |
| `cache_objects` | `ProofHonest` `ObjectsMatchNames` `AnswersCurrent` | no proof vouches for other bytes, nothing is published under a wrong name (if every edit changes size or mtime, as `hybrid` requires), no answer is older than the question |
| `download_window` | `Settled` `Returns` | a window that has returned has a result wherever its caller relies on one and leaves no worker of its own writing, and every window returns |

`Settled` of `download_window` and of `publish_window` are properties of their
own modules.

Three more runs look for a violation, and find it; each is a statement of the
repository that the code does not keep.

| Run | Property | What happens |
|---|---|---|
| `desired_mirror_aba` | `AddMirrorFresh` | git moves the lock from A to B and back while an add hashes, another command refreshes the mirror at B: the add publishes B's rows over A (repository.rs:562) |
| `gc_moves` | `NamedThroughoutKept` | a collection reads the histories, then the lock is committed and the next command takes the row away, then the collection reads the lock: it sees the object in neither and deletes it, although lock or history named it throughout (gc.rs:197).  Without a commit the same happens around a move between two shards, which deletes the source shard before it writes the destination (persistence.rs:1932); the run's trace is the first; the model with the commit left out has the second |
| `gc_reshape` | `UntouchedKept` | a reshape renames the directory that the collection is listing and deletes it: the listing comes to its end early, without an error, and objects of rows that nobody touched are deleted (persistence.rs:659).  The retry has a second window: one reshape is under way at the first look, its record is gone at the check, and another has moved the lock aside by the second look (persistence.rs:658) |

Five further counterexamples are kept as configurations beside the runs; each
checks one statement, and TLC finds it violated.

| Configuration | Property | What happens |
|---|---|---|
| `LockReshapePending.cfg` | `PendingMeansTracked` | the last entry of a flat lock is removed while an uncleaned PREPARED record is around: "nothing tracked" reads as an interrupted reshape (persistence.rs:1971 against the comment at 2736) |
| `MountJournalOwner.cfg` | `OwnsTarget` | an add that read the configuration before a mount add was journalled tracks a path below the mount's target (repository.rs:558) |
| `WorktreeConflict.cfg` | `WantedBytesNeverConflict` | a sync that died between rename and row leaves the next validated syncs a conflict over a file that already has the wanted bytes (plan.rs:746) |
| `WorktreeWindow.cfg` | `LocalEditsPreserved` | an edit between the rename and the stat is recorded as gat's own and overwritten by a later sync (worktree.rs:887) |
| `PublishWindowError.cfg` | `EarlierErrorsWin` | a remote whose queue a failure emptied still holds the first place for a permit, the earlier upload is never started and the later error is returned (publish.rs:299) |

`Settled` of `publish_window` therefore excuses two ways in which an earlier obligation may be left
behind once the window has failed anyway: `Overtaken`, which is that finding,
and `Abandoned`: an obligation that joins an oid still noted as running after
its verification failed or was dropped waits for nobody (publish.rs:224).  Both
are reachable in the instance.  Which of two errors is reported then depends on
the schedule; no obligation is ever reported as done that was not.  In the same
way `ProofsHonest` and `LocalBytesKept` excuse rows raced as `WorktreeWindow.cfg`
shows, `MirrorFresh` leaves the add of `desired_mirror_aba` out, and
`ReachableKept` excuses a listing that a reshape has overtaken (in either
window) and paths that a command touched; what is left of each property is what the code does keep.

## Proofs

TLC checks the instances above; TLAPS proves the following for every value of
the constants that satisfies the assumptions named in the modules: every number
of processes, paths, shards, objects, windows, crashes and edits.  An invariant
was checked by TLC before it was proved.  Each proof module lists its inductive
invariant first, then the lemmas on the model's operators, then one lemma per
action (or group of actions of one kind), then the theorems.

| Module | Theorems | Properties |
|---|---|---|
| `LockReshapeProofs` | `TypeCorrect` `NothingIsLost` `RecoveryIsUnambiguous` `CandidatesAreFaithful` `ReshapeIsInvisible` `VanishesSafely` | `TypeOK` `NothingLost` `RecoveryUnambiguous` `CandidatesFaithful` `ReshapeKeepsEntries` `LiveVanishesSafely` |
| `DesiredMirrorProofs` | `TypeCorrect` `ProofsAreHonest`; with `FlatHistory`: `MirrorIsRecorded` `SyncIsCurrent` `MirrorIsFresh` `EditsKeepOthers` | `TypeOK` `ProofHonest` `MirrorMatchesCatalog` `AdmittedRowsCurrent` `MirrorFresh` `EditKeepsOthers` |
| `MountJournalProofs` | `TypeCorrect` `JournalIsReadable` `EditsAreKept` `MountsAreAtomic`; with a premise on `Kinds`: `MountsAreComplete` `ExcludesAreExact` `ClaimsAreFollowed` | `TypeOK` `JournalReadable` `EditsSurvive` `AtomicMounts` `MountsComplete` `ExcludesExact` `ClaimsFollow` |
| `WorktreeProofs` | `TypeCorrect` `ProofsAreHonest` `CleanSyncIsReconciled` `TrustIsRestored` `LedgerIsNeverAhead` `LocalBytesAreKept` | `TypeOK` `ProofsHonest` `CleanSyncReconciles` `TrustRestored` `LedgerNeverAhead` `LocalBytesKept` |
| `GarbageCollectionProofs` | `TypeCorrect` `KeepsReachable` | `ReachableKept` |
| `CacheObjectsProofs` | `TypeCorrect` `ProofsAreHonest` `NamesAreTrue` `AnswersAreCurrent` | `ProofHonest` `ObjectsMatchNames` `AnswersCurrent` |
| `DownloadWindowProofs` | `WindowsSettle` | `Settled` |
| `PublishWindowProofs` | `TypeCorrect` `EveryObligationAccounted` `NothingBeyondBegun` `BudgetsHeld` `NoPlaceKept` `WindowsReturnSettled` | `TypeOK` `Accounted` `FrontierHeld` `LimitsHeld` `NoGhostWaiter` `Settled` |

### LockReshapeProofs

The assumptions are the four of `LockReshape`: depth 0 is a depth
(`LevelsAssumption`), every path has a shard at every depth
(`ShardOfAssumption`), and `None` differs from everything it may stand beside
(`NoneAssumption`, `NoFileAssumption`).

`NothingLost` is not inductive: whether a rename may happen depends on what its
command found and staged earlier.  The invariant is

    IInv == TypeOK /\ Mutex /\ Consistent /\ \A p \in Procs : Protocol(p)

`Mutex` says that exactly the holder of the `RepoLock` is inside an operation.
`Consistent` says that `gat.lock` holds the published entries or, if it is
missing, a recoverable backup does.  `Protocol(p)` says what the holder relies
on at each of its steps: the staged copy has the target shape and, once
validated, the entries wanted (`Staging`); the record names the shape of the
live lock before the first rename (`Recorded`); nothing is swept, tidied or
moved aside while it may be the only copy (`LiveNeeded`); publication in place
starts from all entries (`InPlace`); a copy chosen for recovery is still there
(`Recovering`); a reshape stages what is published (`Reshaping`).  Since the
holder alone changes the disk, `StepOthers` shows that no step disturbs the
protocol of another process, and `ReshapeProtocol`, `PublishProtocol` and
`MaintenanceProtocol` go through the holder's own steps; `StepConsistent` shows
that each keeps the entries recoverable.  The two action properties follow from
the invariant in `StepKeepsEntries` and `StepVanishes`.

What recovery offers needs a second invariant beside the first, about all
transactions and not only that of the holder:

    Scratch == Unopened /\ Single /\ StagedWhole /\ \A p \in Procs : Opened(p)

A directory that is not there holds nothing; at most one transaction has a
record; beside a missing lock a prepared transaction still has its staged copy
as a whole or not at all, because nobody removes pieces of scratch then; and a
command that sweeps older scratch has condemned all of it, so that its own
directory is the only one by the time it writes its record (`Opened`).  The last
part is what `RecoveryUnambiguous` rests on.

### DesiredMirrorProofs

Two invariants.  `Base` needs the assumptions of the model only: every recorded
shard holds paths that hash to it, a stat proof that still matches was taken of
what the file holds, in the catalog and in what each process has seen
(`Sound`), and a publication has evidence of exactly the shards it has done
(`Underway`).  It gives `TypeOK` and `ProofHonest`.

`Agreement` says that every slice of the mirror is what the catalog recorded
(`Matched`), and per process what it holds at each step: the revision it saw has
one shape, what it refreshed is what `gat.lock` holds unless somebody wrote since
(`Fresh`), and in a publication `gat.lock` is ahead of the mirror by exactly the
shards published so far (`Ahead`).  `Agreement` is not an invariant of every
history, and for a reason: it needs

    FlatHistory == 0 \in Targets => DepthsOf[0] = {0}

Without it TLC finds a behaviour of 14 states (`DepthsOf[0] = {0, 1}`,
`Targets = {0}`): an add pins a missing lock; git brings a shard tree into this
repository, which is configured flat, another command refreshes the mirror from
it, and git takes the tree away again, so that the add finds the identity it
pinned.  It publishes one flat file with the rows the mirror still has, and the
commit replaces the shard of its own row only: mirror and catalog go on naming
a shard that `gat.lock` does not have.  This is the ABA of `desired_mirror_aba`
in a second form.  `FlatHistory` is therefore
a premise of the four theorems about rows, and what the runs assume; a
repository configured with shards may have both shapes in its history.

### MountJournalProofs

The invariant has four parts, each with its own scope.

- `Protocol`: exactly the process that is past its first read holds the lock;
  what each process holds is of its command and label (`Named`); while windows
  are staged, those on disk and those still to come are the snapshot of the
  record (`Prepared`); the label says which journal there is (`Journalled`); and
  beside a journal in phase publish the windows are as many as it counts, none
  is empty, and together they are its snapshot (`Pending`).
- `RowsKept`: nothing lies below a target that is new to a record until its
  first shard is replayed (`Untouched`), and the deletions and replays so far
  are those that the process thinks it has done (`Progress`), in a first attempt
  and in every recovery alike.
- `MountsPromised`: every promised mount has its whole snapshot, and no two
  share a target.
- `Following`: claims and excludes are behind the rows by what is under way.

The first two hold for every set of command kinds, and give `TypeOK`,
`JournalReadable`, `EditsSurvive` and the refinement: `StepMaps` maps every step
to one of `MountRegistry` or to a stutter (`WriteJournalStep` is where a command
takes effect; a failed add that is rolled back is, to the registry, its removal,
and the registry allows it).  `MountsAreAtomic` is thus proved beside `gat add`
and `gat rm` as well, and for any number of names, where the run has one.

The other theorems have a premise on `Kinds`, which names what else runs:
`MountsAreComplete` excludes `gat add`, `ExcludesAreExact` and
`ClaimsAreFollowed` exclude `gat add` and `gat rm`, as the run `mount_journal`
does.  The premises are needed.  With mount, add and rm together TLC finds
`MountsComplete` violated: detach and rm take a mount away and mounting again
gives its rows back while an add hashes, so that the rows the add has seen are
the rows it finds and it tracks a path below the mount (the finding
of `MountJournalOwner.cfg`, by another way).  And an add or rm changes a row one step
before it notes it in the excludes and the ledger, without a journal that would
say so.

### WorktreeProofs

The invariant is `TypeOK /\ Vouching /\ Syncing /\ Moving`.  `Vouching`: every
row in the ledger, in a batch or in the hands of a command names content that is
kept elsewhere, and has a proof of that content unless it was raced.  `Syncing`
is the account of a walk: every path met is in the window once, or in the
batch, or settled, that is, agrees with the lock the sync read (`Once`,
`WalkSettled`); rows in a batch speak of files as they are (`BatchShown`); the
window destroys only bytes gat had placed (`WindowGuarded`).  Parts of it excuse
the paths the user touched in the meantime.  `Moving`: a move that may be undone
left its source empty.

`CleanSyncReconciles` is the last state of that account; `LedgerNeverAhead` and
`LocalBytesKept` are read off each kind of step (`SyncRecords`, `WindowGuarded`).
The assumptions are those of the model; `Order` lists the paths, each once, and
windows and batches have any positive size.

### GarbageCollectionProofs

`ReachableKept` speaks of what was deleted, and rests on what the keep set held
at the time, which rests on what was listed: the invariant is

    IInv == TypeOK /\ Editing /\ Steady /\ Listed /\ Traced /\ Merged /\ Spared

`Editing`: the files hold the rows of before or after the command for each path,
and the lock is missing with rows in the files only inside a reshape with a
record.  `Steady`: an untouched path has the row it started with.  `Listed`: as
long as no reshape overtook the listing, an untouched row is in the keep set, or
its shard is still to be found or read.  `Traced` and `Merged` are the same for
commits and for other repositories.  `Spared`: nothing in the keep set is
removed, or about to be, and nothing before the marks are in.

`GcAssumption` says that `Flat` is no shard and
`NoOid` no object, and types the rest.

### CacheObjectsProofs

`CacheObjectsProofs` proves, for every set of clients and of objects, every
window and every bound:

- `TypeCorrect`: `Spec => []TypeOK`
- `ProofsAreHonest`: `Spec => []ProofHonest`
- `NamesAreTrue`: `Spec => []ObjectsMatchNames`
- `AnswersAreCurrent`: `Spec => []AnswersCurrent`

from one assumption, `CacheAssumption`: `Junk`, `None`, `Absent` and `Special`
differ from what they stand beside, and the bounds are numbers.  That an edit of a
source changes its stat is part of the model (`EditSource`), and `NamesAreTrue`
rests on it.

`ProofHonest` is not inductive: a stat that is only in a temporary file, or in the
hands of a worker, becomes a proof later.  The invariant is

    IInv == TypeOK /\ Bounded /\ Fresh /\ Named /\ Honest /\ ObjectsMatchNames

`Bounded` says that no stat is in use that has not been given out, so that a
file which comes to be matches no proof; `Fresh`, that the stat of a temporary
file is nobody else's and no worker has observed it; `Named`, what each ingest
knows at each of its steps (a name is that of the copy; while the source is the
one of the fingerprint, hash and copy are of its bytes); `Honest` extends
`ProofHonest` to what a worker holds before the last look (`stat`, `confirm`) and
to an ingest between its publication and the last look at its source.  One lemma
per group of actions (`LookPreserves`, `MakesPreserves`, ...) shows that it is
preserved.  `AnswersCurrent` needs besides that a client has seen at least what is
true now (`TruthSeen`); the lemmas `PutAnswers` to `PublishAnswers` preserve both.

### DownloadWindowProofs

`WindowsSettle` (`Spec => []Settled`) holds for every set of windows, of which any
may be downloads or repairs, every assignment of jobs to remotes and every limit,
from `JobsAssumption` (jobs are sequences, and no job needs more than its
remote's budget), `LimitsAssumption` and `NoneAssumption` (no result is not a
result).  The invariant is

    IInv == Typed /\ Asked /\ Working /\ \A w \in Windows : WindowInv(w)

`WindowInv` says where the jobs of a window are (`Placed`: in one of its queues,
which are increasing and have nothing in common, or under a lease, or with a
result, or beyond the frontier of a download), what the frontier is (`Bounded`:
the index of a failure, of a download), that a round finds a job in each queue it
has not visited (`Full`), and what is left on return (`Ended`: nothing).  It
shows why `DropBeyond` may clear a whole queue: the queue is increasing, so
what it drops lies beyond the frontier, and the frontier itself is not in it,
because it has a result.  `Working` ties a local task to a job under way: a
worker that outlived its job would be one that a window leaves behind.
`Asked` says that nothing is recorded as cancelled unless it was.

The queues are filtered.  `Keep` (in `Collections`) is a recursive function, and what it returns
for every sequence is an induction over it.  `Induction` states that as a fact
about sets (a set with 0 and the successor of each of its numbers has all of
them), from the library's theorem that every set of numbers has a least one
(`WFMin`, which takes no operator): `ScanExists` shows that the recursion has a
solution, `KeepPicks` that the result is the subsequence of what is kept, and
`KeepOrdered`, `QueuesOrdered`, `ReplaceOrdered` what follows for the queues.

### PublishWindowProofs

`PublishWindowProofs` proves, for every list of obligations, every number of
remotes and objects, and every capacity, budget and batch size:

- `TypeCorrect`: `Spec => []TypeOK`
- `EveryObligationAccounted`: `Spec => []Accounted`
- `NothingBeyondBegun`: `Spec => FrontierHeld`
- `BudgetsHeld`: `Spec => []LimitsHeld`
- `NoPlaceKept`: `Spec => []NoGhostWaiter`
- `WindowsReturnSettled`: `Spec => []Settled`

from `ObjectsAssumption` (a window is a sequence of at least one obligation,
without repetitions, to finitely many remotes), `BudgetAssumption` (capacities
and batches are at least one; no upload needs more than its remote's budget, and
no remote's budget is more than that of all) and `NoneAssumption` (no status is
not a status).  The invariant is

    IInv == Located /\ Before /\ Held /\ Scanned

in four layers, each proved from those before it; TLC checked `IInv` on the
instance of `PublishWindow.cfg` first.

- `Located` says where things are.  `Kept`: an obligation is in one of six places
  at most, in none once it has its status, and in one until then if it lies before
  the frontier.  `Listed`: the queues hold each obligation once, and only those of
  their remote.  `Checked`: a verification is queued or under way at most once, and
  is noted as running; somebody waits for it; whoever waits for one that does
  neither is beyond the frontier or came late.  `Accounted` alone is not inductive:
  what a finished verification releases would otherwise be in a second place
  already, or be forgotten while nobody answers for it.
- `Before`: what is queued to be probed or uploaded lies before the frontier, so
  that nothing beyond it is begun (`FrontierHeld`).  What is begun may lie beyond.
- `Held`: the budgets.  A batch returns its permits one by one, and those of a
  batch with nothing left to answer must be gone; the sums change by exactly what
  an action adds or takes away.  An upload is begun only when `CanUpload` has seen
  room for it in all four limits (`Room`).
- `Scanned`: what a refill knows of the remotes it has passed.  `Passing`: their
  places in the queue are those of their next upload (`Right`), and their probes
  are exhausted or have no permit.  `Rested` is what this becomes when the
  coordinator waits or returns, and `NoGhostWaiter` and `Settled` follow from it.

The hard step is that a window does not return with uploads that could have been
begun.  With no uploads under way and no failure, every place in the queue is
that of an upload that exists (`InLine`), it needs no more than its remote's budget,
and so the first in line has room (`FirstGranted`): when the scan comes to
it, it is admitted.  `Foremost` carries this through the scan: the first in line
has not been passed yet, and who was passed with an upload left did not find the
queue empty.  With a failure the argument breaks: a first place may be that
of a remote whose uploads were dropped; this is what `Overtaken` stands for in
`Settled`, and what `PublishWindowError.cfg` shows.

The sums are over finite sets (`Sum`).  `IterExists` and `IterUnique` show by
`Induction` what `MapThenSumSet` stands for, and from them follow what one element
adds (`SumAdd`), that a sum is a number (`SumNat`) and monotone (`SumWithin`,
`SumPart`): the library's theorems about this take an operator.  The lemmas on `Keep` are stated again, because `DownloadWindowProofs`
EXTENDS another state machine.

### Only model-checked

- Liveness: `OperationEnds`, `Recovers`, both `Returns`.  They need fairness and
  ENABLED, which the prover does not reason about.
- The properties of the violation runs, and those of the five configurations
  kept beside them, are statements the code does not keep (see Runs).

Every invariant and every action property of the passing runs is the conclusion
of a theorem.

## Not modelled

- Readers of `gat.lock` that take no lock, other than garbage collection (history
  and status commands): they read by the same functions and delete nothing.
- Remotes beyond success and failure: their protocols are I/O.
- The lock format and the three-way merge (`gat-core/src/lock/merge.rs`),
  selection and globs: pure functions over text.  The repository tests the prefix
  search of the merge against a pairwise reference on every subset of its pool.
- Several configuration scopes, nested mounts, mount sources.
- Link strategies, symlinks, directories and path confinement in the worktree.
- The mmap ingest strategy, and opening or migrating the cache database.
- The materialized half of the state database outside `Worktree`; migrations.
- Argument parsing, progress, output.

Some hazards are known and no property is about them.  Reshaping to a sharded
layout with no entries stages a directory without a shape (above, `RefuseStaged`).
A file edited between its classification and the rename that replaces it is
overwritten (worktree.rs:866): no program can exclude this without the help of
the file system.  A `gat rm --cached` that dies after publishing leaves a row,
and the next sync removes the file (remove.rs:150).

## Plan

Done: all modules above.  Next, in this order:

1. `LockMerge`: `merge_three_way` and `directory_prefix_conflict` as operators
   against the definition over all pairs of paths, and the merge of a sharded
   lock shard by shard.
2. `GarbageCollection` beside a push to the collected remote, and beside
   `CacheObjects` (an add that finds its object cached, and a sweep).
3. Configuration scopes and nested mounts in `MountJournal`.

Proofs next: the invariants that come with these modules.  What is left of the
present ones is liveness, which stays with TLC.
