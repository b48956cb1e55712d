------------------------- MODULE GarbageCollection -------------------------
(***************************************************************************)
(* `gat gc` beside the commands that edit gat.lock.  The collection marks  *)
(* what the selected history, the working lock and the additional          *)
(* repositories name, and then sweeps the local cache or a remote.  It     *)
(* never takes the RepoLock: the working lock is listed and read shard by  *)
(* shard while an editor publishes shards, or while a reshape renames the  *)
(* whole representation away.                                              *)
(*                                                                         *)
(* Sources: gat-engine/src/gc.rs, gat-io/src/cache/enumeration.rs and the  *)
(* readers of gat-io/src/lock/persistence.rs; the publications are those   *)
(* of LockReshape, reduced to what a reader without the lock can see of    *)
(* them.  One level of shards; a coherent read of one shard is one step.   *)
(***************************************************************************)
EXTENDS Naturals, FiniteSets

CONSTANTS
  Paths,        \* tracked paths
  Oids,         \* objects
  NoOid,        \* a path without a row
  Slots,        \* shard ids of the sharded layout
  SlotOf,       \* the shard a path hashes to
  Flat,         \* the one shard of the flat layout
  StartRows,    \* the rows gat.lock may hold when the behaviour starts
  Past,         \* oids named by the commits of this repository
  Hidden,       \* those of them beyond the boundary of a shallow clone
  Repos,        \* additional repositories (--repository)
  RepoOids,     \* what each of them names
  Window,       \* candidates per remote deletion window
  MaxEdits,     \* bound: commands that edit rows
  MaxReshapes   \* bound: reshapes

ASSUME GcAssumption ==
  /\ NoOid \notin Oids /\ Flat \notin Slots
  /\ SlotOf \in [Paths -> Slots]
  /\ StartRows \subseteq [Paths -> Oids \cup {NoOid}]
  /\ Hidden \subseteq Past /\ Past \subseteq Oids
  /\ RepoOids \in [Repos -> SUBSET Oids]
  /\ Window \in Nat \ {0} /\ MaxEdits \in Nat /\ MaxReshapes \in Nat

VARIABLES
  \* gat.lock
  live,       \* what is at the live path: "missing", "flat" or "sharded"
  disk,       \* the rows its files hold (in a reshape: the old and new files)
  record,     \* a reshape's prepared record exists
  lock,       \* the rows after the last command that returned or was killed
  past,       \* oids named by the commits
  editor,     \* the command that holds the RepoLock
  edits, reshapes,
  \* the collection
  options, shallow, cancelled,
  phase, listing, keep, pending, issues,
  store,      \* objects in the collected storage
  unswept, candidates, failed,
  \* history of the collection, for the properties
  removed,    \* objects it deleted
  start,      \* rows and commits when it started
  touched,    \* paths an editor has changed since
  named       \* oids every command since has left named by lock or commit

editing == <<live, disk, record, lock, editor, edits, reshapes>>
marking == <<phase, listing, keep, pending, issues, unswept, candidates, failed>>
ghosts == <<removed, start, touched, named>>
vars == <<editing, past, options, shallow, cancelled, marking, store, ghosts>>

Rows == [Paths -> Oids \cup {NoOid}]
NoRows == [p \in Paths |-> NoOid]
Named(rows) == {rows[p] : p \in Paths} \ {NoOid}
Holds(f) == IF f = Flat THEN Paths ELSE {p \in Paths : SlotOf[p] = f}
RowsOf(f) == {disk[p] : p \in Holds(f)} \ {NoOid}
Changed(rows) == {p \in Paths : rows[p] # lock[p]}

\* An emptied shard is removed, never left behind as an empty file.
Present(f) == IF f = Flat THEN live = "flat" ELSE (live = "sharded" /\ RowsOf(f) # {})

NoListing == [dir |-> "none", todo |-> {}, found |-> {}, overtaken |-> FALSE]
Idle == [at |-> "idle", want |-> NoRows, todo |-> {}, shape |-> "flat"]

Options == [dry_run : BOOLEAN, unsafe : BOOLEAN, history : BOOLEAN, remote : BOOLEAN]

Init ==
  /\ disk \in StartRows
  /\ live \in IF disk = NoRows THEN {"missing"} ELSE {"flat", "sharded"}
  /\ record = FALSE /\ lock = disk /\ past = Past
  /\ editor = Idle /\ edits = 0 /\ reshapes = 0
  /\ options \in Options /\ cancelled = FALSE
  /\ shallow \in IF options.history THEN BOOLEAN ELSE {FALSE}  \* read with the history only
  /\ phase = "start" /\ listing = NoListing /\ keep = {} /\ failed = FALSE
  /\ pending = Repos /\ issues = {} /\ unswept = {} /\ candidates = {}
  /\ store = Oids
  /\ removed = {} /\ start = [rows |-> disk, past |-> Past]
  /\ touched = {} /\ named = {}

-----------------------------------------------------------------------------
(* The commands that edit gat.lock: add, rm and mv publish the touched     *)
(* shards, sync and the maintenance commands reshape the layout.           *)

\* The rows another row set replaces: of one path added or changed, of one
\* removed, of one moved to a free path.
Edits == {[lock EXCEPT ![p] = o] : p \in Paths, o \in Oids \cup {NoOid}}
           \cup {[lock EXCEPT ![p] = NoOid, ![q] = lock[p]] :
                   p \in Paths, q \in {r \in Paths : lock[r] = NoOid}}

\* The objects of new rows are in the cache before the rows are published.
BeginEdit(rows, shape) ==
  /\ editor.at = "idle" /\ edits < MaxEdits
  /\ rows \in Edits \ {lock}
  /\ shape = live \/ (live = "missing" /\ shape \in {"flat", "sharded"})
  /\ edits' = edits + 1
  /\ editor' = [at |-> "publish", want |-> rows, shape |-> shape,
                todo |-> IF shape = "flat" THEN {Flat}
                         ELSE {SlotOf[p] : p \in Changed(rows)}]
  \* save_sparse_shards creates the directory first.
  /\ live' = IF shape = "sharded" THEN shape ELSE live
  /\ store' = IF options.remote THEN store ELSE store \cup (Named(rows) \ Named(lock))
  /\ touched' = touched \cup Changed(rows)
  /\ UNCHANGED <<disk, record, lock, reshapes, past, options, shallow, cancelled,
                 marking, removed, start, named>>

\* One shard: written by one rename, or removed when no row is left in it.
Publish(f) ==
  /\ disk' = [p \in Paths |-> IF p \in Holds(f) THEN editor.want[p] ELSE disk[p]]
  /\ editor' = [editor EXCEPT !.todo = @ \ {f}]
  /\ UNCHANGED <<record, lock, edits, reshapes, past, options, shallow, cancelled,
                 marking, store, ghosts>>

Emptied(f) == \A p \in Holds(f) : editor.want[p] = NoOid

PublishFlat ==
  /\ editor.at = "publish" /\ Flat \in editor.todo
  /\ live' = IF Emptied(Flat) THEN "missing" ELSE "flat"
  /\ Publish(Flat)

\* Emptied shards are removed before any other is written.
RemoveEmptied(s) ==
  /\ editor.at = "publish" /\ s \in editor.todo \cap Slots /\ Emptied(s)
  /\ UNCHANGED live
  /\ Publish(s)

WriteShard(s) ==
  /\ editor.at = "publish" /\ s \in editor.todo \cap Slots
  /\ \A t \in editor.todo : ~Emptied(t)
  /\ UNCHANGED live
  /\ Publish(s)

Reachable(rows, commits) == Named(rows) \cup commits

FinishEdit ==
  /\ editor.at = "publish" /\ editor.todo = {}
  /\ editor' = Idle
  /\ lock' = editor.want
  /\ named' = named \cap Reachable(editor.want, past)
  /\ UNCHANGED <<live, disk, record, edits, reshapes, past, options, shallow, cancelled,
                 marking, store, removed, start, touched>>

Other(shape) == IF shape = "flat" THEN "sharded" ELSE "flat"

\* reshape_transactional: the new layout is staged and a record written.
PrepareReshape ==
  /\ editor.at = "idle" /\ reshapes < MaxReshapes
  /\ live # "missing" /\ disk # NoRows
  /\ reshapes' = reshapes + 1
  /\ record' = TRUE
  /\ editor' = [at |-> "prepared", want |-> lock, todo |-> {}, shape |-> Other(live)]
  /\ UNCHANGED <<live, disk, lock, edits, past, options, shallow, cancelled, marking,
                 store, ghosts>>

\* A directory handle a reader has open moves with the directory; a reader that
\* has found no record is about to look at a lock that is not there again.
MoveAside ==
  /\ editor.at = "prepared"
  /\ live' = "missing"
  /\ editor' = [editor EXCEPT !.at = "moved"]
  /\ listing' = CASE phase = "scan" /\ listing.dir = "live" ->
                       [listing EXCEPT !.dir = "moved", !.overtaken = TRUE]
                  [] phase = "relist" -> [listing EXCEPT !.overtaken = TRUE]
                  [] OTHER -> listing
  /\ UNCHANGED <<disk, record, lock, edits, reshapes, past, options, shallow, cancelled,
                 phase, keep, pending, issues, unswept, candidates, failed, store, ghosts>>

Promote ==
  /\ editor.at = "moved"
  /\ live' = editor.shape
  /\ editor' = [editor EXCEPT !.at = "promoted"]
  /\ UNCHANGED <<disk, record, lock, edits, reshapes, past, options, shallow, cancelled,
                 marking, store, ghosts>>

\* The transaction directory goes, and the files of the backup with it: a
\* handle that is still being read reports the end of the directory.
CleanUp ==
  /\ editor.at = "promoted"
  /\ record' = FALSE
  /\ editor' = Idle
  /\ listing' = IF listing.dir = "moved" THEN [listing EXCEPT !.dir = "removed"] ELSE listing
  /\ UNCHANGED <<live, disk, lock, edits, reshapes, past, options, shallow, cancelled,
                 phase, keep, pending, issues, unswept, candidates, failed, store, ghosts>>

\* A killed command leaves what it did behind; nobody repairs it here.
Die ==
  /\ editor.at \notin {"idle", "dead"}
  /\ editor' = [editor EXCEPT !.at = "dead"]
  /\ lock' = disk
  /\ named' = named \cap Reachable(disk, past)
  /\ UNCHANGED <<live, disk, record, edits, reshapes, past, options, shallow,
                 cancelled, marking, store, removed, start, touched>>

\* git commit.
Commit ==
  /\ editor.at = "idle"
  /\ ~ Named(lock) \subseteq past
  /\ past' = past \cup Named(lock)
  /\ UNCHANGED <<editing, options, shallow, cancelled, marking, store, ghosts>>

-----------------------------------------------------------------------------
(* compute_keep_set                                                        *)

Fail ==
  /\ phase' = "failed" /\ failed' = TRUE
  /\ UNCHANGED <<listing, keep, pending, issues, unswept, candidates>>

Destructive == ~options.dry_run /\ ~options.unsafe

\* The paths of a publication that is under way count as touched.
Start ==
  /\ phase = "start"
  /\ start' = [rows |-> lock, past |-> past]
  /\ touched' = IF editor.at = "idle" THEN {} ELSE Changed(editor.want)
  /\ named' = Reachable(lock, past)
  /\ \/ /\ cancelled \/ (options.remote /\ Destructive)
        /\ Fail
     \/ /\ ~cancelled /\ ~(options.remote /\ Destructive)
        /\ phase' = "history"
        /\ UNCHANGED <<listing, keep, pending, issues, unswept, candidates, failed>>
  /\ UNCHANGED <<editing, past, options, shallow, cancelled, store, removed>>

Gc(A) == A /\ UNCHANGED <<editing, past, options, shallow, cancelled, store, ghosts>>

\* visit_history_lock_entries: commits never change, so this is one look.
MarkHistory ==
  /\ phase = "history"
  /\ phase' = "list"
  /\ keep' = IF ~options.history THEN {} ELSE IF shallow THEN past \ Hidden ELSE past
  /\ UNCHANGED <<listing, pending, issues, unswept, candidates, failed>>

\* Any read of the mark may fail: the file changed while it was read, ...
MarkFails == phase \in {"history", "list", "scan", "relist", "read"} /\ Fail

\* Fault: the flat file is gone through like a directory.
ObserveAlike(missing) ==
  /\ phase' = IF live = "missing" THEN missing ELSE "scan"
  /\ listing' = [NoListing EXCEPT !.todo = IF live = "flat" THEN {Flat} ELSE Slots]
  /\ UNCHANGED <<keep, pending, issues, unswept, candidates, failed>>

\* list_shard_files_at: missing, one flat file, or a directory to go through.
Observe(missing) ==
  /\ \/ /\ live = "missing"
        /\ phase' = missing
        /\ listing' = [NoListing EXCEPT !.overtaken = listing.overtaken]
     \/ /\ live = "flat"
        /\ phase' = "read"
        /\ listing' = [NoListing EXCEPT !.found = {Flat}]
     \/ /\ live = "sharded"
        /\ phase' = "scan"
        /\ listing' = [NoListing EXCEPT !.dir = "live", !.todo = Slots]
  /\ UNCHANGED <<keep, pending, issues, unswept, candidates, failed>>

List == phase = "list" /\ Observe("check")

\* Fault: a missing gat.lock is taken for an empty one.
CheckSkipped ==
  /\ phase = "check"
  /\ phase' = "relist"
  /\ UNCHANGED <<listing, keep, pending, issues, unswept, candidates, failed>>

\* fail_if_pending_reshape
Check ==
  /\ phase = "check"
  /\ \/ record /\ Fail
     \/ ~record /\ phase' = "relist"
                /\ UNCHANGED <<listing, keep, pending, issues, unswept, candidates, failed>>

Relist == phase = "relist" /\ Observe("read")

\* The directory is read name by name, of whatever the handle now refers to.
Scan(s) ==
  /\ phase = "scan" /\ s \in listing.todo
  /\ listing' = [listing EXCEPT !.todo = @ \ {s},
                   !.found = IF listing.dir # "removed" /\ RowsOf(s) # {}
                             THEN @ \cup {s} ELSE @]
  /\ phase' = IF listing.todo = {s} THEN "read" ELSE "scan"
  /\ UNCHANGED <<keep, pending, issues, unswept, candidates, failed>>

\* visit_lock_rows_validated: a listed file that is gone is an error.
Read(f) ==
  /\ phase = "read" /\ f \in listing.found
  /\ \/ /\ ~Present(f)
        /\ Fail
     \/ /\ Present(f)
        /\ keep' = keep \cup RowsOf(f)
        /\ listing' = [listing EXCEPT !.found = @ \ {f}]
        /\ UNCHANGED <<phase, pending, issues, unswept, candidates, failed>>

SeenShallow == shallow /\ options.history

MarkEnds ==
  /\ phase = "read" /\ listing.found = {}
  /\ \/ /\ SeenShallow /\ Destructive
        /\ Fail
     \/ /\ ~(SeenShallow /\ Destructive)
        /\ phase' = "others"
        /\ UNCHANGED <<listing, keep, pending, issues, unswept, candidates, failed>>

\* additional_repositories: merged as they come, and an interrupt, a failed
\* clone or a shallow one is an issue.
Inspect(r) ==
  /\ phase = "others" /\ r \in pending
  /\ pending' = pending \ {r}
  /\ \/ /\ ~cancelled
        /\ keep' = keep \cup RepoOids[r]
        /\ UNCHANGED issues
     \/ /\ issues' = issues \cup {r}
        /\ UNCHANGED keep
  /\ UNCHANGED <<phase, listing, unswept, candidates, failed>>

KeepSetReady ==
  /\ phase = "others" /\ pending = {}
  /\ \/ /\ cancelled \/ (issues # {} /\ Destructive)
        /\ Fail
     \/ /\ ~cancelled /\ ~(issues # {} /\ Destructive)
        /\ phase' = IF options.remote THEN "inventory" ELSE "sweep"
        /\ unswept' = store
        /\ UNCHANGED <<listing, keep, pending, issues, candidates, failed>>

-----------------------------------------------------------------------------
(* gc_local: the sweep of the cache, and gc_remote: inventory and deletion *)

Uncertain == (SeenShallow \/ issues # {}) /\ ~options.unsafe

Delete(objects) ==
  /\ store' = store \ objects
  /\ removed' = removed \cup (objects \cap store)

Doomed(o) == o \notin keep /\ ~Uncertain /\ ~options.dry_run

\* Fan-out directories are swept in parallel; one that stops with an error
\* (the interrupt, an unlink that failed) leaves its peers running.
Sweep(o) ==
  /\ phase = "sweep" /\ o \in unswept
  /\ unswept' = unswept \ {o}
  /\ \/ /\ o \in store
        /\ cancelled \/ Doomed(o)
        /\ failed' = TRUE
        /\ UNCHANGED <<store, removed>>
     \/ /\ o \in store /\ ~cancelled /\ Doomed(o)
        /\ Delete({o})
        /\ UNCHANGED failed
     \/ /\ o \notin store \/ (~cancelled /\ ~Doomed(o))
        /\ UNCHANGED <<store, removed, failed>>
  /\ UNCHANGED <<editing, past, options, shallow, cancelled, phase, listing, keep, pending,
                 issues, candidates, start, touched, named>>

SweepEnds ==
  /\ phase = "sweep" /\ unswept = {}
  /\ phase' = IF failed THEN "failed" ELSE "done"
  /\ UNCHANGED <<listing, keep, pending, issues, unswept, candidates, failed>>

\* collect_remote_candidates: only a listing that ends has candidates.
Inventory(o) ==
  /\ phase = "inventory" /\ o \in unswept
  /\ \/ Fail
     \/ /\ ~cancelled
        /\ unswept' = unswept \ {o}
        /\ candidates' = IF o \in keep THEN candidates ELSE candidates \cup {o}
        /\ UNCHANGED <<phase, listing, keep, pending, issues, failed>>

InventoryEnds ==
  /\ phase = "inventory" /\ unswept = {}
  /\ phase' = IF options.dry_run \/ Uncertain THEN "done" ELSE "delete"
  /\ UNCHANGED <<listing, keep, pending, issues, unswept, candidates, failed>>

\* delete_remote_candidates: a started window is finished, or fails half way.
DeleteWindow(w) ==
  /\ phase = "delete" /\ w \subseteq candidates /\ w # {}
  /\ Cardinality(w) = IF Cardinality(candidates) < Window THEN Cardinality(candidates)
                       ELSE Window
  /\ \/ /\ cancelled
        /\ Fail
        /\ UNCHANGED <<store, removed>>
     \/ /\ ~cancelled
        /\ candidates' = candidates \ w
        /\ Delete(w)
        /\ UNCHANGED <<phase, listing, keep, pending, issues, unswept, failed>>
     \/ /\ ~cancelled
        /\ \E part \in SUBSET w : Delete(part)
        /\ Fail
  /\ UNCHANGED <<editing, past, options, shallow, cancelled, start, touched, named>>

DeletionEnds ==
  /\ phase = "delete" /\ candidates = {}
  /\ phase' = "done"
  /\ UNCHANGED <<listing, keep, pending, issues, unswept, candidates, failed>>

Interrupt ==
  /\ ~cancelled /\ phase \notin {"done", "failed"}
  /\ cancelled' = TRUE
  /\ UNCHANGED <<editing, past, options, shallow, marking, store, ghosts>>

-----------------------------------------------------------------------------
Edit ==
  \/ \E rows \in Edits, shape \in {"flat", "sharded"} : BeginEdit(rows, shape)
  \/ PublishFlat
  \/ \E s \in Slots : RemoveEmptied(s) \/ WriteShard(s)
  \/ FinishEdit \/ PrepareReshape \/ MoveAside \/ Promote \/ CleanUp

Mark ==
  \/ MarkHistory \/ MarkFails \/ List \/ Check \/ Relist \/ MarkEnds \/ KeepSetReady
  \/ \E s \in Slots : Scan(s)
  \/ \E f \in Slots \cup {Flat} : Read(f)
  \/ \E r \in Repos : Inspect(r)

Collect ==
  \/ Start
  \/ Gc(Mark)
  \/ \E o \in Oids : Sweep(o) \/ Gc(Inventory(o))
  \/ \E w \in SUBSET Oids : DeleteWindow(w)
  \/ Gc(SweepEnds) \/ Gc(InventoryEnds) \/ Gc(DeletionEnds)

Next == Edit \/ Die \/ Commit \/ Collect \/ Interrupt

Spec == Init /\ [][Next]_vars

-----------------------------------------------------------------------------
Phases == {"start", "history", "list", "check", "relist", "scan", "read", "others",
           "sweep", "inventory", "delete", "done", "failed"}

\* Every variable stays in the range gc.rs and persistence.rs give it.
TypeOK ==
  /\ live \in {"missing", "flat", "sharded"} /\ disk \in Rows /\ lock \in Rows
  /\ record \in BOOLEAN /\ past \subseteq Oids
  /\ editor \in [at : {"idle", "publish", "prepared", "moved", "promoted", "dead"},
                 want : Rows, todo : SUBSET (Slots \cup {Flat}), shape : {"flat", "sharded"}]
  /\ edits \in 0..MaxEdits /\ reshapes \in 0..MaxReshapes
  /\ options \in Options /\ shallow \in BOOLEAN /\ cancelled \in BOOLEAN
  /\ phase \in Phases /\ failed \in BOOLEAN
  /\ listing \in [dir : {"none", "live", "moved", "removed"}, todo : SUBSET Slots,
                  found : SUBSET (Slots \cup {Flat}), overtaken : BOOLEAN]
  /\ keep \subseteq Oids /\ pending \subseteq Repos /\ issues \subseteq Repos
  /\ store \subseteq Oids /\ unswept \subseteq Oids /\ candidates \subseteq Oids
  /\ removed \subseteq Oids /\ touched \subseteq Paths /\ named \subseteq Oids
  /\ start \in [rows : Rows, past : SUBSET Oids]

Untouched == {start.rows[p] : p \in Paths \ touched} \ {NoOid}

\* The claim of the documentation (gc.md: "keeps objects referenced by ... the
\* current repository's working lock") for the rows no command has touched since
\* the collection started.  A reshape moves files and touches no row.
UntouchedKept == removed \cap Untouched = {}

\* What a collection may delete, by whatever order its reads and another
\* command's publications come in: nothing in a dry run; no object of a row
\* that no command touched, as long as no reshape has moved the directory that
\* was being listed, or the whole lock between fail_if_pending_reshape and the
\* second look; no object a commit named when it started, of a clone that
\* was shallow only by --unsafe; and of an additional repository only when its
\* inspection failed and --unsafe was given (gc.rs:347, gc.rs:384).
ReachableKept ==
  /\ options.dry_run => removed = {}
  /\ listing.overtaken \/ UntouchedKept
  /\ options.history =>
       removed \cap start.past \subseteq IF shallow /\ options.unsafe THEN Hidden ELSE {}
  /\ \A r \in Repos : removed \cap RepoOids[r] # {} => options.unsafe /\ r \in issues

\* The same claim for an object that the working lock or a commit names when the
\* collection starts, after every command that has returned since, and by the
\* rows a command is publishing: a command moves it, or a commit takes it over.
NamedThroughoutKept ==
  LET kept == IF editor.at = "publish" THEN named \cap Reachable(editor.want, past)
              ELSE named
  IN  options.history /\ ~shallow => removed \cap kept = {}
=============================================================================
