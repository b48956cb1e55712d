---------------------------- MODULE MountJournal ----------------------------
(***************************************************************************)
(* `gat mount`: the write-ahead journal that makes a change of gat.yaml,   *)
(* of the rows in gat.lock, of the materialized state and of Git's exclude *)
(* file one transaction, its recovery by whichever command runs next, and  *)
(* the commands that share the repository with it.                         *)
(*                                                                         *)
(* One action is one durable step between two points where the process may *)
(* die or the step may fail (Fail).  Desired rows are published shard by   *)
(* shard: a publication step writes any non-empty part of what is left.    *)
(* A scope of the configuration is one value: its mounts, and the number   *)
(* of the last edit of anything else in it.                                *)
(***************************************************************************)
EXTENDS Naturals, Sequences, FiniteSets

CONSTANTS
  Procs,     \* gat processes
  NoProc,
  Kinds,     \* the commands the processes run
  Names, Targets, Leaves, Versions, Content, None, Root,
  Window,    \* rows per staged window
  MaxEdits,  \* bound: edits of other settings
  MaxFaults  \* bound: crashes and failed steps

ASSUME ConstantsAssumption ==
  /\ NoProc \notin Procs
  /\ Kinds \subseteq {"mount", "config", "sync", "add", "rm"}
  /\ Content \in [Versions -> SUBSET Leaves]
  /\ IsFiniteSet(Leaves)
  /\ None \notin Targets /\ None # Root /\ {None, Root} \cap Versions = {}
  /\ Window \in Nat \ {0} /\ MaxEdits \in Nat /\ MaxFaults \in Nat

VARIABLES
  config,    \* gat.yaml: mounts, and the number of its last other edit
  rows,      \* gat.lock: the snapshot each row came from, Root, or None
  claims,    \* table `state`: paths gat believes it has materialized
  excludes,  \* the managed block of .git/info/exclude
  journal,   \* .gat/mount-transaction.json
  staged,    \* .gat/mount-transaction-rows/window-NNNNN.json
  owner,     \* the process holding the configuration lock
  pc, job,   \* where each process is, and its local variables
  kept,      \* history: the last edit that no pending publication may undo
  faults     \* how many faults there have been

vars == <<config, rows, claims, excludes, journal, staged, owner, pc, job, kept, faults>>
files == <<config, rows, claims, excludes, journal, staged>>
Aside == <<kept, faults>>

Paths == Targets \X Leaves
Under(t) == {x \in Paths : x[1] = t}
Present == {x \in Paths : rows[x] # None}
Mounts == [Names -> {None} \cup (Targets \X Versions)]
Configs == [mounts : Mounts, edit : 0 .. MaxEdits]
StagedRows == Paths \X Versions

\* MountTxnRecord.  `old` is the target whose rows go, `new` the one they come to.
Records ==
  [op : {"add", "update", "remove"}, name : Names, old : Targets \cup {None},
   new : Targets \cup {None}, pre : Configs, post : Configs,
   windows : 0 .. Cardinality(Leaves), phase : {"publish", "regenerate"}]
Publishing == journal # None /\ journal.phase = "publish"

\* None says that there is nothing: it is no record, and no mount.
ASSUME NoneAssumption == None \notin Records \cup (Targets \X Versions)

Snapshots == [Paths -> Versions \cup {None, Root}]
Jobs ==
  [kind : Kinds \cup {"none"}, rec : Records \cup {None}, recovering : BOOLEAN,
   todo : SUBSET StagedRows, landed : BOOLEAN, path : Paths \cup {None},
   seen : Snapshots \cup {None}]
NoJob ==
  [kind |-> "none", rec |-> None, recovering |-> FALSE, todo |-> {},
   landed |-> FALSE, path |-> None, seen |-> None]

\* The mount that has the target, in the configuration a command has read.
Owned(mounts, x) == \E n \in Names : mounts[n] # None /\ mounts[n][1] = x[1]
Free(n, t) ==
  \A m \in Names \ {n} : config.mounts[m] # None => config.mounts[m][1] # t
Vacant(t) == Present \cap Under(t) = {}

Init ==
  /\ config = [mounts |-> [n \in Names |-> None], edit |-> 0]
  /\ rows = [x \in Paths |-> None]
  /\ claims = Present /\ excludes = Present
  /\ journal = None /\ staged = <<>>
  /\ owner = NoProc
  /\ pc = [p \in Procs |-> "idle"] /\ job = [p \in Procs |-> NoJob]
  /\ kept = 0 /\ faults = 0
-----------------------------------------------------------------------------
(* Lock, recovery first, and the end of a command *)

At(p, label) == pc[p] = label
Goto(p, label) == pc' = [pc EXCEPT ![p] = label] /\ UNCHANGED <<owner, job>>
Step(p, label, j) ==
  pc' = [pc EXCEPT ![p] = label] /\ job' = [job EXCEPT ![p] = j] /\ UNCHANGED owner
Release(p) ==
  /\ pc' = [pc EXCEPT ![p] = "idle"]
  /\ job' = [job EXCEPT ![p] = NoJob]
  /\ owner' = NoProc

Acquire(p, k) ==
  /\ At(p, "idle") /\ owner = NoProc
  /\ owner' = p
  /\ pc' = [pc EXCEPT ![p] = "read"]
  /\ job' = [job EXCEPT ![p] = [NoJob EXCEPT !.kind = k]]
  /\ UNCHANGED <<files, Aside>>

\* MountJournal::read: a publish record is read only with all its windows.
Readable(rec) ==
  rec.phase = "publish" =>
    /\ Len(staged) = rec.windows
    /\ \A i \in 1 .. rec.windows :
         staged[i] # {} /\ \A r \in staged[i] : r[1] \in Under(rec.new)

\* Fault: recovery goes straight on to the configuration.
NeverDelete(rec) == "config"

\* delete_record_rows has nothing to do for an add.
AfterJournal(rec) == IF rec.old = None THEN "config" ELSE "delete"

ReadNothing(p) ==
  /\ At(p, "read") /\ journal = None
  /\ Goto(p, "ready") /\ UNCHANGED <<files, Aside>>

ReadJournal(p) ==
  /\ At(p, "read") /\ journal # None /\ Readable(journal)
  /\ Step(p, IF journal.phase = "publish" THEN AfterJournal(journal) ELSE "excludes",
          [job[p] EXCEPT !.rec = journal, !.recovering = TRUE])
  /\ UNCHANGED <<files, Aside>>

\* A request the command's policy refuses, or one that was cancelled.
Refuse(p) == At(p, "ready") /\ Release(p) /\ UNCHANGED <<files, Aside>>

\* A crash, or an error no step cleans up after: the lock goes, the files stay.
Fail(p) ==
  /\ pc[p] # "idle" /\ faults < MaxFaults
  /\ pc' = [pc EXCEPT ![p] = "idle"] /\ job' = [job EXCEPT ![p] = NoJob]
  /\ owner' = IF owner = p THEN NoProc ELSE owner
  /\ faults' = faults + 1
  /\ UNCHANGED <<files, kept>>
-----------------------------------------------------------------------------
(* The mount commands, up to the journal *)

Ready(p, k) == At(p, "ready") /\ job[p].kind = k

Record(op, n, old, new, mount) ==
  [op |-> op, name |-> n, old |-> old, new |-> new, pre |-> config,
   post |-> [config EXCEPT !.mounts[n] = mount], windows |-> 0, phase |-> "publish"]

Begin(p, rec, todo) ==
  Step(p, "reset", [job[p] EXCEPT !.rec = rec, !.todo = todo]) /\ UNCHANGED <<files, Aside>>

Imported(t, v) == {<<<<t, l>>, v>> : l \in Content[v]}

BeginAdd(p) ==
  /\ Ready(p, "mount")
  /\ \E n \in Names, t \in Targets, v \in Versions :
       /\ config.mounts[n] = None /\ Free(n, t) /\ Vacant(t)
       /\ Begin(p, Record("add", n, None, t, <<t, v>>), Imported(t, v))

BeginUpdate(p) ==
  /\ Ready(p, "mount")
  /\ \E n \in Names, t \in Targets, v \in Versions :
       /\ config.mounts[n] # None /\ Free(n, t)
       /\ t # config.mounts[n][1] => Vacant(t)
       /\ Begin(p, Record("update", n, config.mounts[n][1], t, <<t, v>>), Imported(t, v))

BeginRemove(p) ==
  /\ Ready(p, "mount")
  /\ \E n \in Names :
       /\ config.mounts[n] # None
       /\ Begin(p, Record("remove", n, config.mounts[n][1], None, None), {})

\* One atomic write of the configuration: no journal, no rows.
Detach(p) ==
  /\ Ready(p, "mount")
  /\ \E n \in Names :
       /\ config.mounts[n] # None
       /\ config' = [config EXCEPT !.mounts[n] = None]
  /\ Release(p)
  /\ UNCHANGED <<rows, claims, excludes, journal, staged, Aside>>

\* Fault: windows an earlier command left behind are kept.
ResetStagedKeeping(p) ==
  /\ At(p, "reset")
  /\ Goto(p, "stage")
  /\ UNCHANGED <<files, Aside>>

ResetStaged(p) ==
  /\ At(p, "reset")
  /\ staged' = <<>>
  /\ Goto(p, "stage")
  /\ UNCHANGED <<config, rows, claims, excludes, journal, Aside>>

StageWindow(p) ==
  /\ At(p, "stage")
  /\ \E S \in SUBSET job[p].todo :
       /\ S # {} /\ Cardinality(S) <= Window
       /\ Cardinality(S) = Window \/ S = job[p].todo
       /\ staged' = Append(staged, S)
       /\ Step(p, "stage", [job[p] EXCEPT !.todo = @ \ S])
  /\ UNCHANGED <<config, rows, claims, excludes, journal, Aside>>

\* Fault: nobody looks at gat.yaml again before it is replaced.
UnchangedUnchecked(p) == TRUE

\* validate_config_candidate: gat.yaml is still the file the command has read.
Unchanged(p) == config = job[p].rec.pre

WriteJournal(p) ==
  /\ At(p, "stage") /\ job[p].todo = {} /\ Unchanged(p)
  /\ journal' = [job[p].rec EXCEPT !.windows = Len(staged)]
  /\ Step(p, AfterJournal(journal'), [job[p] EXCEPT !.rec = journal'])
  /\ UNCHANGED <<config, rows, claims, excludes, staged, Aside>>

RefuseChanged(p) ==
  /\ At(p, "stage") /\ job[p].todo = {} /\ ~Unchanged(p)
  /\ Release(p) /\ UNCHANGED <<files, Aside>>
-----------------------------------------------------------------------------
(* From the journal to its end: the command itself, or whoever recovers *)

Doomed(p) == Present \cap Under(job[p].rec.old)

DeleteShard(p) ==
  /\ At(p, "delete")
  /\ \E S \in SUBSET Doomed(p) :
       /\ S # {}
       /\ rows' = [x \in Paths |-> IF x \in S THEN None ELSE rows[x]]
  /\ Goto(p, "delete")
  /\ UNCHANGED <<config, claims, excludes, journal, staged, Aside>>

\* Fault: recovery takes the subtree to have been forgotten with its rows.
ForgetSubtreeOnce(p) ==
  /\ At(p, "delete") /\ Doomed(p) = {}
  /\ claims' = IF job[p].recovering THEN claims ELSE claims \ Under(job[p].rec.old)
  /\ Goto(p, "config")
  /\ UNCHANGED <<config, rows, excludes, journal, staged, Aside>>

ForgetSubtree(p) ==
  /\ At(p, "delete") /\ Doomed(p) = {}
  /\ claims' = claims \ Under(job[p].rec.old)
  /\ Goto(p, "config")
  /\ UNCHANGED <<config, rows, excludes, journal, staged, Aside>>

\* The rows to replay are read back from the staged windows.
SaveConfig(p) ==
  /\ At(p, "config")
  /\ config' = job[p].rec.post
  /\ Step(p, "replay",
          [job[p] EXCEPT !.todo = UNION {staged[i] : i \in 1 .. job[p].rec.windows}])
  /\ UNCHANGED <<rows, claims, excludes, journal, staged, Aside>>

Replayed(S) ==
  [x \in Paths |-> IF \E r \in S : r[1] = x THEN (CHOOSE r \in S : r[1] = x)[2] ELSE rows[x]]

ReplayShard(p) ==
  /\ At(p, "replay")
  /\ \E S \in SUBSET job[p].todo :
       /\ S # {}
       /\ rows' = Replayed(S)
       /\ Step(p, "replay", [job[p] EXCEPT !.todo = @ \ S, !.landed = TRUE])
  /\ UNCHANGED <<config, claims, excludes, journal, staged, Aside>>

\* Fault: the configuration is taken back whatever has landed.
RollBackAlways(p) ==
  /\ At(p, "replay") /\ job[p].rec.op = "add" /\ ~job[p].recovering
  /\ job[p].todo # {} /\ faults < MaxFaults
  /\ config' = job[p].rec.pre
  /\ Goto(p, "clear")
  /\ faults' = faults + 1
  /\ UNCHANGED <<rows, claims, excludes, journal, staged, kept>>

\* A failed add takes the configuration back, unless a shard may have landed.
RollBack(p) ==
  /\ At(p, "replay") /\ job[p].rec.op = "add" /\ ~job[p].recovering
  /\ job[p].todo # {} /\ ~job[p].landed /\ faults < MaxFaults
  /\ config' = job[p].rec.pre
  /\ Goto(p, "clear")
  /\ faults' = faults + 1
  /\ UNCHANGED <<rows, claims, excludes, journal, staged, kept>>

\* Fault: the journal goes as soon as the rows are in.
MarkFinished(p) ==
  /\ At(p, "replay") /\ job[p].todo = {}
  /\ journal' = None
  /\ Goto(p, "excludes")
  /\ UNCHANGED <<config, rows, claims, excludes, staged, Aside>>

\* Fault: the publication is marked durable while rows are still to come.
MarkEarly(p) ==
  /\ At(p, "replay")
  /\ journal' = [job[p].rec EXCEPT !.phase = "regenerate"]
  /\ Goto(p, "excludes")
  /\ UNCHANGED <<config, rows, claims, excludes, staged, Aside>>

MarkPublished(p) ==
  /\ At(p, "replay") /\ job[p].todo = {}
  /\ journal' = [job[p].rec EXCEPT !.phase = "regenerate"]
  /\ Goto(p, "excludes")
  /\ UNCHANGED <<config, rows, claims, excludes, staged, Aside>>

\* sync_excludes, of a mount transaction and of any other command.
SyncExcludes(p) ==
  /\ At(p, "excludes")
  /\ excludes' = Present
  /\ IF job[p].rec # None THEN Goto(p, "clear") ELSE Release(p)
  /\ UNCHANGED <<config, rows, claims, journal, staged, Aside>>

\* Fault: the staged rows go first.
RemoveStagedFirst(p) ==
  /\ At(p, "clear")
  /\ staged' = <<>>
  /\ Goto(p, "sweep")
  /\ UNCHANGED <<config, rows, claims, excludes, journal, Aside>>

\* Fault: only the command that wrote the journal removes it.
RemoveOwnJournal(p) ==
  /\ At(p, "clear")
  /\ journal' = IF job[p].recovering THEN journal ELSE None
  /\ Goto(p, "sweep")
  /\ UNCHANGED <<config, rows, claims, excludes, staged, Aside>>

RemoveJournal(p) ==
  /\ At(p, "clear")
  /\ journal' = None
  /\ Goto(p, "sweep")
  /\ UNCHANGED <<config, rows, claims, excludes, staged, Aside>>

RemoveStaged(p) ==
  /\ At(p, "sweep")
  /\ staged' = <<>>
  /\ IF job[p].recovering
       THEN Step(p, "ready", [NoJob EXCEPT !.kind = job[p].kind])
       ELSE Release(p)
  /\ UNCHANGED <<config, rows, claims, excludes, journal, Aside>>
-----------------------------------------------------------------------------
(* The other commands *)

\* `gat remote`, `route`, `config`, `select`: begin_configuration_edit, commit.
EditConfig(p) ==
  /\ Ready(p, "config") /\ config.edit < MaxEdits
  /\ config' = [config EXCEPT !.edit = @ + 1]
  /\ kept' = config.edit + 1
  /\ Release(p)
  /\ UNCHANGED <<rows, claims, excludes, journal, staged, faults>>

\* An editor, or git, writes gat.yaml without the lock.
HandEdit ==
  /\ config.edit < MaxEdits
  /\ config' = [config EXCEPT !.edit = @ + 1]
  /\ kept' = IF Publishing THEN kept ELSE config.edit + 1
  /\ UNCHANGED <<rows, claims, excludes, journal, staged, owner, pc, job, faults>>

\* `gat add` chooses what to add, and `gat sync` what to do, on a snapshot.
Capture(p) ==
  /\ At(p, "ready")
  /\ \/ /\ job[p].kind = "add"
        /\ \E x \in Paths :
             /\ ~Owned(config.mounts, x)
             /\ job' = [job EXCEPT ![p].seen = rows, ![p].path = x]
     \/ /\ job[p].kind = "sync"
        /\ job' = [job EXCEPT ![p].seen = rows]
  /\ pc' = [pc EXCEPT ![p] = "prepare"] /\ owner' = NoProc
  /\ UNCHANGED <<files, Aside>>

\* into_mutation, acquire_mutation_access: the lock again, and the same rows.
Reacquire(p) ==
  /\ At(p, "prepare") /\ owner = NoProc /\ rows = job[p].seen
  /\ owner' = p
  /\ pc' = [pc EXCEPT ![p] = job[p].kind]
  /\ job' = [job EXCEPT ![p].seen = None]
  /\ UNCHANGED <<files, Aside>>

Stale(p) ==
  /\ At(p, "prepare") /\ owner = NoProc /\ rows # job[p].seen
  /\ Release(p) /\ UNCHANGED <<files, Aside>>

Track(p) ==
  /\ At(p, "add")
  /\ rows' = [rows EXCEPT ![job[p].path] = Root]
  /\ Goto(p, "note")
  /\ UNCHANGED <<config, claims, excludes, journal, staged, Aside>>

\* `gat rm` keeps the lock from the configuration it read to the end.
Untrack(p) ==
  /\ Ready(p, "rm")
  /\ \E x \in Present :
       /\ ~Owned(config.mounts, x)
       /\ rows' = [rows EXCEPT ![x] = None]
       /\ Step(p, "note", [job[p] EXCEPT !.path = x])
  /\ UNCHANGED <<config, claims, excludes, journal, staged, Aside>>

\* record_published_materialized, forget_materialized.
Note(p) ==
  /\ At(p, "note")
  /\ claims' = IF job[p].kind = "add" THEN claims \cup {job[p].path} ELSE claims \ {job[p].path}
  /\ Goto(p, "excludes")
  /\ UNCHANGED <<config, rows, excludes, journal, staged, Aside>>

\* The whole of the working tree: every desired row, and nothing else.
Reconcile(p) ==
  /\ At(p, "sync")
  /\ claims' = Present
  /\ Goto(p, "excludes")
  /\ UNCHANGED <<config, rows, excludes, journal, staged, Aside>>
-----------------------------------------------------------------------------
Command(p) ==
  \/ \E k \in Kinds : Acquire(p, k)
  \/ ReadNothing(p) \/ ReadJournal(p) \/ Refuse(p)
  \/ BeginAdd(p) \/ BeginUpdate(p) \/ BeginRemove(p) \/ Detach(p)
  \/ ResetStaged(p) \/ StageWindow(p) \/ WriteJournal(p) \/ RefuseChanged(p)
  \/ DeleteShard(p) \/ ForgetSubtree(p) \/ SaveConfig(p) \/ ReplayShard(p)
  \/ MarkPublished(p) \/ SyncExcludes(p) \/ RemoveJournal(p) \/ RemoveStaged(p)
  \/ EditConfig(p) \/ Capture(p) \/ Reacquire(p) \/ Stale(p)
  \/ Track(p) \/ Untrack(p) \/ Note(p) \/ Reconcile(p)

Fault(p) == Fail(p) \/ RollBack(p)

Next == HandEdit \/ \E p \in Procs : Command(p) \/ Fault(p)

Spec == Init /\ [][Next]_vars

\* A running process goes on, and somebody goes on using gat.
Fairness == WF_vars(\E p \in Procs : Command(p))
LiveSpec == Spec /\ Fairness
-----------------------------------------------------------------------------
(* Properties *)

Labels ==
  {"idle", "read", "ready", "reset", "stage", "delete", "config", "replay", "excludes",
   "clear", "sweep", "prepare", "add", "sync", "note"}

\* Every variable has the shape its declaration says.
TypeOK ==
  /\ config \in Configs
  /\ rows \in Snapshots
  /\ claims \subseteq Paths /\ excludes \subseteq Paths
  /\ journal \in Records \cup {None}
  /\ staged \in Seq(SUBSET StagedRows)
  /\ owner \in Procs \cup {NoProc}
  /\ pc \in [Procs -> Labels]
  /\ job \in [Procs -> Jobs]
  /\ kept \in 0 .. MaxEdits /\ faults \in 0 .. MaxFaults

\* Whatever died when, the next command can read the journal it finds: a record
\* that still asks for rows has every window it counts (MountJournal::read,
\* clear_mount_transaction).
JournalReadable == journal # None => Readable(journal)

\* Outside an unfinished publication a mount has its whole snapshot below its
\* target and nothing of an earlier one (update's and recovery's delete, then replay).
MountsComplete ==
  ~Publishing =>
    \A n \in Names : config.mounts[n] # None =>
      LET t == config.mounts[n][1] v == config.mounts[n][2] IN
      \A x \in Under(t) :
        IF x[2] \in Content[v] THEN rows[x] = v ELSE rows[x] \in {None, Root}

\* Once no journal is left, Git ignores exactly the rows there are, however the
\* transaction came to its end (the Regenerate phase).
ExcludesExact == journal = None => excludes = Present

\* Once no journal is left, no path is still claimed as materialized whose row a
\* mount transaction took away (delete_subtree_windowed, run again by recovery).
ClaimsFollow == journal = None => claims \subseteq Present

\* An edit made while no publication was under way is never undone: not by a
\* mount command that read the configuration before it, and not by recovery.
EditsSurvive == config.edit >= kept

\* Outside an unfinished publication a mount owns every row below its target:
\* none is one that `gat add` put there.
OwnsTarget ==
  ~Publishing =>
    \A n \in Names : config.mounts[n] # None =>
      \A x \in Under(config.mounts[n][1]) : rows[x] # Root

\* A journal somebody left behind is finished by the commands that follow.
Recovers == journal # None ~> journal = None

\* A mount command takes effect when its journal is written.
PromisedMounts == IF Publishing THEN journal.post.mounts ELSE config.mounts
PromisedRows ==
  IF ~Publishing THEN rows
  ELSE LET todo == UNION {staged[i] : i \in 1 .. Len(staged)} IN
       [x \in Paths |->
          IF \E r \in todo : r[1] = x THEN (CHOOSE r \in todo : r[1] = x)[2]
          ELSE IF x[1] = journal.old THEN None
          ELSE rows[x]]
Registry == INSTANCE MountRegistry WITH mounts <- PromisedMounts, rows <- PromisedRows

\* Every mount command is one step or none, with a crash anywhere in it and any
\* number of recoveries: the journal implements MountRegistry.
AtomicMounts == Registry!Spec
=============================================================================
