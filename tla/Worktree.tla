------------------------------ MODULE Worktree ------------------------------
(***************************************************************************)
(* The working tree, and the ledger of what gat put there.                 *)
(*                                                                         *)
(* Three accounts of a tracked path have to be reconciled: gat.lock says   *)
(* which content is wanted, a row of the SQLite ledger says which content  *)
(* gat last placed there and what the file looked like then (a stat        *)
(* proof), and the file is whatever it is now.  gat sync walks the three   *)
(* in path order under the RepoLock: it classifies a window of paths,      *)
(* verifies the cache objects the window needs, applies the window, and    *)
(* commits ledger rows in batches.  gat add, gat rm, gat mv and the state  *)
(* repair change the same three; git changes gat.lock and the user changes *)
(* the files, and neither asks for the lock.                               *)
(*                                                                         *)
(* Bytes are named by their oid.  A stat proof is named by the bytes it    *)
(* was taken of: proofs compare size and mtime, and a rewrite that keeps   *)
(* both is outside what the code claims to see (file_state.rs).            *)
(***************************************************************************)
EXTENDS Naturals, Sequences, FiniteSets

CONSTANTS
  Order,          \* the paths, in the order in which the merge meets them
  Oids,           \* contents
  SizeOf,         \* Oids -> Nat, how long each content is
  Commits,        \* the locks git can check out
  UserBytes,      \* what the user may write into a file
  None, Absent,   \* no oid or row; no file
  Commands,       \* which commands take part
  Policies,       \* which reconciliation policies sync is asked for
  MergeWindow, DirtyWindow, BatchSize,
  Selections,     \* what a sync may be restricted to
  MaxCommands, MaxEdits, MaxCheckouts, MaxFaults

Paths == {Order[i] : i \in DOMAIN Order}
Locks == [Paths -> Oids \cup {None}]

ASSUME OrderAssumption ==
  /\ Order \in Seq(Paths) /\ Order # << >>
  /\ \A i, j \in DOMAIN Order : Order[i] = Order[j] => i = j
ASSUME ContentAssumption ==
  /\ SizeOf \in [Oids -> Nat] /\ UserBytes \subseteq Oids
  /\ Commits \subseteq Locks /\ Commits # {}
  /\ None \notin Oids /\ Absent \notin Oids
ASSUME BoundAssumption ==
  /\ MergeWindow \in Nat \ {0} /\ DirtyWindow \in Nat \ {0} /\ BatchSize \in Nat \ {0}
  /\ MaxCommands \in Nat /\ MaxEdits \in Nat /\ MaxCheckouts \in Nat /\ MaxFaults \in Nat
ASSUME CommandAssumption ==
  /\ Commands \subseteq {"sync", "add", "rm", "mv", "repair"}
  /\ Policies \subseteq {"validate", "rematerialize", "trust"}
  /\ Selections \subseteq SUBSET Paths

(***************************************************************************)
(* raced is history, not a column: it marks a row whose proof was taken    *)
(* after the user had already written over what sync placed.               *)
(***************************************************************************)
Row == [oid : Oids, proof : Oids \cup {None}, raced : BOOLEAN]
Rows == Row \cup {None}
ASSUME NoneAssumption == None \notin Row

VARIABLES
  lock,                \* gat.lock: path -> wanted oid
  rows,                \* the materialized half of the ledger
  validationRequired,  \* the ledger was rebuilt and cannot be trusted
  file,                \* the working tree
  backups,             \* contents mv holds in .gat-move-* directories
  job,                 \* the command holding the RepoLock
  prep,                \* a gat add that has hashed and has no lock yet
  saved,               \* contents ever committed or ingested (history)
  commands, edits, checkouts, faults

vars == <<lock, rows, validationRequired, file, backups, job, prep, saved,
          commands, edits, checkouts, faults>>
bounds == <<commands, edits, checkouts, faults>>

Idle == [op |-> "none"]
Intents == {"write", "conflictOrWrite", "remove", "conflictOrRemove"}
Actions == {"write", "remove", "conflict", "missing", "corrupt"}

(***************************************************************************)
(* Ledger mutations not committed yet: the new row, or None for a removal, *)
(* of each path concerned.  No path is in a batch twice.                   *)
(***************************************************************************)
NoBatch == [p \in {} |-> None]
PendingBatches == UNION {[ps -> Rows] : ps \in SUBSET Paths}

SyncJobs ==
  [op : {"sync"}, policy : Policies \cup {"validate"}, force : BOOLEAN,
   selected : SUBSET Paths, want : Locks,
   phase : {"plan", "apply", "stat", "done"}, next : 1 .. Len(Order) + 1,
   window : Seq([path : Paths, act : Intents \cup Actions]),
   pending : PendingBatches, conflicts : SUBSET Paths, unusable : SUBSET Paths,
   touched : SUBSET Paths]
RmJobs == [op : {"rm"}, path : Paths, cached : BOOLEAN, phase : {"delete", "forget"}]
MvJobs ==
  [op : {"mv"}, src : Paths, dst : Paths, aside : Oids \cup {Absent},
   replaced : BOOLEAN, phase : {"publish", "commit"}, touched : SUBSET Paths]
AddJobs == [op : {"add"}, path : Paths, row : Row]
Preps == [path : Paths, row : Row, base : Locks] \cup {None}

(***************************************************************************)
(* Type correctness.                                                       *)
(***************************************************************************)
TypeOK ==
  /\ lock \in Locks
  /\ rows \in [Paths -> Rows]
  /\ validationRequired \in BOOLEAN
  /\ file \in [Paths -> Oids \cup {Absent}]
  /\ backups \subseteq Oids
  /\ job \in {Idle} \cup SyncJobs \cup RmJobs \cup MvJobs \cup AddJobs
  /\ prep \in Preps
  /\ saved \subseteq Oids
  /\ commands \in 0 .. MaxCommands /\ edits \in 0 .. MaxEdits
  /\ checkouts \in 0 .. MaxCheckouts /\ faults \in 0 .. MaxFaults

(***************************************************************************)
(* A clone in which nothing was materialized yet.                          *)
(***************************************************************************)
Init ==
  /\ lock \in Commits
  /\ rows = [p \in Paths |-> None]
  /\ validationRequired = FALSE
  /\ file = [p \in Paths |-> Absent]
  /\ backups = {}
  /\ job = Idle
  /\ prep = None
  /\ saved = {c[p] : c \in Commits, p \in Paths} \ {None}
  /\ commands = 0 /\ edits = 0 /\ checkouts = 0 /\ faults = 0

-----------------------------------------------------------------------------
(* What a stat and, where that does not settle it, a hash say of a file.   *)

Proven(p, proof) == proof # None /\ file[p] = proof

Resized(p, proof) == proof # None /\ SizeOf[file[p]] # SizeOf[proof]

FileMatches(p, oid, proof) ==
  \/ Proven(p, proof)
  \/ ~Resized(p, proof) /\ file[p] = oid

OidOf(row)   == IF row = None THEN None ELSE row.oid
ProofOf(row) == IF row = None THEN None ELSE row.proof

(***************************************************************************)
(* The answer of the validated merge for one path.  The file is compared   *)
(* with what the ledger says was placed, and with the wanted content only  *)
(* where the ledger has no row.                                            *)
(***************************************************************************)
ValidatedIntent(p, want, policy) ==
  LET row     == rows[p]
      placed  == IF row = None THEN want ELSE row.oid
      matches == FileMatches(p, placed, ProofOf(row))
      settled == row # None /\ want = placed /\ policy # "rematerialize"
  IN  CASE want = None /\ row = None -> "none"
        [] file[p] = Absent -> IF want = None THEN "none" ELSE "write"
        [] OTHER ->
             IF want = None THEN IF matches THEN "remove" ELSE "conflictOrRemove"
             ELSE IF ~matches THEN "conflictOrWrite"
             ELSE IF settled THEN "none" ELSE "write"

(***************************************************************************)
(* The answer of the trusting fast path, which reads dirty ledger rows     *)
(* only and never looks at the file.                                       *)
(***************************************************************************)
TrustedIntent(p, want) ==
  CASE OidOf(rows[p]) = want -> "none"
    [] want # None           -> "write"
    [] OTHER                 -> "remove"

IntentFor(p) ==
  IF p \notin job.selected THEN "none"
  ELSE IF job.policy = "trust" THEN TrustedIntent(p, job.want[p])
  ELSE ValidatedIntent(p, job.want[p], job.policy)

(***************************************************************************)
(* A file that hashed to what the ledger expects gets a new proof.         *)
(***************************************************************************)
RefreshesProof(p) ==
  /\ p \in job.selected /\ job.policy = "validate"
  /\ rows[p] # None /\ job.want[p] = rows[p].oid
  /\ file[p] = rows[p].oid /\ ~Proven(p, rows[p].proof) /\ ~Resized(p, rows[p].proof)

(***************************************************************************)
(* Corruption outranks a local edit; a missing object stays behind one.    *)
(* force turns a conflict into what it would have been without the edit.   *)
(***************************************************************************)
ResolvedAction(intent, status, force) ==
  CASE intent = "remove" -> "remove"
    [] intent = "conflictOrRemove" -> IF force THEN "remove" ELSE "conflict"
    [] status = "corrupt" -> "corrupt"
    [] intent = "conflictOrWrite" /\ ~force -> "conflict"
    [] status = "missing" -> "missing"
    [] OTHER -> "write"

Committed(batch) ==
  [p \in Paths |-> IF p \in DOMAIN batch THEN batch[p] ELSE rows[p]]

Pushed(p, row) ==
  [q \in DOMAIN job.pending \cup {p} |-> IF q = p THEN row ELSE job.pending[q]]

(***************************************************************************)
(* A pushed mutation joins the batch; a full batch is committed.           *)
(***************************************************************************)
Push(next, p, row) ==
  LET batch == Pushed(p, row)
      full  == Cardinality(DOMAIN batch) >= BatchSize
  IN  /\ job' = [next EXCEPT !.pending = IF full THEN NoBatch ELSE batch]
      /\ rows' = IF full THEN Committed(batch) ELSE rows

(* Wrong: a rebuilt ledger is trusted as readily as any other. *)
ForAnyLedger(policy) == policy

ForLedger(policy) ==
  IF policy = "trust" /\ validationRequired THEN "validate" ELSE policy

(* A bound, not a limit of the program. *)
Begins == commands < MaxCommands /\ commands' = commands + 1

-----------------------------------------------------------------------------
(* gat sync                                                                 *)

(***************************************************************************)
(* The desired side is pinned once the RepoLock is held and the mirror was *)
(* compared with gat.lock (DesiredMirror); git may move gat.lock later.    *)
(***************************************************************************)
SyncStart(policy, force, selected) ==
  /\ "sync" \in Commands /\ job = Idle
  /\ job' = [op |-> "sync", policy |-> ForLedger(policy), force |-> force,
             selected |-> selected, want |-> lock, phase |-> "plan", next |-> 1,
             window |-> << >>, pending |-> NoBatch, conflicts |-> {},
             unusable |-> {}, touched |-> {}]
  /\ Begins
  /\ UNCHANGED <<lock, rows, validationRequired, file, backups, prep, saved, edits, checkouts, faults>>

InPhase(phase) == job.op = "sync" /\ job.phase = phase

WindowLimit == IF job.policy = "trust" THEN DirtyWindow ELSE MergeWindow
WindowClosed == Len(job.window) >= WindowLimit \/ job.next > Len(Order)

SyncClassify ==
  /\ InPhase("plan") /\ ~WindowClosed
  /\ LET p      == Order[job.next]
         intent == IntentFor(p)
         ahead  == [job EXCEPT !.next = @ + 1]
     IN  IF intent # "none"
         THEN /\ job' = [ahead EXCEPT !.window = Append(@, [path |-> p, act |-> intent])]
              /\ rows' = rows
         ELSE IF RefreshesProof(p)
         THEN Push(ahead, p, [oid |-> rows[p].oid, proof |-> file[p], raced |-> FALSE])
         ELSE job' = ahead /\ rows' = rows
  /\ UNCHANGED <<lock, validationRequired, file, backups, prep, saved, bounds>>

(***************************************************************************)
(* Verify every oid of a closed window, then go on to apply it.  The cache *)
(* belongs to nobody in particular (collection and purging take no         *)
(* RepoLock), so any object may turn out valid, missing or corrupt.        *)
(***************************************************************************)
SyncVerify ==
  /\ InPhase("plan") /\ WindowClosed /\ job.window # << >>
  /\ \E status \in [{job.want[job.window[i].path] : i \in DOMAIN job.window}
                      -> {"valid", "missing", "corrupt"}] :
       job' = [job EXCEPT !.phase = "apply",
                 !.window = [i \in DOMAIN @ |->
                   [path |-> @[i].path,
                    act  |-> ResolvedAction(@[i].act, status[job.want[@[i].path]], job.force)]]]
  /\ UNCHANGED <<lock, rows, validationRequired, file, backups, prep, saved, bounds>>

Applying(act) ==
  InPhase("apply") /\ job.window # << >> /\ Head(job.window).act = act

Applied == [job EXCEPT !.phase = "apply", !.window = Tail(@)]

(***************************************************************************)
(* Publication renames a private copy over the destination, whatever is    *)
(* there by now; the stat that becomes the proof comes after it.           *)
(***************************************************************************)
SyncPublish ==
  /\ Applying("write")
  /\ LET p == Head(job.window).path
     IN  file' = [file EXCEPT ![p] = job.want[p]]
  /\ job' = [job EXCEPT !.phase = "stat"]
  /\ UNCHANGED <<lock, rows, validationRequired, backups, prep, saved, bounds>>

(* Wrong: the stat is not checked to have found a file. *)
SyncStatUnchecked ==
  /\ InPhase("stat")
  /\ LET p == Head(job.window).path
     IN  Push(Applied, p, [oid |-> job.want[p], proof |-> file[p],
                           raced |-> file[p] # job.want[p]])
  /\ UNCHANGED <<lock, validationRequired, file, backups, prep, saved, bounds>>

SyncStat ==
  /\ InPhase("stat")
  /\ LET p     == Head(job.window).path
         proof == IF file[p] = Absent THEN None ELSE file[p]
     IN  Push(Applied, p, [oid |-> job.want[p], proof |-> proof,
                           raced |-> proof \notin {None, job.want[p]}])
  /\ UNCHANGED <<lock, validationRequired, file, backups, prep, saved, bounds>>

SyncRemove ==
  /\ Applying("remove")
  /\ LET p == Head(job.window).path
     IN  /\ file' = [file EXCEPT ![p] = Absent]
         /\ Push(Applied, p, None)
  /\ UNCHANGED <<lock, validationRequired, backups, prep, saved, bounds>>

(* Wrong: an object that cannot be read is recorded as placed. *)
SyncReportRecorded ==
  /\ \/ /\ Applying("conflict")
        /\ job' = [Applied EXCEPT !.conflicts = @ \cup {Head(job.window).path}]
        /\ rows' = rows
     \/ /\ Applying("missing") \/ Applying("corrupt")
        /\ LET p == Head(job.window).path
           IN  Push([Applied EXCEPT !.unusable = @ \cup {p}], p,
                    [oid |-> job.want[p], proof |-> None, raced |-> FALSE])
  /\ UNCHANGED <<lock, validationRequired, file, backups, prep, saved, bounds>>

SyncReport ==
  /\ \/ /\ Applying("conflict")
        /\ job' = [Applied EXCEPT !.conflicts = @ \cup {Head(job.window).path}]
     \/ /\ Applying("missing") \/ Applying("corrupt")
        /\ job' = [Applied EXCEPT !.unusable = @ \cup {Head(job.window).path}]
  /\ UNCHANGED <<lock, rows, validationRequired, file, backups, prep, saved, bounds>>

(***************************************************************************)
(* Between windows.  The trusting path commits its rows with each chunk.   *)
(***************************************************************************)
SyncNextWindow ==
  /\ InPhase("apply") /\ job.window = << >>
  /\ IF job.policy = "trust"
     THEN /\ rows' = Committed(job.pending)
          /\ job' = [job EXCEPT !.phase = "plan", !.pending = NoBatch]
     ELSE /\ rows' = rows
          /\ job' = [job EXCEPT !.phase = "plan"]
  /\ UNCHANGED <<lock, validationRequired, file, backups, prep, saved, bounds>>

(* Wrong: the last batch, not full, is dropped. *)
SyncFlushNothing ==
  /\ InPhase("plan") /\ job.next > Len(Order) /\ job.window = << >>
  /\ job' = [job EXCEPT !.phase = "done", !.pending = NoBatch]
  /\ UNCHANGED <<lock, rows, validationRequired, file, backups, prep, saved, bounds>>

SyncFlush ==
  /\ InPhase("plan") /\ job.next > Len(Order) /\ job.window = << >>
  /\ rows' = Committed(job.pending)
  /\ job' = [job EXCEPT !.phase = "done", !.pending = NoBatch]
  /\ UNCHANGED <<lock, validationRequired, file, backups, prep, saved, bounds>>

Clean == job.conflicts = {} /\ job.unusable = {}

(* Wrong: a scoped sync vouches for the paths it did not visit. *)
ClearsFlagScoped == job.policy # "trust" /\ Clean

(***************************************************************************)
(* A clean, validated, unrestricted sync makes a rebuilt ledger            *)
(* trustworthy again.                                                      *)
(***************************************************************************)
ClearsFlag == job.policy # "trust" /\ job.selected = Paths /\ Clean

SyncEnd ==
  /\ InPhase("done")
  /\ validationRequired' = (validationRequired /\ ~ClearsFlag)
  /\ job' = Idle
  /\ UNCHANGED <<lock, rows, file, backups, prep, saved, bounds>>

(***************************************************************************)
(* A step of sync fails: what was already done is still committed.  A      *)
(* commit that fails as well is no different from a crash.                 *)
(***************************************************************************)
SyncFail ==
  /\ job.op = "sync" /\ job.phase \in {"plan", "apply"} /\ faults < MaxFaults
  /\ rows' = Committed(job.pending)
  /\ job' = Idle
  /\ faults' = faults + 1
  /\ UNCHANGED <<lock, validationRequired, file, backups, prep, saved, commands, edits, checkouts>>

-----------------------------------------------------------------------------
(* gat add                                                                  *)

(***************************************************************************)
(* Read one file without the RepoLock.  A file the ledger still vouches    *)
(* for is not hashed again when its object is present; any other is hashed *)
(* and ingested under a coherent observation, which names the bytes and    *)
(* proves them in one.                                                     *)
(***************************************************************************)
AddPrepare(p) ==
  /\ "add" \in Commands /\ prep = None /\ file[p] # Absent
  /\ LET row     == rows[p]
         wanted  == lock[p]
         unmoved == wanted # None /\ OidOf(row) \in {None, wanted}
         proven  == Proven(p, ProofOf(row))
         ingested == [oid |-> file[p], proof |-> file[p], raced |-> FALSE]
         reused   == [oid |-> wanted,
                      proof |-> IF proven THEN row.proof ELSE file[p],
                      raced |-> proven /\ row.raced]
     IN  \/ /\ unmoved /\ FileMatches(p, wanted, ProofOf(row))
            /\ prep' = [path |-> p, row |-> reused, base |-> lock]
            /\ saved' = saved
         \/ /\ prep' = [path |-> p, row |-> ingested, base |-> lock]
            /\ saved' = saved \cup {file[p]}
  /\ Begins
  /\ UNCHANGED <<lock, rows, validationRequired, file, backups, job, edits, checkouts, faults>>

(***************************************************************************)
(* Take the lock and publish, unless gat.lock moved since the preparation. *)
(***************************************************************************)
AddPublish ==
  /\ prep # None /\ job = Idle
  /\ IF lock = prep.base
     THEN /\ lock' = [lock EXCEPT ![prep.path] = prep.row.oid]
          /\ job' = [op |-> "add", path |-> prep.path, row |-> prep.row]
     ELSE UNCHANGED <<lock, job>>
  /\ prep' = None
  /\ UNCHANGED <<rows, validationRequired, file, backups, saved, bounds>>

AddRecord ==
  /\ job.op = "add"
  /\ rows' = [rows EXCEPT ![job.path] = job.row]
  /\ job' = Idle
  /\ UNCHANGED <<lock, validationRequired, file, backups, prep, saved, bounds>>

-----------------------------------------------------------------------------
(* gat rm                                                                   *)

RmPublish(p, cached) ==
  /\ "rm" \in Commands /\ job = Idle /\ lock[p] # None
  /\ lock' = [lock EXCEPT ![p] = None]
  /\ job' = [op |-> "rm", path |-> p, cached |-> cached,
             phase |-> IF cached THEN "forget" ELSE "delete"]
  /\ Begins
  /\ UNCHANGED <<rows, validationRequired, file, backups, prep, saved, edits, checkouts, faults>>

RmDelete ==
  /\ job.op = "rm" /\ job.phase = "delete"
  /\ file' = [file EXCEPT ![job.path] = Absent]
  /\ job' = [job EXCEPT !.phase = "forget"]
  /\ UNCHANGED <<lock, rows, validationRequired, backups, prep, saved, bounds>>

RmForget ==
  /\ job.op = "rm" /\ job.phase = "forget"
  /\ rows' = [rows EXCEPT ![job.path] = None]
  /\ job' = Idle
  /\ UNCHANGED <<lock, validationRequired, file, backups, prep, saved, bounds>>

-----------------------------------------------------------------------------
(* gat mv                                                                   *)

(***************************************************************************)
(* The file moves first; what stood at the destination is set aside.       *)
(***************************************************************************)
MvRename(src, dst, force) ==
  /\ "mv" \in Commands /\ job = Idle /\ src # dst
  /\ lock[src] # None /\ file[src] # Absent
  /\ force \/ (lock[dst] = None /\ file[dst] = Absent)
  /\ file' = [file EXCEPT ![dst] = file[src], ![src] = Absent]
  /\ backups' = backups \cup ({file[dst]} \ {Absent})
  /\ job' = [op |-> "mv", src |-> src, dst |-> dst, aside |-> file[dst],
             replaced |-> lock[dst] # None, phase |-> "publish", touched |-> {}]
  /\ Begins
  /\ UNCHANGED <<lock, rows, validationRequired, prep, saved, edits, checkouts, faults>>

(***************************************************************************)
(* gat.lock is published inside the ledger transaction, which commits      *)
(* after it.                                                               *)
(***************************************************************************)
MvPublish ==
  /\ job.op = "mv" /\ job.phase = "publish"
  /\ lock' = [lock EXCEPT ![job.dst] = lock[job.src], ![job.src] = None]
  /\ job' = [job EXCEPT !.phase = "commit"]
  /\ UNCHANGED <<rows, validationRequired, file, backups, prep, saved, bounds>>

(* Wrong: the row that moves takes the proof of the one it replaces. *)
MovedRowsKeepProof ==
  LET moved == rows[job.src]
      left  == IF job.replaced THEN None ELSE rows[job.dst]
  IN  [rows EXCEPT ![job.src] = None,
         ![job.dst] = IF moved = None THEN left
                      ELSE [moved EXCEPT !.proof = ProofOf(rows[job.dst])]]

(***************************************************************************)
(* A tracked destination loses its row; the row of the source, where there *)
(* is one, moves over.                                                     *)
(***************************************************************************)
MovedRows ==
  LET left == IF job.replaced THEN None ELSE rows[job.dst]
  IN  [rows EXCEPT ![job.src] = None,
                   ![job.dst] = IF rows[job.src] # None THEN rows[job.src] ELSE left]

MvCommit ==
  /\ job.op = "mv" /\ job.phase = "commit"
  /\ rows' = MovedRows
  /\ backups' = backups \ {job.aside}
  /\ job' = Idle
  /\ UNCHANGED <<lock, validationRequired, file, prep, saved, bounds>>

(***************************************************************************)
(* Publication or commit failed: rename back and restore what was set      *)
(* aside.  If the destination is gone the rollback fails too and the       *)
(* backup stays where it is.                                               *)
(***************************************************************************)
MvRollback ==
  /\ job.op = "mv" /\ faults < MaxFaults
  /\ IF file[job.dst] = Absent THEN UNCHANGED <<file, backups>>
     ELSE /\ file' = [file EXCEPT ![job.src] = file[job.dst], ![job.dst] = job.aside]
          /\ backups' = backups \ {job.aside}
  /\ job' = Idle
  /\ faults' = faults + 1
  /\ UNCHANGED <<lock, rows, validationRequired, prep, saved, commands, edits, checkouts>>

-----------------------------------------------------------------------------
(* gat system repair state, crashes, and those who take no lock             *)

(***************************************************************************)
(* An unreadable database is replaced by one built from gat.lock alone.    *)
(***************************************************************************)
RepairState ==
  /\ "repair" \in Commands /\ job = Idle /\ faults < MaxFaults
  /\ rows' = [p \in Paths |-> None]
  /\ validationRequired' = TRUE
  /\ Begins
  /\ faults' = faults + 1
  /\ UNCHANGED <<lock, file, backups, job, prep, saved, edits, checkouts>>

Crash ==
  /\ job # Idle /\ faults < MaxFaults
  /\ job' = Idle
  /\ faults' = faults + 1
  /\ UNCHANGED <<lock, rows, validationRequired, file, backups, prep, saved, commands, edits, checkouts>>

(***************************************************************************)
(* Paths the running command has already looked at: an edit of one of them *)
(* now is an edit the command does not see.                                *)
(***************************************************************************)
Examined ==
  CASE job.op = "sync" -> {Order[i] : i \in 1 .. (job.next - 1)}
    [] job.op = "mv"   -> {job.src, job.dst}
    [] OTHER           -> {}

UserEdits(p, bytes) ==
  /\ edits < MaxEdits /\ file[p] # bytes
  /\ file' = [file EXCEPT ![p] = bytes]
  /\ job' = IF p \in Examined THEN [job EXCEPT !.touched = @ \cup {p}] ELSE job
  /\ edits' = edits + 1
  /\ UNCHANGED <<lock, rows, validationRequired, backups, prep, saved, commands, checkouts, faults>>

GitCheckout(commit) ==
  /\ checkouts < MaxCheckouts /\ commit # lock
  /\ lock' = commit
  /\ checkouts' = checkouts + 1
  /\ UNCHANGED <<rows, validationRequired, file, backups, job, prep, saved, commands, edits, faults>>

Sync ==
  \/ \E policy \in Policies, force \in BOOLEAN, selected \in Selections :
       SyncStart(policy, force, selected)
  \/ SyncClassify \/ SyncVerify \/ SyncPublish \/ SyncStat \/ SyncRemove \/ SyncReport
  \/ SyncNextWindow \/ SyncFlush \/ SyncEnd \/ SyncFail

Add == (\E p \in Paths : AddPrepare(p)) \/ AddPublish \/ AddRecord

Rm == (\E p \in Paths, cached \in BOOLEAN : RmPublish(p, cached)) \/ RmDelete \/ RmForget

Mv ==
  \/ \E src, dst \in Paths, force \in BOOLEAN : MvRename(src, dst, force)
  \/ MvPublish \/ MvCommit \/ MvRollback

Others ==
  \/ \E p \in Paths, bytes \in UserBytes \cup {Absent} : UserEdits(p, bytes)
  \/ \E commit \in Commits : GitCheckout(commit)

Next == Sync \/ Add \/ Rm \/ Mv \/ RepairState \/ Crash \/ Others

Spec == Init /\ [][Next]_vars

-----------------------------------------------------------------------------
(* Properties                                                               *)

(***************************************************************************)
(* The proof kept with an oid is a proof of that oid: whatever sync        *)
(* placed, add hashed, a refresh found or mv carried over, a stat that     *)
(* answers "unchanged" never answers it of other bytes.  The exception is  *)
(* a user who writes in the instant between the rename that publishes a    *)
(* file and the stat taken after it.                                       *)
(***************************************************************************)
ProofsHonest ==
  \A p \in Paths :
    rows[p] # None /\ ~rows[p].raced => rows[p].proof \in {None, rows[p].oid}

(***************************************************************************)
(* Work that exists nowhere else outlives every step of gat that the user  *)
(* did not ask to discard it: a validated sync without force, a crash and  *)
(* the sync after it, a scoped or interrupted sync, add, a move and its    *)
(* roll-back.  Only rm, a forced sync and a sync that trusts a ledger     *)
(* which was not rebuilt may destroy it.                                   *)
(* Excepted are edits of a path the running command had already examined,  *)
(* and a row raced as ProofsHonest describes.                              *)
(***************************************************************************)
Destroys(p) ==
  /\ edits' = edits
  /\ file[p] \notin saved' \cup backups' \cup {Absent}
  /\ file'[p] # file[p]
  /\ \A q \in Paths : file'[q] # file[p]

Consented ==
  \/ job.op = "rm"
  \/ job.op = "sync" /\ (job.force \/ (job.policy = "trust" /\ ~validationRequired))

EditedUnseen(p) == job.op \in {"sync", "mv"} /\ p \in job.touched

RacedRow(p) == rows[p] # None /\ rows[p].raced

LocalBytesKept ==
  [][\A p \in Paths :
       Destroys(p) => Consented \/ EditedUnseen(p) \/ RacedRow(p)]_vars

(***************************************************************************)
(* The same without the second exception, as the sync documentation has it *)
(* (an edit during the sync that overwrites it is still excused).          *)
(***************************************************************************)
LocalEditsPreserved ==
  [][\A p \in Paths : Destroys(p) => Consented \/ EditedUnseen(p)]_vars

(***************************************************************************)
(* A sync that reports nothing unresolved leaves the ledger at gat.lock    *)
(* for every selected path, and one that validated leaves the files there  *)
(* as well: the wanted bytes, and no file that gat placed and no longer    *)
(* wants.                                                                  *)
(***************************************************************************)
Reconciled(p) ==
  IF job.want[p] # None
  THEN /\ rows[p] # None /\ rows[p].oid = job.want[p]
       /\ job.policy # "trust" /\ ~rows[p].raced => file[p] = job.want[p]
  ELSE rows[p] # None => job.policy # "trust" /\ file[p] = Absent

CleanSyncReconciles ==
  job.op = "sync" /\ job.phase = "done" /\ Clean
    => \A p \in job.selected \ job.touched : Reconciled(p)

(***************************************************************************)
(* A rebuilt ledger is trusted again only when every path gat.lock tracked *)
(* has a row that agrees with it and, unless edited since, with the file:  *)
(* not after a scoped sync, and not while anything is unresolved.          *)
(***************************************************************************)
TrustRestored ==
  [][validationRequired /\ ~validationRequired'
       => \A p \in Paths \ job.touched : Reconciled(p)]_vars

(***************************************************************************)
(* The ledger never runs ahead of the working tree: when sync commits a    *)
(* row, the file it speaks of is in place, and when it drops one, the file *)
(* is gone, whatever batch the row travelled in and however the sync       *)
(* ended.                                                                  *)
(***************************************************************************)
LedgerNeverAhead ==
  [][job.op = "sync" =>
       \A p \in Paths \ job.touched :
         \/ rows'[p] = rows[p]
         \/ rows'[p] = None /\ file'[p] = Absent
         \/ rows'[p] # None /\ file'[p] = rows'[p].oid]_vars

(***************************************************************************)
(* Sync reports no conflict over a file that already holds the wanted      *)
(* bytes: such a path, left dirty by an interrupted sync for instance, is  *)
(* reconciled by the next one.                                             *)
(***************************************************************************)
WantedBytesNeverConflict ==
  job.op = "sync" => \A p \in job.conflicts \ job.touched : file[p] # job.want[p]
=============================================================================
