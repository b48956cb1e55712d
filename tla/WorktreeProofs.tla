--------------------------- MODULE WorktreeProofs ---------------------------
(***************************************************************************)
(* Proofs about Worktree, for every set of paths and contents, every size  *)
(* of window and batch, and any number of commands, edits and faults.      *)
(*                                                                         *)
(* The inductive invariant has three parts beside the types.  Vouching:    *)
(* the oid of every row, in the ledger or on its way there, is content     *)
(* that is kept elsewhere, and its proof is a proof of that oid unless it  *)
(* was raced.  Syncing: what a sync has done with each path it met, in a   *)
(* window, in a batch or settled.  Moving: a move that can still be undone *)
(* has left its source empty.                                              *)
(***************************************************************************)
EXTENDS Worktree, SequenceTheorems, TLAPS

-----------------------------------------------------------------------------
(* What a row may say: the oid of content that is kept somewhere else as    *)
(* well, and a proof of that oid or none, unless it was raced.              *)
Vouched(row) ==
  row # None => row.oid \in saved /\ (row.raced \/ row.proof \in {None, row.oid})

(***************************************************************************)
(* Every row on its way into the ledger is as honest as those in it, and   *)
(* what any lock wants is kept: by git, or by the cache since an add.      *)
(***************************************************************************)
Vouching ==
  /\ \A p \in Paths : Vouched(rows[p])
  /\ prep # None => Vouched(prep.row)
  /\ job.op = "add" => Vouched(job.row)
  /\ job.op = "sync" => \A p \in DOMAIN job.pending : Vouched(job.pending[p])
  /\ \A p \in Paths : lock[p] \in saved \cup {None}
  /\ \A commit \in Commits, p \in Paths : commit[p] \in saved \cup {None}
  /\ job.op = "sync" => \A p \in Paths : job.want[p] \in saved \cup {None}

(***************************************************************************)
(* The walk of a sync.  An entry of the window writes what is wanted and   *)
(* removes what is not; while the window is open it is an intent, and an   *)
(* action once the window was verified.                                    *)
(***************************************************************************)
Fits(j, e) ==
  /\ j.phase = "plan" => e.act \in Intents
  /\ j.phase # "plan" => e.act \in Actions
  /\ e.act \in {"write", "conflictOrWrite"} => j.want[e.path] # None
  /\ e.act \in {"remove", "conflictOrRemove"} => j.want[e.path] = None

Purposeful(j) ==
  /\ \A i \in DOMAIN j.window : Fits(j, j.window[i])
  /\ j.phase = "stat" => j.window # << >> /\ j.window[1].act = "write"
  /\ j.phase = "done" => j.window = << >> /\ DOMAIN j.pending = {} /\ j.next = Len(Order) + 1

(***************************************************************************)
(* The paths met so far; each is in the window once, or in the batch, or   *)
(* dealt with.                                                             *)
(***************************************************************************)
Walked(j) == {Order[i] : i \in 1 .. (j.next - 1)}
InWindow(j) == {j.window[i].path : i \in DOMAIN j.window}

Once(j) ==
  /\ \A i, k \in DOMAIN j.window : j.window[i].path = j.window[k].path => i = k
  /\ InWindow(j) \subseteq Walked(j) \ DOMAIN j.pending
  /\ DOMAIN j.pending \subseteq Walked(j)

(* The file is as the row says: removed, or placed. *)
Shown(p, row) ==
  IF row = None THEN file[p] = Absent ELSE file[p] = row.oid

Settled(j, p, row) ==
  IF j.want[p] # None
  THEN /\ row # None /\ row.oid = j.want[p]
       /\ j.policy # "trust" /\ ~row.raced => file[p] = j.want[p]
  ELSE row # None => j.policy # "trust" /\ file[p] = Absent

Upcoming(j, p) == IF p \in DOMAIN j.pending THEN j.pending[p] ELSE rows[p]

(* A sync that may not discard local work replaces only bytes it placed. *)
Expendable(p) == file[p] \in saved \cup {Absent} \/ RacedRow(p)

Guarded(j) == ~j.force /\ j.policy # "trust"

Reports(j) == j.conflicts \cup j.unusable

BatchShown(j) ==
  \A p \in DOMAIN j.pending \ j.touched : Shown(p, j.pending[p])

WalkSettled(j) ==
  \A p \in ((Walked(j) \ InWindow(j)) \cap j.selected) \ j.touched :
    p \in Reports(j) \/ Settled(j, p, Upcoming(j, p))

WindowGuarded(j) ==
  Guarded(j) =>
    \A i \in DOMAIN j.window :
      /\ j.window[i].act \in {"write", "remove"}
      /\ j.window[i].path \notin j.touched
      => Expendable(j.window[i].path)

JustPlaced(j) ==
  j.phase = "stat" /\ j.window[1].path \notin j.touched
    => file[j.window[1].path] = j.want[j.window[1].path]

TrustEarned(j) == j.policy = "trust" => ~validationRequired

Reconciling(j) ==
  BatchShown(j) /\ WalkSettled(j) /\ WindowGuarded(j) /\ JustPlaced(j) /\ TrustEarned(j)

Syncing ==
  job.op = "sync" => Purposeful(job) /\ Once(job) /\ Reconciling(job)

(* A move that can still be undone has left its source empty. *)
Moving ==
  job.op = "mv" => job.src # job.dst /\ (job.src \notin job.touched => file[job.src] = Absent)

IInv == TypeOK /\ Vouching /\ Syncing /\ Moving

-----------------------------------------------------------------------------
(* Facts about the data.                                                    *)

(* The order lists the paths, each once. *)
LEMMA OrderFacts ==
  /\ Len(Order) \in Nat
  /\ DOMAIN Order = 1 .. Len(Order)
  /\ \A i \in 1 .. Len(Order) : Order[i] \in Paths
  /\ \A i, k \in 1 .. Len(Order) : Order[i] = Order[k] => i = k
  /\ Paths = {Order[i] : i \in 1 .. Len(Order)}
<1>1. /\ Len(Order) \in Nat
      /\ DOMAIN Order = 1 .. Len(Order)
  BY OrderAssumption, LenProperties
<1> QED
  BY <1>1, OrderAssumption DEF Paths

Entry == [path : Paths, act : Intents \cup Actions]

(* What is left of a window when its first entry was dealt with. *)
LEMMA WindowTail ==
  ASSUME NEW w \in Seq(Entry), w # << >>
  PROVE  /\ DOMAIN w = 1 .. Len(w) /\ 1 \in DOMAIN w
         /\ Head(w) = w[1]
         /\ Tail(w) \in Seq(Entry)
         /\ \A i \in DOMAIN Tail(w) : i + 1 \in DOMAIN w /\ Tail(w)[i] = w[i + 1]
         /\ \A i \in DOMAIN w : i # 1 => i - 1 \in DOMAIN Tail(w)
         /\ \A i \in DOMAIN w : i \in Nat
<1>1. Len(w) \in Nat \ {0} /\ DOMAIN w = 1 .. Len(w)
  BY LenProperties, EmptySeq
<1>2. Tail(w) \in Seq(Entry) /\ Len(Tail(w)) = Len(w) - 1
  BY HeadTailProperties
<1>3. \A i \in 1 .. Len(Tail(w)) : Tail(w)[i] = w[i + 1]
  BY HeadTailProperties
<1>4. DOMAIN Tail(w) = 1 .. Len(w) - 1
  BY <1>2, LenProperties
<1>5. Head(w) = w[1]
  BY <1>1
<1> QED
  BY <1>1, <1>2, <1>3, <1>4, <1>5

(* A window with one entry more. *)
LEMMA WindowAppend ==
  ASSUME NEW w \in Seq(Entry), NEW e \in Entry
  PROVE  /\ Append(w, e) \in Seq(Entry)
         /\ DOMAIN w \subseteq DOMAIN Append(w, e)
         /\ \A i \in DOMAIN w : Append(w, e)[i] = w[i]
         /\ \E n \in DOMAIN Append(w, e) :
              Append(w, e)[n] = e /\ DOMAIN Append(w, e) = DOMAIN w \cup {n} /\ n \notin DOMAIN w
<1>1. Len(w) \in Nat /\ DOMAIN w = 1 .. Len(w)
  BY LenProperties
<1>2. Append(w, e) \in Seq(Entry) /\ Len(Append(w, e)) = Len(w) + 1
  OBVIOUS
<1>3. DOMAIN Append(w, e) = 1 .. Len(w) + 1
  BY <1>2, LenProperties
<1>4. Append(w, e)[Len(w) + 1] = e
  OBVIOUS
<1>5. \A i \in 1 .. Len(w) : Append(w, e)[i] = w[i]
  OBVIOUS
<1>6. Len(w) + 1 \in DOMAIN Append(w, e) /\ Len(w) + 1 \notin DOMAIN w
      /\ DOMAIN Append(w, e) = DOMAIN w \cup {Len(w) + 1}
  BY <1>1, <1>3
<1> QED
  BY <1>1, <1>2, <1>4, <1>5, <1>6

(* A window in which every entry was decided. *)
LEMMA WindowDecided ==
  ASSUME NEW w \in Seq(Entry), NEW f,
         f = [i \in DOMAIN w |-> f[i]],
         \A i \in DOMAIN w : f[i] \in Entry
  PROVE  f \in Seq(Entry)
<1>1. Len(w) \in Nat /\ DOMAIN w = 1 .. Len(w)
  BY LenProperties
<1>2. f \in [1 .. Len(w) -> Entry]
  BY <1>1
<1> QED
  BY <1>1, <1>2, SeqDef

(* Which command a record is of. *)
LEMMA JobKinds ==
  ASSUME TypeOK
  PROVE  /\ job.op = "sync" => job \in SyncJobs
         /\ job.op = "rm" => job \in RmJobs
         /\ job.op = "mv" => job \in MvJobs
         /\ job.op = "add" => job \in AddJobs
         /\ job = Idle \/ job.op \in {"sync", "rm", "mv", "add"}
BY DEF TypeOK, Idle, SyncJobs, RmJobs, MvJobs, AddJobs

(* No command holds the RepoLock under this name. *)
LEMMA IdleOp == Idle.op = "none"
BY DEF Idle

(* The fields of a sync. *)
LEMMA SyncFields ==
  ASSUME NEW j \in SyncJobs
  PROVE  /\ j.op = "sync" /\ j.policy \in Policies \cup {"validate"} /\ j.force \in BOOLEAN
         /\ j.selected \subseteq Paths /\ j.want \in Locks
         /\ j.phase \in {"plan", "apply", "stat", "done"}
         /\ j.next \in 1 .. Len(Order) + 1
         /\ j.window \in Seq(Entry)
         /\ j.pending \in PendingBatches
         /\ j.conflicts \subseteq Paths /\ j.unusable \subseteq Paths /\ j.touched \subseteq Paths
BY DEF SyncJobs, Entry

(* A sync that differs in what a sync may change. *)
LEMMA SyncTyped ==
  ASSUME NEW j \in SyncJobs, NEW k,
         k = [j EXCEPT !.phase = k.phase, !.next = k.next, !.window = k.window,
                       !.pending = k.pending, !.conflicts = k.conflicts,
                       !.unusable = k.unusable, !.touched = k.touched],
         k.phase \in {"plan", "apply", "stat", "done"},
         k.next \in 1 .. Len(Order) + 1,
         k.window \in Seq(Entry), k.pending \in PendingBatches,
         k.conflicts \subseteq Paths, k.unusable \subseteq Paths, k.touched \subseteq Paths
  PROVE  k \in SyncJobs
BY DEF SyncJobs, Entry

(* The rows of a batch. *)
LEMMA BatchFacts ==
  ASSUME NEW batch \in PendingBatches
  PROVE  /\ DOMAIN batch \subseteq Paths
         /\ batch \in [DOMAIN batch -> Rows]
BY DEF PendingBatches

(* A batch is empty to begin with, and again after a commit. *)
LEMMA EmptyBatch == NoBatch \in PendingBatches /\ DOMAIN NoBatch = {}
<1>1. NoBatch \in [{} -> Rows]
  BY DEF NoBatch
<1> QED
  BY <1>1 DEF PendingBatches, NoBatch

(* A commit of a batch. *)
LEMMA CommittedTyped ==
  ASSUME TypeOK, NEW batch \in PendingBatches
  PROVE  /\ Committed(batch) \in [Paths -> Rows]
         /\ \A p \in Paths :
              Committed(batch)[p] = IF p \in DOMAIN batch THEN batch[p] ELSE rows[p]
BY BatchFacts DEF Committed, TypeOK

-----------------------------------------------------------------------------
(* What the steps of a sync change.                                         *)

SameTask(j, k) ==
  /\ k.policy = j.policy /\ k.force = j.force
  /\ k.selected = j.selected /\ k.want = j.want

SameReport(j, k) ==
  /\ k.conflicts = j.conflicts /\ k.unusable = j.unusable /\ k.touched = j.touched

(* Only rows of the paths ps get new destinations; the others stay in the   *)
(* batch or travel with it into the ledger.                                 *)
Passes(ps) ==
  /\ DOMAIN job'.pending \subseteq DOMAIN job.pending \cup ps
  /\ \A p \in Paths \ ps : Upcoming(job, p)' = Upcoming(job, p)
  /\ \A p \in Paths :
       \/ rows'[p] = rows[p]
       \/ p \in DOMAIN job.pending \cup ps /\ rows'[p] = Upcoming(job, p)'

(* A step that touches neither the batch nor the ledger. *)
LEMMA PassesNothing ==
  ASSUME job'.pending = job.pending, rows' = rows
  PROVE  Passes({})
BY DEF Passes, Upcoming

(* A batch that is committed leaves nothing behind. *)
LEMMA PassesBatch ==
  ASSUME TypeOK, job.pending \in PendingBatches,
         rows' = Committed(job.pending), job'.pending = NoBatch
  PROVE  Passes({}) /\ rows' \in [Paths -> Rows]
BY CommittedTyped, EmptyBatch DEF Passes, Upcoming

(* Push: the row gets to its place, in the batch or by a commit of the full *)
(* batch, and the rest of the sync goes on as it was told.                  *)
LEMMA PushFacts ==
  ASSUME TypeOK, job \in SyncJobs, NEW n \in SyncJobs, n.pending = job.pending,
         NEW p \in Paths, NEW row \in Rows, Push(n, p, row)
  PROVE  /\ job' \in SyncJobs /\ rows' \in [Paths -> Rows]
         /\ SameTask(n, job') /\ SameReport(n, job')
         /\ job'.phase = n.phase /\ job'.next = n.next /\ job'.window = n.window
         /\ Passes({p}) /\ Upcoming(job, p)' = row
<1> DEFINE batch == Pushed(p, row)
           full == Cardinality(DOMAIN batch) >= BatchSize
<1>1. job.pending \in PendingBatches
  BY SyncFields
<1>2. /\ DOMAIN batch = DOMAIN job.pending \cup {p}
      /\ \A q \in DOMAIN batch : batch[q] = IF q = p THEN row ELSE job.pending[q]
      /\ batch \in PendingBatches
  <2>1. DOMAIN job.pending \cup {p} \in SUBSET Paths
    BY <1>1, BatchFacts
  <2>2. \A q \in DOMAIN job.pending : job.pending[q] \in Rows
    BY <1>1, BatchFacts
  <2>3. batch \in [DOMAIN job.pending \cup {p} -> Rows]
    BY <2>2 DEF Pushed
  <2> QED
    BY <2>1, <2>3 DEF PendingBatches, Pushed
<1>3. /\ job' = [n EXCEPT !.pending = IF full THEN NoBatch ELSE batch]
      /\ rows' = IF full THEN Committed(batch) ELSE rows
  BY DEF Push
<1> HIDE DEF batch, full
<1>4. job'.pending = IF full THEN NoBatch ELSE batch
  BY <1>3 DEF SyncJobs
<1>5. job'.pending \in PendingBatches
  BY <1>2, <1>4, EmptyBatch
<1>6. job' \in SyncJobs
  BY <1>3, <1>4, <1>5 DEF SyncJobs
<1>7. /\ SameTask(n, job') /\ SameReport(n, job')
      /\ job'.phase = n.phase /\ job'.next = n.next /\ job'.window = n.window
  BY <1>3 DEF SyncJobs, SameTask, SameReport
<1>8. rows' \in [Paths -> Rows]
  BY <1>2, <1>3, CommittedTyped DEF TypeOK
<1>9. CASE full
  <2>1. DOMAIN job'.pending = {}
    BY <1>4, <1>9, EmptyBatch
  <2>2. \A q \in Paths : rows'[q] = IF q \in DOMAIN batch THEN batch[q] ELSE rows[q]
    BY <1>2, <1>3, <1>9, CommittedTyped
  <2> QED
    BY <1>2, <1>6, <1>7, <1>8, <2>1, <2>2 DEF Passes, Upcoming
<1>10. CASE ~full
  <2>1. job'.pending = batch /\ rows' = rows
    BY <1>3, <1>4, <1>10
  <2> QED
    BY <1>2, <1>6, <1>7, <1>8, <2>1 DEF Passes, Upcoming
<1> QED
  BY <1>9, <1>10

(* Intents write what is wanted and remove what is not. *)
LEMMA IntentFacts ==
  ASSUME NEW p
  PROVE  /\ IntentFor(p) \in Intents \cup {"none"}
         /\ IntentFor(p) \in {"write", "conflictOrWrite"} => job.want[p] # None
         /\ IntentFor(p) \in {"remove", "conflictOrRemove"} => job.want[p] = None
<1>1. /\ TrustedIntent(p, job.want[p]) \in Intents \cup {"none"}
      /\ TrustedIntent(p, job.want[p]) \in {"write", "conflictOrWrite"} => job.want[p] # None
      /\ TrustedIntent(p, job.want[p]) \in {"remove", "conflictOrRemove"} => job.want[p] = None
  BY DEF TrustedIntent, Intents
<1>2. /\ ValidatedIntent(p, job.want[p], job.policy) \in Intents \cup {"none"}
      /\ ValidatedIntent(p, job.want[p], job.policy) \in {"write", "conflictOrWrite"}
           => job.want[p] # None
      /\ ValidatedIntent(p, job.want[p], job.policy) \in {"remove", "conflictOrRemove"}
           => job.want[p] = None
  BY DEF ValidatedIntent, Intents
<1> QED
  BY <1>1, <1>2 DEF IntentFor

(* Classification takes the next path into the window, or pushes a fresh    *)
(* proof for it, or passes it by.                                           *)
LEMMA ClassifyFacts ==
  ASSUME TypeOK, SyncClassify
  PROVE  \E p \in Paths :
         /\ job \in SyncJobs /\ job.phase = "plan"
         /\ job.next \in 1 .. Len(Order) /\ p = Order[job.next]
         /\ job' \in SyncJobs /\ rows' \in [Paths -> Rows]
         /\ SameTask(job, job') /\ SameReport(job, job')
         /\ job'.phase = "plan" /\ job'.next = job.next + 1
         /\ \/ /\ IntentFor(p) # "none" /\ rows' = rows /\ job'.pending = job.pending
               /\ job'.window = Append(job.window, [path |-> p, act |-> IntentFor(p)])
            \/ /\ IntentFor(p) = "none" /\ job'.window = job.window
               /\ RefreshesProof(p) /\ Passes({p})
               /\ Upcoming(job, p)' = [oid |-> rows[p].oid, proof |-> file[p], raced |-> FALSE]
            \/ /\ IntentFor(p) = "none" /\ job'.window = job.window
               /\ rows' = rows /\ job'.pending = job.pending
<1> PICK p : p = Order[job.next]
  OBVIOUS
<1> DEFINE intent == IntentFor(p)
           ahead == [job EXCEPT !.next = @ + 1]
           grown == [ahead EXCEPT !.window = Append(@, [path |-> p, act |-> intent])]
           row == [oid |-> rows[p].oid, proof |-> file[p], raced |-> FALSE]
<1>1. job \in SyncJobs /\ job.phase = "plan"
  BY JobKinds DEF SyncClassify, InPhase
<1>2. job.next \in 1 .. Len(Order) + 1 /\ ~(job.next > Len(Order))
  BY <1>1, SyncFields DEF SyncClassify, WindowClosed
<1>3. job.next \in 1 .. Len(Order) /\ p \in Paths /\ job.next + 1 \in 1 .. Len(Order) + 1
  BY <1>2, OrderFacts
<1>4. rows \in [Paths -> Rows]
  BY DEF TypeOK
<1>5. /\ ahead \in SyncJobs /\ ahead.next = job.next + 1 /\ ahead.phase = "plan"
      /\ SameTask(job, ahead) /\ SameReport(job, ahead)
      /\ ahead.window = job.window /\ ahead.pending = job.pending
  BY <1>1, <1>3 DEF SyncJobs, SameTask, SameReport
<1>6. CASE intent # "none"
  <2>1. job' = grown /\ rows' = rows
    BY <1>6 DEF SyncClassify
  <2>2. [path |-> p, act |-> intent] \in Entry
    BY <1>3, <1>6, IntentFacts DEF Entry
  <2>3. Append(job.window, [path |-> p, act |-> intent]) \in Seq(Entry)
    BY <1>1, <2>2, SyncFields, WindowAppend
  <2> HIDE DEF intent, ahead
  <2>4. grown \in SyncJobs /\ grown.window = Append(job.window, [path |-> p, act |-> intent])
    BY <1>5, <2>3 DEF SyncJobs, Entry
  <2>5. /\ grown.next = job.next + 1 /\ grown.phase = "plan" /\ grown.pending = job.pending
        /\ SameTask(job, grown) /\ SameReport(job, grown)
    BY <1>5 DEF SyncJobs, SameTask, SameReport
  <2> HIDE DEF grown
  <2> QED
    BY <1>1, <1>3, <1>4, <1>6, <2>1, <2>4, <2>5 DEF intent
<1>7. CASE intent = "none" /\ RefreshesProof(p)
  <2>1. Push(ahead, p, row)
    BY <1>7 DEF SyncClassify
  <2>2. row \in Rows
    <3>1. rows[p] # None /\ file[p] = rows[p].oid
      BY <1>7 DEF RefreshesProof
    <3>2. rows[p].oid \in Oids
      BY <1>3, <1>4, <3>1 DEF Rows, Row
    <3> QED
      BY <3>1, <3>2 DEF Rows, Row
  <2> HIDE DEF intent, ahead, row
  <2>3. /\ job' \in SyncJobs /\ rows' \in [Paths -> Rows]
        /\ SameTask(ahead, job') /\ SameReport(ahead, job')
        /\ job'.phase = ahead.phase /\ job'.next = ahead.next /\ job'.window = ahead.window
        /\ Passes({p}) /\ Upcoming(job, p)' = row
    BY <1>1, <1>3, <1>5, <2>1, <2>2, PushFacts
  <2>4. SameTask(job, job') /\ SameReport(job, job')
    BY <1>5, <2>3 DEF SameTask, SameReport
  <2> QED
    BY <1>1, <1>3, <1>5, <1>7, <2>3, <2>4 DEF intent, row
<1>8. CASE intent = "none" /\ ~RefreshesProof(p)
  <2>1. job' = ahead /\ rows' = rows
    BY <1>8 DEF SyncClassify
  <2> QED
    BY <1>1, <1>3, <1>4, <1>5, <1>8, <2>1
<1> QED
  BY <1>6, <1>7, <1>8

(* Verification decides every entry of the window and changes nothing else. *)
LEMMA VerifyFacts ==
  ASSUME TypeOK, SyncVerify
  PROVE  /\ job \in SyncJobs /\ job.phase = "plan"
         /\ job' \in SyncJobs /\ job'.phase = "apply"
         /\ SameTask(job, job') /\ SameReport(job, job') /\ job'.next = job.next
         /\ rows' = rows /\ job'.pending = job.pending
         /\ DOMAIN job'.window = DOMAIN job.window
         /\ \E status :
              \A i \in DOMAIN job.window :
                /\ job'.window[i].path = job.window[i].path
                /\ job'.window[i].act =
                     ResolvedAction(job.window[i].act, status[job.want[job.window[i].path]], job.force)
<1>1. job \in SyncJobs /\ job.phase = "plan" /\ rows' = rows
  BY JobKinds DEF SyncVerify, InPhase
<1>2. PICK status :
       job' = [job EXCEPT !.phase = "apply",
                 !.window = [i \in DOMAIN @ |->
                   [path |-> @[i].path,
                    act  |-> ResolvedAction(@[i].act, status[job.want[@[i].path]], job.force)]]]
  BY DEF SyncVerify
<1> DEFINE decided ==
      [i \in DOMAIN job.window |->
        [path |-> job.window[i].path,
         act  |-> ResolvedAction(job.window[i].act, status[job.want[job.window[i].path]], job.force)]]
<1>3. job.window \in Seq(Entry)
  BY <1>1, SyncFields
<1>4. \A i \in DOMAIN job.window : job.window[i] \in Entry
  BY <1>3, LenProperties, ElementOfSeq
<1>5. \A intent, state : ResolvedAction(intent, state, job.force) \in Actions
  BY DEF ResolvedAction, Actions
<1>6. \A i \in DOMAIN job.window : decided[i] \in Entry
  BY <1>4, <1>5 DEF Entry
<1>7. decided \in Seq(Entry)
  <2>1. decided = [i \in DOMAIN job.window |-> decided[i]]
    OBVIOUS
  <2> HIDE DEF decided
  <2> QED
    BY <1>3, <1>6, <2>1, WindowDecided
<1>8. job' = [job EXCEPT !.phase = "apply", !.window = decided]
  BY <1>1, <1>2 DEF SyncJobs
<1>9. /\ DOMAIN decided = DOMAIN job.window
      /\ \A i \in DOMAIN job.window :
                /\ decided[i].path = job.window[i].path
                /\ decided[i].act =
                     ResolvedAction(job.window[i].act, status[job.want[job.window[i].path]], job.force)
  OBVIOUS
<1> HIDE DEF decided
<1>10. job' \in SyncJobs /\ job'.window = decided /\ job'.phase = "apply"
  BY <1>1, <1>7, <1>8 DEF SyncJobs, Entry
<1>11. /\ SameTask(job, job') /\ SameReport(job, job') /\ job'.next = job.next
       /\ job'.pending = job.pending
  BY <1>1, <1>8 DEF SyncJobs, SameTask, SameReport
<1> QED
  BY <1>1, <1>9, <1>10, <1>11

(* The step deals with the path p, the first of the window. *)
Consumes(p) ==
  /\ job.window # << >> /\ p = job.window[1].path
  /\ SameTask(job, job') /\ job'.touched = job.touched /\ job'.next = job.next
  /\ job'.phase = "apply" /\ job'.window = Tail(job.window)

(* The sync after the first entry of its window. *)
LEMMA AppliedFacts ==
  ASSUME job \in SyncJobs, job.window # << >>
  PROVE  /\ Head(job.window) = job.window[1] /\ job.window[1] \in Entry
         /\ job.window[1].path \in Paths
         /\ Applied \in SyncJobs
         /\ Applied.phase = "apply" /\ Applied.window = Tail(job.window)
         /\ SameTask(job, Applied) /\ SameReport(job, Applied)
         /\ Applied.next = job.next /\ Applied.pending = job.pending
<1>1. job.window \in Seq(Entry)
  BY SyncFields
<1>2. /\ Head(job.window) = job.window[1] /\ 1 \in DOMAIN job.window
      /\ Tail(job.window) \in Seq(Entry)
  BY <1>1, WindowTail
<1>3. job.window[1] \in Entry
  BY <1>1, <1>2, LenProperties, ElementOfSeq
<1>4. Applied \in SyncJobs /\ Applied.window = Tail(job.window)
  BY <1>2 DEF Applied, SyncJobs, Entry
<1> QED
  BY <1>2, <1>3, <1>4 DEF Applied, SyncJobs, Entry, SameTask, SameReport

(* A publication puts the wanted bytes at the path of the first entry. *)
LEMMA PublishFacts ==
  ASSUME TypeOK, SyncPublish
  PROVE  \E p \in Paths :
         /\ job \in SyncJobs /\ job.phase = "apply"
         /\ job.window # << >> /\ p = job.window[1].path /\ job.window[1].act = "write"
         /\ job' \in SyncJobs /\ job'.phase = "stat"
         /\ SameTask(job, job') /\ SameReport(job, job') /\ job'.next = job.next
         /\ job'.window = job.window /\ job'.pending = job.pending
         /\ rows' = rows /\ file' = [file EXCEPT ![p] = job.want[p]]
<1>1. job \in SyncJobs /\ job.phase = "apply" /\ job.window # << >> /\ Head(job.window).act = "write"
  BY JobKinds DEF SyncPublish, Applying, InPhase
<1>2. PICK p \in Paths : p = job.window[1].path
  BY <1>1, AppliedFacts
<1>3. Head(job.window) = job.window[1]
  BY <1>1, AppliedFacts
<1>4. job' = [job EXCEPT !.phase = "stat"] /\ rows' = rows
      /\ file' = [file EXCEPT ![p] = job.want[p]]
  BY <1>2, <1>3 DEF SyncPublish
<1>5. job' \in SyncJobs /\ job'.phase = "stat"
  BY <1>1, <1>4 DEF SyncJobs
<1>6. /\ SameTask(job, job') /\ SameReport(job, job') /\ job'.next = job.next
      /\ job'.window = job.window /\ job'.pending = job.pending
  BY <1>1, <1>4 DEF SyncJobs, SameTask, SameReport
<1> QED
  BY <1>1, <1>2, <1>3, <1>4, <1>5, <1>6

(* The row that a publication earns, by what the stat after it finds. *)
Earned(p) ==
  LET proof == IF file[p] = Absent THEN None ELSE file[p]
  IN  [oid |-> job.want[p], proof |-> proof, raced |-> proof \notin {None, job.want[p]}]

(* The stat that follows pushes the row that was earned. *)
LEMMA StatFacts ==
  ASSUME TypeOK, Purposeful(job), SyncStat
  PROVE  \E p \in Paths :
         /\ job \in SyncJobs /\ job.phase = "stat"
         /\ job.window[1].act = "write" /\ job.want[p] \in Oids
         /\ job' \in SyncJobs /\ rows' \in [Paths -> Rows]
         /\ Consumes(p) /\ SameReport(job, job')
         /\ Passes({p}) /\ Upcoming(job, p)' = Earned(p)
<1>1. job \in SyncJobs /\ job.phase = "stat"
  BY JobKinds DEF SyncStat, InPhase
<1>2. job.window # << >> /\ job.window[1].act = "write"
  BY <1>1 DEF Purposeful
<1>3. PICK p \in Paths : p = job.window[1].path
  BY <1>1, <1>2, AppliedFacts
<1>4. 1 \in DOMAIN job.window
  BY <1>1, <1>2, SyncFields, WindowTail
<1>5. job.want[p] \in Oids
  <2>1. job.want[p] # None
    BY <1>2, <1>3, <1>4 DEF Purposeful, Fits
  <2> QED
    BY <1>1, <2>1, SyncFields DEF Locks
<1>6. Earned(p) \in Rows
  <2>1. (IF file[p] = Absent THEN None ELSE file[p]) \in Oids \cup {None}
    BY DEF TypeOK
  <2> QED
    BY <1>5, <2>1 DEF Earned, Rows, Row
<1>7. Push(Applied, p, Earned(p))
  <2>1. Head(job.window).path = p
    BY <1>1, <1>2, <1>3, AppliedFacts
  <2> QED
    BY <2>1 DEF SyncStat, Earned
<1>8. /\ Applied \in SyncJobs /\ Applied.pending = job.pending
      /\ Applied.phase = "apply" /\ Applied.window = Tail(job.window) /\ Applied.next = job.next
      /\ SameTask(job, Applied) /\ SameReport(job, Applied)
  BY <1>1, <1>2, AppliedFacts
<1> DEFINE row == Earned(p)
<1>9. /\ job' \in SyncJobs /\ rows' \in [Paths -> Rows]
      /\ SameTask(Applied, job') /\ SameReport(Applied, job')
      /\ job'.phase = Applied.phase /\ job'.next = Applied.next /\ job'.window = Applied.window
      /\ Passes({p}) /\ Upcoming(job, p)' = row
  BY <1>1, <1>6, <1>7, <1>8, PushFacts
<1>10. SameTask(job, job') /\ SameReport(job, job') /\ job'.touched = job.touched
  BY <1>8, <1>9 DEF SameTask, SameReport
<1> QED
  BY <1>1, <1>2, <1>3, <1>5, <1>8, <1>9, <1>10 DEF Consumes

(* A removal deletes the file of the first entry and pushes the end of its  *)
(* row.                                                                     *)
LEMMA RemoveFacts ==
  ASSUME TypeOK, SyncRemove
  PROVE  \E p \in Paths :
         /\ job \in SyncJobs /\ job.phase = "apply" /\ job.window[1].act = "remove"
         /\ job' \in SyncJobs /\ rows' \in [Paths -> Rows]
         /\ Consumes(p) /\ SameReport(job, job')
         /\ Passes({p}) /\ Upcoming(job, p)' = None
         /\ file' = [file EXCEPT ![p] = Absent]
<1>1. job \in SyncJobs /\ job.phase = "apply" /\ job.window # << >> /\ Head(job.window).act = "remove"
  BY JobKinds DEF SyncRemove, Applying, InPhase
<1>2. PICK p \in Paths : p = job.window[1].path
  BY <1>1, AppliedFacts
<1>3. Head(job.window) = job.window[1]
  BY <1>1, AppliedFacts
<1>4. Push(Applied, p, None) /\ file' = [file EXCEPT ![p] = Absent]
  BY <1>2, <1>3 DEF SyncRemove
<1>5. /\ Applied \in SyncJobs /\ Applied.pending = job.pending
      /\ Applied.phase = "apply" /\ Applied.window = Tail(job.window) /\ Applied.next = job.next
      /\ SameTask(job, Applied) /\ SameReport(job, Applied)
  BY <1>1, AppliedFacts
<1>6. None \in Rows
  BY DEF Rows
<1>7. /\ job' \in SyncJobs /\ rows' \in [Paths -> Rows]
      /\ SameTask(Applied, job') /\ SameReport(Applied, job')
      /\ job'.phase = Applied.phase /\ job'.next = Applied.next /\ job'.window = Applied.window
      /\ Passes({p}) /\ Upcoming(job, p)' = None
  BY <1>1, <1>4, <1>5, <1>6, PushFacts
<1>8. SameTask(job, job') /\ SameReport(job, job') /\ job'.touched = job.touched
  BY <1>5, <1>7 DEF SameTask, SameReport
<1> QED
  BY <1>1, <1>2, <1>3, <1>4, <1>5, <1>7, <1>8 DEF Consumes

(* A conflict, a missing or a corrupt object is reported, and nothing is    *)
(* done.                                                                    *)
LEMMA ReportFacts ==
  ASSUME TypeOK, SyncReport
  PROVE  \E p \in Paths :
         /\ job \in SyncJobs /\ job.phase = "apply"
         /\ job' \in SyncJobs /\ Consumes(p)
         /\ rows' = rows /\ job'.pending = job.pending
         /\ Reports(job') = Reports(job) \cup {p}
<1>1. job \in SyncJobs /\ job.phase = "apply" /\ job.window # << >>
  BY JobKinds DEF SyncReport, Applying, InPhase
<1>2. PICK p \in Paths : p = job.window[1].path
  BY <1>1, AppliedFacts
<1>3. Head(job.window) = job.window[1] /\ rows' = rows
  BY <1>1, AppliedFacts DEF SyncReport
<1>4. /\ Applied \in SyncJobs /\ Applied.pending = job.pending
      /\ Applied.phase = "apply" /\ Applied.window = Tail(job.window) /\ Applied.next = job.next
      /\ SameTask(job, Applied) /\ SameReport(job, Applied)
  BY <1>1, AppliedFacts
<1>5. \/ job' = [Applied EXCEPT !.conflicts = @ \cup {p}]
      \/ job' = [Applied EXCEPT !.unusable = @ \cup {p}]
  BY <1>2, <1>3 DEF SyncReport
<1>6. job' \in SyncJobs
  BY <1>4, <1>5 DEF SyncJobs
<1>7. /\ job'.phase = "apply" /\ job'.window = Tail(job.window) /\ job'.next = job.next
      /\ job'.pending = job.pending
  BY <1>4, <1>5 DEF SyncJobs
<1>8. SameTask(job, job') /\ job'.touched = job.touched
  BY <1>4, <1>5 DEF SyncJobs, SameTask, SameReport
<1>9. Reports(job') = Reports(job) \cup {p}
  <2>1. Applied.conflicts = job.conflicts /\ Applied.unusable = job.unusable
    BY <1>4 DEF SameReport
  <2>2. CASE job' = [Applied EXCEPT !.conflicts = @ \cup {p}]
    <3>1. job'.conflicts = job.conflicts \cup {p} /\ job'.unusable = job.unusable
      BY <1>4, <2>1, <2>2 DEF SyncJobs
    <3> QED
      BY <3>1 DEF Reports
  <2>3. CASE job' = [Applied EXCEPT !.unusable = @ \cup {p}]
    <3>1. job'.unusable = job.unusable \cup {p} /\ job'.conflicts = job.conflicts
      BY <1>4, <2>1, <2>3 DEF SyncJobs
    <3> QED
      BY <3>1 DEF Reports
  <2> QED
    BY <1>5, <2>2, <2>3
<1> QED
  BY <1>1, <1>2, <1>3, <1>6, <1>7, <1>8, <1>9 DEF Consumes

(* The window was applied, or the walk is over. *)
LEMMA TurnFacts ==
  ASSUME TypeOK, SyncNextWindow \/ SyncFlush
  PROVE  /\ job \in SyncJobs /\ job.window = << >> /\ job.phase \in {"plan", "apply"}
         /\ job' \in SyncJobs /\ rows' \in [Paths -> Rows]
         /\ SameTask(job, job') /\ SameReport(job, job')
         /\ job'.window = << >> /\ job'.next = job.next
         /\ Passes({})
         /\ \/ job'.phase = "plan"
            \/ job'.phase = "done" /\ job.next = Len(Order) + 1 /\ DOMAIN job'.pending = {}
<1>1. job \in SyncJobs /\ job.window = << >> /\ job.phase \in {"plan", "apply"}
  BY JobKinds DEF SyncNextWindow, SyncFlush, InPhase
<1>2. job.pending \in PendingBatches
  BY <1>1, SyncFields
<1>3. \/ /\ rows' = rows /\ job' = [job EXCEPT !.phase = "plan"]
      \/ /\ rows' = Committed(job.pending)
         /\ job' = [job EXCEPT !.phase = "plan", !.pending = NoBatch]
      \/ /\ rows' = Committed(job.pending) /\ job.next > Len(Order)
         /\ job' = [job EXCEPT !.phase = "done", !.pending = NoBatch]
  BY DEF SyncNextWindow, SyncFlush
<1>4. job.next > Len(Order) => job.next = Len(Order) + 1
  BY <1>1, SyncFields, OrderFacts
<1>5. CASE rows' = rows /\ job' = [job EXCEPT !.phase = "plan"]
  <2>1. job' \in SyncJobs /\ job'.phase = "plan" /\ job'.pending = job.pending
    BY <1>1, <1>5 DEF SyncJobs
  <2>2. SameTask(job, job') /\ SameReport(job, job') /\ job'.window = << >> /\ job'.next = job.next
    BY <1>1, <1>5 DEF SyncJobs, SameTask, SameReport
  <2> QED
    BY <1>1, <1>5, <2>1, <2>2, PassesNothing DEF TypeOK
<1>6. CASE /\ rows' = Committed(job.pending)
           /\ \/ job' = [job EXCEPT !.phase = "plan", !.pending = NoBatch]
              \/ /\ job.next > Len(Order)
                 /\ job' = [job EXCEPT !.phase = "done", !.pending = NoBatch]
  <2>1. job'.pending = NoBatch /\ job' \in SyncJobs
    BY <1>1, <1>6, EmptyBatch DEF SyncJobs
  <2>2. job'.phase = "plan" \/ (job'.phase = "done" /\ job.next > Len(Order))
    BY <1>1, <1>6 DEF SyncJobs
  <2>3. SameTask(job, job') /\ SameReport(job, job') /\ job'.window = << >> /\ job'.next = job.next
    BY <1>1, <1>6 DEF SyncJobs, SameTask, SameReport
  <2>4. Passes({}) /\ rows' \in [Paths -> Rows]
    BY <1>2, <1>6, <2>1, PassesBatch
  <2> QED
    BY <1>1, <1>4, <2>1, <2>2, <2>3, <2>4, EmptyBatch
<1> QED
  BY <1>3, <1>5, <1>6

-----------------------------------------------------------------------------
(* Type correctness.                                                        *)

(* A step of sync changes no other variables than these. *)
LEMMA OthersTyped ==
  ASSUME TypeOK,
         UNCHANGED <<validationRequired, backups, prep, saved, bounds>>,
         lock' \in Locks, rows' \in [Paths -> Rows], job' \in SyncJobs,
         file' \in [Paths -> Oids \cup {Absent}]
  PROVE  TypeOK'
BY DEF TypeOK, bounds

(* Types through the steps of gat sync. *)
LEMMA SyncType ==
  ASSUME TypeOK, Syncing, Sync
  PROVE  TypeOK'
<1>1. CASE \E policy \in Policies, force \in BOOLEAN, selected \in Selections :
             SyncStart(policy, force, selected)
  <2>1. PICK policy \in Policies, force \in BOOLEAN, selected \in Selections :
          SyncStart(policy, force, selected)
    BY <1>1
  <2>2. /\ ForLedger(policy) \in Policies \cup {"validate"} /\ selected \subseteq Paths
        /\ 1 \in 1 .. Len(Order) + 1 /\ << >> \in Seq(Entry) /\ NoBatch \in PendingBatches
    BY <2>1, CommandAssumption, OrderFacts, EmptyBatch, EmptySeq DEF ForLedger
  <2>3. lock \in Locks
    BY DEF TypeOK
  <2>4. job' \in SyncJobs
    BY <2>1, <2>2, <2>3 DEF SyncStart, SyncJobs, Entry
  <2>5. commands' \in 0 .. MaxCommands
    BY <2>1, BoundAssumption DEF SyncStart, Begins, TypeOK
  <2> QED
    BY <2>1, <2>4, <2>5 DEF SyncStart, TypeOK
<1>2. CASE SyncClassify
  <2>1. job' \in SyncJobs /\ rows' \in [Paths -> Rows]
    BY <1>2, ClassifyFacts
  <2> QED
    BY <1>2, <2>1, OthersTyped DEF SyncClassify, TypeOK
<1>3. CASE SyncVerify
  <2>1. job' \in SyncJobs
    BY <1>3, VerifyFacts
  <2> QED
    BY <1>3, <2>1, OthersTyped DEF SyncVerify, TypeOK
<1>4. CASE SyncPublish
  <2>1. PICK p \in Paths :
          /\ job \in SyncJobs /\ job.window # << >> /\ job.phase = "apply"
          /\ p = job.window[1].path /\ job.window[1].act = "write"
          /\ job' \in SyncJobs /\ file' = [file EXCEPT ![p] = job.want[p]]
    BY <1>4, PublishFacts
  <2>2. 1 \in DOMAIN job.window /\ job.op = "sync"
    BY <2>1, SyncFields, WindowTail
  <2>3. job.want[p] # None
    BY <2>1, <2>2 DEF Syncing, Purposeful, Fits
  <2>4. job.want[p] \in Oids
    BY <2>1, <2>3, SyncFields DEF Locks
  <2>5. file' \in [Paths -> Oids \cup {Absent}]
    BY <2>1, <2>4 DEF TypeOK
  <2> QED
    BY <1>4, <2>1, <2>5, OthersTyped DEF SyncPublish, TypeOK
<1>5. CASE SyncStat
  <2>1. job.op = "sync"
    BY <1>5 DEF SyncStat, InPhase
  <2>2. job' \in SyncJobs /\ rows' \in [Paths -> Rows]
    BY <1>5, <2>1, StatFacts DEF Syncing
  <2> QED
    BY <1>5, <2>2, OthersTyped DEF SyncStat, TypeOK
<1>6. CASE SyncRemove
  <2>1. PICK p \in Paths : job' \in SyncJobs /\ rows' \in [Paths -> Rows]
                           /\ file' = [file EXCEPT ![p] = Absent]
    BY <1>6, RemoveFacts
  <2>2. file' \in [Paths -> Oids \cup {Absent}]
    BY <2>1 DEF TypeOK
  <2> QED
    BY <1>6, <2>1, <2>2, OthersTyped DEF SyncRemove, TypeOK
<1>7. CASE SyncReport
  <2>1. job' \in SyncJobs
    BY <1>7, ReportFacts
  <2> QED
    BY <1>7, <2>1, OthersTyped DEF SyncReport, TypeOK
<1>8. CASE SyncNextWindow \/ SyncFlush
  <2>1. job' \in SyncJobs /\ rows' \in [Paths -> Rows]
    BY <1>8, TurnFacts
  <2> QED
    BY <1>8, <2>1, OthersTyped DEF SyncNextWindow, SyncFlush, TypeOK
<1>9. CASE SyncEnd
  BY <1>9 DEF SyncEnd, TypeOK, bounds
<1>10. CASE SyncFail
  <2>1. job \in SyncJobs
    BY <1>10, JobKinds DEF SyncFail
  <2>2. rows' \in [Paths -> Rows]
    BY <1>10, <2>1, SyncFields, CommittedTyped DEF SyncFail
  <2>3. faults' \in 0 .. MaxFaults
    BY <1>10, BoundAssumption DEF SyncFail, TypeOK
  <2> QED
    BY <1>10, <2>2, <2>3 DEF SyncFail, TypeOK
<1> QED
  BY <1>1, <1>2, <1>3, <1>4, <1>5, <1>6, <1>7, <1>8, <1>9, <1>10 DEF Sync

(* The content an add prepared, and the row it prepared for it. *)
LEMMA PrepareFacts ==
  ASSUME TypeOK, NEW p \in Paths, AddPrepare(p)
  PROVE  /\ file[p] \in Oids
         /\ prep' \in Preps /\ prep'.row \in Row
         /\ saved \subseteq saved' /\ saved' \subseteq saved \cup {file[p]}
         /\ \/ /\ lock[p] # None /\ prep'.row.oid = lock[p]
               /\ IF Proven(p, ProofOf(rows[p]))
                  THEN /\ rows[p] # None /\ rows[p].oid = lock[p]
                       /\ prep'.row.proof = rows[p].proof /\ prep'.row.raced = rows[p].raced
                  ELSE prep'.row.proof = file[p] /\ file[p] = lock[p]
            \/ /\ prep'.row.oid = file[p] /\ prep'.row.proof = file[p]
               /\ file[p] \in saved'
<1>1. file[p] \in Oids
  BY DEF AddPrepare, TypeOK
<1>2. lock \in Locks /\ lock[p] \in Oids \cup {None} /\ rows[p] \in Rows
  BY DEF TypeOK, Locks
<1> DEFINE proven == Proven(p, ProofOf(rows[p]))
           reused == [oid |-> lock[p],
                      proof |-> IF proven THEN rows[p].proof ELSE file[p],
                      raced |-> proven /\ rows[p].raced]
           ingested == [oid |-> file[p], proof |-> file[p], raced |-> FALSE]
<1>3. \/ /\ lock[p] # None /\ OidOf(rows[p]) \in {None, lock[p]}
         /\ FileMatches(p, lock[p], ProofOf(rows[p]))
         /\ prep' = [path |-> p, row |-> reused, base |-> lock] /\ saved' = saved
      \/ /\ prep' = [path |-> p, row |-> ingested, base |-> lock]
         /\ saved' = saved \cup {file[p]}
  BY DEF AddPrepare
<1>4. CASE /\ lock[p] # None /\ OidOf(rows[p]) \in {None, lock[p]}
           /\ FileMatches(p, lock[p], ProofOf(rows[p]))
           /\ prep' = [path |-> p, row |-> reused, base |-> lock] /\ saved' = saved
  <2>1. proven => /\ rows[p] # None /\ rows[p].oid = lock[p]
                  /\ rows[p].proof \in Oids \cup {None} /\ rows[p].raced \in BOOLEAN
    <3> SUFFICES ASSUME proven
                 PROVE  /\ rows[p] # None /\ rows[p].oid = lock[p]
                        /\ rows[p].proof \in Oids \cup {None} /\ rows[p].raced \in BOOLEAN
      OBVIOUS
    <3>1. rows[p] # None
      BY DEF Proven, ProofOf
    <3>2. rows[p] \in Row
      BY <1>2, <3>1 DEF Rows
    <3>3. rows[p].oid \in Oids /\ rows[p].oid \in {None, lock[p]}
      BY <1>4, <3>1, <3>2 DEF OidOf, Row
    <3> QED
      BY <3>1, <3>2, <3>3, ContentAssumption DEF Row
  <2>2. ~proven => file[p] = lock[p]
    BY <1>4 DEF FileMatches
  <2>3. reused.raced = IF proven THEN rows[p].raced ELSE FALSE
    BY <2>1
  <2>4. reused \in Row
    BY <1>1, <1>2, <1>4, <2>1, <2>3 DEF Row
  <2>5. /\ reused.oid = lock[p]
        /\ reused.proof = IF proven THEN rows[p].proof ELSE file[p]
    OBVIOUS
  <2> HIDE DEF reused, proven
  <2>6. prep'.row = reused /\ prep' \in Preps
    BY <1>2, <1>4, <2>4 DEF Preps
  <2> QED
    BY <1>1, <1>4, <2>1, <2>2, <2>3, <2>4, <2>5, <2>6 DEF proven
<1>5. CASE /\ prep' = [path |-> p, row |-> ingested, base |-> lock]
           /\ saved' = saved \cup {file[p]}
  <2>1. ingested \in Row
    BY <1>1 DEF Row
  <2>2. prep' \in Preps /\ prep'.row \in Row
    BY <1>2, <1>5, <2>1 DEF Preps
  <2> QED
    BY <1>1, <1>5, <2>2
<1> QED
  BY <1>3, <1>4, <1>5

(* Types through the steps of gat add. *)
LEMMA AddType ==
  ASSUME TypeOK, Add
  PROVE  TypeOK'
<1>1. ASSUME NEW p \in Paths, AddPrepare(p) PROVE TypeOK'
  <2>1. prep' \in Preps /\ saved' \subseteq Oids
    BY <1>1, PrepareFacts DEF TypeOK
  <2>2. commands' \in 0 .. MaxCommands
    BY <1>1, BoundAssumption DEF AddPrepare, Begins, TypeOK
  <2> QED
    BY <1>1, <2>1, <2>2 DEF AddPrepare, TypeOK
<1>2. CASE AddPublish
  <2>1. prep \in [path : Paths, row : Row, base : Locks]
    BY <1>2 DEF AddPublish, TypeOK, Preps
  <2>2. prep.path \in Paths /\ prep.row \in Row /\ prep.row.oid \in Oids
    BY <2>1 DEF Row
  <2>3. [lock EXCEPT ![prep.path] = prep.row.oid] \in Locks
    BY <2>2 DEF TypeOK, Locks
  <2>4. [op |-> "add", path |-> prep.path, row |-> prep.row] \in AddJobs
    BY <2>2 DEF AddJobs
  <2>5. None \in Preps
    BY DEF Preps
  <2>6. lock' \in Locks
    BY <1>2, <2>3 DEF AddPublish, TypeOK
  <2>7. job' \in {Idle} \cup SyncJobs \cup RmJobs \cup MvJobs \cup AddJobs
    BY <1>2, <2>4 DEF AddPublish, TypeOK
  <2> QED
    BY <1>2, <2>5, <2>6, <2>7 DEF AddPublish, TypeOK, bounds
<1>3. CASE AddRecord
  <2>1. job \in AddJobs
    BY <1>3, JobKinds DEF AddRecord
  <2>2. job.path \in Paths /\ job.row \in Rows
    BY <2>1 DEF AddJobs, Rows
  <2>3. rows' \in [Paths -> Rows]
    BY <1>3, <2>2 DEF AddRecord, TypeOK
  <2> QED
    BY <1>3, <2>3 DEF AddRecord, TypeOK, bounds
<1> QED
  BY <1>1, <1>2, <1>3 DEF Add

(* Types through the steps of gat rm. *)
LEMMA RmType ==
  ASSUME TypeOK, Rm
  PROVE  TypeOK'
<1>1. ASSUME NEW p \in Paths, NEW cached \in BOOLEAN, RmPublish(p, cached) PROVE TypeOK'
  <2>1. [lock EXCEPT ![p] = None] \in Locks
    BY DEF TypeOK, Locks
  <2>2. job' \in RmJobs
    BY <1>1 DEF RmPublish, RmJobs
  <2>3. commands' \in 0 .. MaxCommands
    BY <1>1, BoundAssumption DEF RmPublish, Begins, TypeOK
  <2> QED
    BY <1>1, <2>1, <2>2, <2>3 DEF RmPublish, TypeOK
<1>2. CASE RmDelete
  <2>1. job \in RmJobs
    BY <1>2, JobKinds DEF RmDelete
  <2>2. job' \in RmJobs /\ job.path \in Paths
    BY <1>2, <2>1 DEF RmDelete, RmJobs
  <2>3. file' \in [Paths -> Oids \cup {Absent}]
    BY <1>2, <2>2 DEF RmDelete, TypeOK
  <2> QED
    BY <1>2, <2>2, <2>3 DEF RmDelete, TypeOK, bounds
<1>3. CASE RmForget
  <2>1. job \in RmJobs
    BY <1>3, JobKinds DEF RmForget
  <2>2. job.path \in Paths /\ None \in Rows
    BY <2>1 DEF RmJobs, Rows
  <2>3. rows' \in [Paths -> Rows]
    BY <1>3, <2>2 DEF RmForget, TypeOK
  <2> QED
    BY <1>3, <2>3 DEF RmForget, TypeOK, bounds
<1> QED
  BY <1>1, <1>2, <1>3 DEF Rm

(* Types through the steps of gat mv. *)
LEMMA MvType ==
  ASSUME TypeOK, Mv
  PROVE  TypeOK'
<1>1. ASSUME NEW src \in Paths, NEW dst \in Paths, NEW force \in BOOLEAN, MvRename(src, dst, force)
      PROVE  TypeOK'
  <2>1. file \in [Paths -> Oids \cup {Absent}]
    BY DEF TypeOK
  <2>2. file' \in [Paths -> Oids \cup {Absent}] /\ backups' \subseteq Oids
    BY <1>1, <2>1 DEF MvRename, TypeOK
  <2>3. job' \in MvJobs
    BY <1>1, <2>1 DEF MvRename, MvJobs
  <2>4. commands' \in 0 .. MaxCommands
    BY <1>1, BoundAssumption DEF MvRename, Begins, TypeOK
  <2> QED
    BY <1>1, <2>2, <2>3, <2>4 DEF MvRename, TypeOK
<1>2. ASSUME job.op = "mv" PROVE /\ job \in MvJobs /\ job.src \in Paths /\ job.dst \in Paths
                                 /\ job.aside \in Oids \cup {Absent}
  <2>1. job \in MvJobs
    BY <1>2, JobKinds
  <2> QED
    BY <2>1 DEF MvJobs
<1>3. CASE MvPublish
  <2>1. job' \in MvJobs
    BY <1>2, <1>3 DEF MvPublish, MvJobs
  <2>2. lock' \in Locks
    BY <1>2, <1>3 DEF MvPublish, TypeOK, Locks
  <2> QED
    BY <1>3, <2>1, <2>2 DEF MvPublish, TypeOK, bounds
<1>4. CASE MvCommit
  <2>1. None \in Rows
    BY DEF Rows
  <2>2. (IF rows[job.src] # None THEN rows[job.src]
         ELSE IF job.replaced THEN None ELSE rows[job.dst]) \in Rows
    BY <1>2, <1>4, <2>1 DEF MvCommit, TypeOK
  <2>3. rows' \in [Paths -> Rows]
    BY <1>2, <1>4, <2>1, <2>2 DEF MvCommit, MovedRows, TypeOK
  <2> QED
    BY <1>4, <2>3 DEF MvCommit, TypeOK, bounds
<1>5. CASE MvRollback
  <2>1. file' \in [Paths -> Oids \cup {Absent}]
    BY <1>2, <1>5 DEF MvRollback, TypeOK
  <2>2. backups' \subseteq Oids
    BY <1>5 DEF MvRollback, TypeOK
  <2>3. faults' \in 0 .. MaxFaults
    BY <1>5, BoundAssumption DEF MvRollback, TypeOK
  <2> QED
    BY <1>5, <2>1, <2>2, <2>3 DEF MvRollback, TypeOK
<1> QED
  BY <1>1, <1>3, <1>4, <1>5 DEF Mv

(* An edit of a path that was examined already is noted. *)
LEMMA EditFacts ==
  ASSUME TypeOK, NEW p \in Paths, NEW bytes \in UserBytes \cup {Absent}, UserEdits(p, bytes)
  PROVE  /\ file' = [file EXCEPT ![p] = bytes] /\ bytes \in Oids \cup {Absent}
         /\ job' = job \/ (p \in Examined /\ job.op \in {"sync", "mv"}
                           /\ job' = [job EXCEPT !.touched = @ \cup {p}])
         /\ p \in Examined => job.op \in {"sync", "mv"} /\ job' = [job EXCEPT !.touched = @ \cup {p}]
<1>1. file' = [file EXCEPT ![p] = bytes]
  BY DEF UserEdits
<1>2. bytes \in Oids \cup {Absent}
  BY ContentAssumption
<1>3. job' = IF p \in Examined THEN [job EXCEPT !.touched = @ \cup {p}] ELSE job
  BY DEF UserEdits
<1>4. p \in Examined => job.op \in {"sync", "mv"}
  BY DEF Examined
<1> QED
  BY <1>1, <1>2, <1>3, <1>4

(* Types through the user's edits and git's checkouts. *)
LEMMA OthersType ==
  ASSUME TypeOK, Others
  PROVE  TypeOK'
<1>1. ASSUME NEW p \in Paths, NEW bytes \in UserBytes \cup {Absent}, UserEdits(p, bytes)
      PROVE  TypeOK'
  <2>1. file' \in [Paths -> Oids \cup {Absent}]
    BY <1>1, EditFacts DEF TypeOK
  <2>2. job' \in {Idle} \cup SyncJobs \cup RmJobs \cup MvJobs \cup AddJobs
    <3>1. CASE job' = job
      BY <3>1 DEF TypeOK
    <3>2. CASE job.op = "sync" /\ job' = [job EXCEPT !.touched = @ \cup {p}]
      <4>1. job' \in SyncJobs
        BY <3>2, JobKinds DEF SyncJobs
      <4> QED
        BY <4>1
    <3>3. CASE job.op = "mv" /\ job' = [job EXCEPT !.touched = @ \cup {p}]
      <4>1. job' \in MvJobs
        BY <3>3, JobKinds DEF MvJobs
      <4> QED
        BY <4>1
    <3> QED
      BY <1>1, <3>1, <3>2, <3>3, EditFacts
  <2>3. edits' \in 0 .. MaxEdits
    BY <1>1, BoundAssumption DEF UserEdits, TypeOK
  <2> QED
    BY <1>1, <2>1, <2>2, <2>3 DEF UserEdits, TypeOK
<1>2. ASSUME NEW commit \in Commits, GitCheckout(commit) PROVE TypeOK'
  <2>1. commit \in Locks
    BY ContentAssumption
  <2>2. checkouts' \in 0 .. MaxCheckouts
    BY <1>2, BoundAssumption DEF GitCheckout, TypeOK
  <2> QED
    BY <1>2, <2>1, <2>2 DEF GitCheckout, TypeOK
<1> QED
  BY <1>1, <1>2 DEF Others

(* Every step keeps the types. *)
LEMMA TypeStep ==
  ASSUME IInv, [Next]_vars
  PROVE  TypeOK'
<1>1. CASE RepairState
  <2>1. rows' \in [Paths -> Rows]
    BY <1>1 DEF RepairState, Rows
  <2>2. commands' \in 0 .. MaxCommands /\ faults' \in 0 .. MaxFaults
    BY <1>1, BoundAssumption DEF RepairState, Begins, IInv, TypeOK
  <2> QED
    BY <1>1, <2>1, <2>2 DEF RepairState, IInv, TypeOK
<1>2. CASE Crash
  <2>1. faults' \in 0 .. MaxFaults
    BY <1>2, BoundAssumption DEF Crash, IInv, TypeOK
  <2> QED
    BY <1>2, <2>1 DEF Crash, IInv, TypeOK
<1>3. CASE UNCHANGED vars
  BY <1>3 DEF vars, IInv, TypeOK
<1> QED
  BY <1>1, <1>2, <1>3, SyncType, AddType, RmType, MvType, OthersType DEF Next, IInv

-----------------------------------------------------------------------------
(* Rows are vouched for.                                                    *)

(* What travels through a batch stays vouched for. *)
LEMMA VouchingPasses ==
  ASSUME TypeOK, TypeOK', Vouching, job \in SyncJobs, job' \in SyncJobs, SameTask(job, job'),
         NEW ps \in SUBSET Paths, Passes(ps),
         \A p \in ps : Vouched(Upcoming(job, p)'),
         UNCHANGED <<lock, prep, saved>>
  PROVE  Vouching'
<1>1. job.op = "sync" /\ job'.op = "sync" /\ job'.want = job.want
  BY SyncFields DEF SameTask
<1>2. DOMAIN job.pending \subseteq Paths /\ DOMAIN job'.pending \subseteq Paths
  BY SyncFields, BatchFacts
<1>3. \A p \in Paths : Vouched(Upcoming(job, p))
  BY <1>1, <1>2 DEF Vouching, Upcoming
<1>4. \A p \in Paths : Vouched(Upcoming(job, p)')
  BY <1>3 DEF Passes
<1>5. \A p \in Paths : Vouched(rows'[p])
  BY <1>4 DEF Passes, Vouching
<1>6. \A p \in DOMAIN job'.pending : Vouched(job'.pending[p])
  BY <1>2, <1>4 DEF Upcoming
<1>7. \A p \in Paths : Vouched(rows[p])'
  BY <1>5 DEF Vouched
<1>8. \A p \in DOMAIN job'.pending : Vouched(job.pending[p])'
  BY <1>6 DEF Vouched
<1>9. prep' # None => Vouched(prep.row)'
  BY DEF Vouching, Vouched
<1> QED
  BY <1>1, <1>7, <1>8, <1>9 DEF Vouching

(* A step that takes its rows from those there are. *)
LEMMA VouchingKept ==
  ASSUME Vouching, saved \subseteq saved',
         job' = job \/ job' = Idle \/ job'.op \in {"rm", "mv"}
           \/ (job'.op = job.op /\ job.op = "sync" /\ job'.want = job.want
               /\ job'.pending = job.pending),
         prep' = prep \/ prep' = None,
         \A p \in Paths : \/ rows'[p] \in {None} \cup {rows[q] : q \in Paths}
                          \/ job.op = "sync" /\ p \in DOMAIN job.pending /\ rows'[p] = job.pending[p],
         \A p \in Paths : lock'[p] \in {None} \cup {lock[q] : q \in Paths}
                                         \cup {commit[q] : commit \in Commits, q \in Paths}
  PROVE  Vouching'
<1>1. \A row : Vouched(row) => Vouched(row)'
  BY DEF Vouched
<1>2. \A row : row = None => Vouched(row)'
  BY DEF Vouched
<1>3. \A p \in Paths : Vouched(rows[p])'
  <2>1. \A p \in Paths : \/ rows'[p] = None
                         \/ \E q \in Paths : rows'[p] = rows[q]
                         \/ job.op = "sync" /\ p \in DOMAIN job.pending /\ rows'[p] = job.pending[p]
    OBVIOUS
  <2>2. \A p \in Paths : rows'[p] = None \/ Vouched(rows'[p])
    BY <2>1 DEF Vouching
  <2> QED
    BY <2>2 DEF Vouched
<1>4. prep' # None => Vouched(prep.row)'
  BY DEF Vouching, Vouched
<1>5. job'.op = "add" => Vouched(job.row)'
  BY IdleOp DEF Vouching, Vouched
<1>6. job'.op = "sync" => /\ \A p \in DOMAIN job'.pending : Vouched(job.pending[p])'
                          /\ \A p \in Paths : job'.want[p] \in saved' \cup {None}
  BY IdleOp DEF Vouching, Vouched
<1>7. \A commit \in Commits, p \in Paths : commit[p] \in saved' \cup {None}
  BY DEF Vouching
<1>8. \A p \in Paths : lock'[p] \in saved' \cup {None}
  <2>1. \A q \in Paths : lock[q] \in saved' \cup {None}
    BY DEF Vouching
  <2> QED
    BY <1>7, <2>1
<1> QED
  BY <1>3, <1>4, <1>5, <1>6, <1>7, <1>8 DEF Vouching

(* No step of sync makes a row that is not vouched for. *)
LEMMA VouchingSync ==
  ASSUME TypeOK, TypeOK', Vouching, Syncing, Sync
  PROVE  Vouching'
<1>1. CASE \E policy \in Policies, force \in BOOLEAN, selected \in Selections :
             SyncStart(policy, force, selected)
  <2>1. /\ job'.op = "sync" /\ job'.want = lock /\ DOMAIN job'.pending = {}
        /\ UNCHANGED <<lock, rows, prep, saved>>
    BY <1>1, EmptyBatch DEF SyncStart
  <2> QED
    BY <2>1 DEF Vouching, Vouched
<1>2. CASE SyncClassify
  <2>1. UNCHANGED <<lock, prep, saved>>
    BY <1>2 DEF SyncClassify
  <2>2. PICK p \in Paths :
         /\ job \in SyncJobs /\ job' \in SyncJobs /\ SameTask(job, job')
         /\ \/ rows' = rows /\ job'.pending = job.pending
            \/ /\ RefreshesProof(p) /\ Passes({p})
               /\ Upcoming(job, p)' = [oid |-> rows[p].oid, proof |-> file[p], raced |-> FALSE]
    BY <1>2, ClassifyFacts
  <2>3. CASE rows' = rows /\ job'.pending = job.pending
    BY <2>1, <2>2, <2>3, PassesNothing, VouchingPasses
  <2>4. CASE /\ RefreshesProof(p) /\ Passes({p})
             /\ Upcoming(job, p)' = [oid |-> rows[p].oid, proof |-> file[p], raced |-> FALSE]
    <3>1. Vouched(Upcoming(job, p)')
      BY <2>4 DEF RefreshesProof, Vouched, Vouching
    <3> QED
      BY <2>1, <2>2, <2>4, <3>1, VouchingPasses
  <2> QED
    BY <2>2, <2>3, <2>4
<1>3. CASE SyncVerify
  BY <1>3, VerifyFacts, PassesNothing, VouchingPasses DEF SyncVerify
<1>4. CASE SyncPublish
  BY <1>4, PublishFacts, PassesNothing, VouchingPasses DEF SyncPublish
<1>5. CASE SyncStat
  <2>1. UNCHANGED <<lock, prep, saved>> /\ job.op = "sync"
    BY <1>5 DEF SyncStat, InPhase
  <2>2. PICK p \in Paths :
         /\ job \in SyncJobs /\ job' \in SyncJobs /\ SameReport(job, job') /\ Consumes(p)
         /\ Passes({p}) /\ Upcoming(job, p)' = Earned(p) /\ job.want[p] \in Oids
    BY <1>5, <2>1, StatFacts DEF Syncing
  <2>3. job.want[p] \in saved
    BY <2>1, <2>2, ContentAssumption DEF Vouching
  <2>4. Vouched(Earned(p))
    BY <2>3 DEF Vouched, Earned
  <2> QED
    BY <2>1, <2>2, <2>4, VouchingPasses DEF Consumes
<1>6. CASE SyncRemove
  <2>1. UNCHANGED <<lock, prep, saved>>
    BY <1>6 DEF SyncRemove
  <2>2. PICK p \in Paths :
         /\ job \in SyncJobs /\ job' \in SyncJobs /\ Consumes(p)
         /\ Passes({p}) /\ Upcoming(job, p)' = None
    BY <1>6, RemoveFacts
  <2>3. Vouched(None)
    BY DEF Vouched
  <2> QED
    BY <2>1, <2>2, <2>3, VouchingPasses DEF Consumes
<1>7. CASE SyncReport
  BY <1>7, ReportFacts, PassesNothing, VouchingPasses DEF SyncReport, Consumes
<1>8. CASE SyncNextWindow \/ SyncFlush
  BY <1>8, TurnFacts, VouchingPasses DEF SyncNextWindow, SyncFlush
<1>9. CASE SyncEnd
  BY <1>9, VouchingKept DEF SyncEnd
<1>10. CASE SyncFail
  <2>1. \A p \in Paths : rows'[p] = IF p \in DOMAIN job.pending THEN job.pending[p] ELSE rows[p]
    BY <1>10, JobKinds, SyncFields, CommittedTyped DEF SyncFail
  <2> QED
    BY <1>10, <2>1, VouchingKept DEF SyncFail
<1> QED
  BY <1>1, <1>2, <1>3, <1>4, <1>5, <1>6, <1>7, <1>8, <1>9, <1>10 DEF Sync

(* gat add records what it hashed or what the ledger vouched for, and saves *)
(* what it publishes.                                                       *)
LEMMA VouchingAdd ==
  ASSUME TypeOK, Vouching, Add
  PROVE  Vouching'
<1>1. ASSUME NEW p \in Paths, AddPrepare(p) PROVE Vouching'
  <2>1. UNCHANGED <<lock, rows, job>> /\ saved \subseteq saved'
    BY <1>1, PrepareFacts DEF AddPrepare
  <2>2. \A row : Vouched(row) => Vouched(row)'
    BY <2>1 DEF Vouched
  <2>3. /\ prep'.row.oid \in saved'
        /\ prep'.row.raced \/ prep'.row.proof \in {None, prep'.row.oid}
    <3>1. CASE /\ lock[p] # None /\ prep'.row.oid = lock[p]
               /\ IF Proven(p, ProofOf(rows[p]))
                  THEN /\ rows[p] # None /\ rows[p].oid = lock[p]
                       /\ prep'.row.proof = rows[p].proof /\ prep'.row.raced = rows[p].raced
                  ELSE prep'.row.proof = file[p] /\ file[p] = lock[p]
      <4>1. lock[p] \in saved'
        BY <2>1, <3>1 DEF Vouching
      <4>2. rows[p] # None => rows[p].raced \/ rows[p].proof \in {None, rows[p].oid}
        BY DEF Vouching, Vouched
      <4> QED
        BY <3>1, <4>1, <4>2
    <3>2. CASE prep'.row.oid = file[p] /\ prep'.row.proof = file[p] /\ file[p] \in saved'
      BY <3>2
    <3> QED
      BY <1>1, <3>1, <3>2, PrepareFacts
  <2>4. Vouched(prep.row)'
    BY <2>3 DEF Vouched
  <2>5. \A q \in Paths : Vouched(rows[q])'
    BY <2>1, <2>2 DEF Vouching
  <2>6. job'.op = "add" => Vouched(job.row)'
    BY <2>1, <2>2 DEF Vouching
  <2>7. job'.op = "sync" => \A q \in DOMAIN job'.pending : Vouched(job.pending[q])'
    BY <2>1, <2>2 DEF Vouching
  <2>8. /\ \A q \in Paths : lock'[q] \in saved' \cup {None}
        /\ \A commit \in Commits, q \in Paths : commit[q] \in saved' \cup {None}
        /\ job'.op = "sync" => \A q \in Paths : job'.want[q] \in saved' \cup {None}
    BY <2>1 DEF Vouching
  <2> QED
    BY <2>4, <2>5, <2>6, <2>7, <2>8 DEF Vouching
<1>2. CASE AddPublish
  <2>1. prep # None /\ UNCHANGED <<rows, saved>> /\ prep' = None
    BY <1>2 DEF AddPublish
  <2>2. Vouched(prep.row)
    BY <2>1 DEF Vouching
  <2>3. prep.row # None /\ prep.path \in Paths
    BY <2>1, NoneAssumption DEF TypeOK, Preps
  <2>4. CASE lock' = lock /\ job' = job
    BY <2>1, <2>4, VouchingKept
  <2>5. CASE /\ lock' = [lock EXCEPT ![prep.path] = prep.row.oid]
             /\ job' = [op |-> "add", path |-> prep.path, row |-> prep.row]
    <3>1. \A q \in Paths : lock'[q] \in saved \cup {None}
      BY <2>2, <2>3, <2>5 DEF Vouching, Vouched, TypeOK, Locks
    <3>2. job'.op = "add" /\ job'.row = prep.row
      BY <2>5
    <3> QED
      BY <2>1, <2>2, <3>1, <3>2 DEF Vouching, Vouched
  <2> QED
    BY <1>2, <2>4, <2>5 DEF AddPublish
<1>3. CASE AddRecord
  <2>1. Vouched(job.row) /\ job' = Idle /\ UNCHANGED <<lock, prep, saved>>
    BY <1>3 DEF AddRecord, Vouching
  <2>2. \A p \in Paths : rows'[p] = rows[p] \/ rows'[p] = job.row
    BY <1>3 DEF AddRecord, TypeOK
  <2>3. \A p \in Paths : Vouched(rows[p])'
    BY <2>1, <2>2 DEF Vouching, Vouched
  <2> QED
    BY <2>1, <2>3, IdleOp DEF Vouching, Vouched
<1> QED
  BY <1>1, <1>2, <1>3 DEF Add

(* Every step keeps the rows vouched for. *)
LEMMA VouchingStep ==
  ASSUME IInv, [Next]_vars, TypeOK'
  PROVE  Vouching'
<1> USE DEF IInv
<1>1. CASE Sync
  BY <1>1, VouchingSync
<1>2. CASE Add
  BY <1>2, VouchingAdd
<1>3. CASE Rm
  <2>1. rows \in [Paths -> Rows] /\ lock \in [Paths -> Oids \cup {None}]
    BY DEF TypeOK, Locks
  <2>2. ASSUME NEW p \in Paths, NEW cached \in BOOLEAN, RmPublish(p, cached) PROVE Vouching'
    <3>1. job'.op = "rm" /\ UNCHANGED <<rows, prep, saved>>
          /\ \A q \in Paths : lock'[q] \in {None, lock[q]}
      BY <2>1, <2>2 DEF RmPublish
    <3> QED
      BY <3>1, VouchingKept
  <2>3. CASE RmDelete
    <3>1. job'.op = "rm" /\ UNCHANGED <<lock, rows, prep, saved>>
      BY <2>3, JobKinds DEF RmDelete, RmJobs
    <3> QED
      BY <3>1, VouchingKept
  <2>4. CASE RmForget
    <3>1. job' = Idle /\ UNCHANGED <<lock, prep, saved>>
          /\ \A q \in Paths : rows'[q] \in {None, rows[q]}
      BY <2>1, <2>4 DEF RmForget
    <3> QED
      BY <3>1, VouchingKept
  <2> QED
    BY <1>3, <2>2, <2>3, <2>4 DEF Rm
<1>4. CASE Mv
  <2>1. rows \in [Paths -> Rows] /\ lock \in [Paths -> Oids \cup {None}]
    BY DEF TypeOK, Locks
  <2>2. ASSUME NEW src \in Paths, NEW dst \in Paths, NEW force \in BOOLEAN, MvRename(src, dst, force)
        PROVE  Vouching'
    <3>1. job'.op = "mv" /\ UNCHANGED <<lock, rows, prep, saved>>
      BY <2>2 DEF MvRename
    <3> QED
      BY <3>1, VouchingKept
  <2>3. job.op = "mv" => job.src \in Paths /\ job.dst \in Paths
    BY JobKinds DEF MvJobs
  <2>4. CASE MvPublish
    <3>1. job'.op = "mv" /\ UNCHANGED <<rows, prep, saved>>
      BY <2>4, JobKinds DEF MvPublish, MvJobs
    <3>2. \A q \in Paths : lock'[q] \in {None, lock[q], lock[job.src]}
      BY <2>1, <2>4 DEF MvPublish
    <3>3. job.src \in Paths
      BY <2>3, <2>4 DEF MvPublish
    <3>4. \A q \in Paths : lock'[q] \in {None} \cup {lock[r] : r \in Paths}
      BY <3>2, <3>3
    <3> QED
      BY <3>1, <3>4, VouchingKept
  <2>5. CASE MvCommit
    <3>1. job' = Idle /\ UNCHANGED <<lock, prep, saved>>
      BY <2>5 DEF MvCommit
    <3>2. \A q \in Paths : rows'[q] \in {None, rows[q], rows[job.src]}
      BY <2>1, <2>3, <2>5 DEF MvCommit, MovedRows
    <3> QED
      BY <2>3, <2>5, <3>1, <3>2, VouchingKept DEF MvCommit
  <2>6. CASE MvRollback
    BY <2>6, VouchingKept DEF MvRollback
  <2> QED
    BY <1>4, <2>2, <2>4, <2>5, <2>6 DEF Mv
<1>5. CASE RepairState
  <2>1. \A q \in Paths : rows'[q] = None
    BY <1>5 DEF RepairState
  <2> QED
    BY <1>5, <2>1, VouchingKept DEF RepairState
<1>6. CASE Crash
  BY <1>6, VouchingKept DEF Crash
<1>7. CASE Others
  <2>1. ASSUME NEW p \in Paths, NEW bytes \in UserBytes \cup {Absent}, UserEdits(p, bytes)
        PROVE  Vouching'
    <3>1. UNCHANGED <<lock, rows, prep, saved>>
      BY <2>1 DEF UserEdits
    <3>2. \/ job' = job
          \/ job.op = "sync" /\ job' = [job EXCEPT !.touched = @ \cup {p}]
          \/ job.op = "mv" /\ job' = [job EXCEPT !.touched = @ \cup {p}]
      BY <2>1, EditFacts
    <3>3. job.op = "sync" /\ job' = [job EXCEPT !.touched = @ \cup {p}]
            => /\ job'.op = job.op /\ job'.want = job.want /\ job'.pending = job.pending
      BY JobKinds DEF SyncJobs
    <3>4. job.op = "mv" /\ job' = [job EXCEPT !.touched = @ \cup {p}] => job'.op = "mv"
      BY JobKinds DEF MvJobs
    <3> QED
      BY <3>1, <3>2, <3>3, <3>4, VouchingKept
  <2>2. ASSUME NEW commit \in Commits, GitCheckout(commit) PROVE Vouching'
    <3>1. UNCHANGED <<rows, job, prep, saved>> /\ lock' = commit
      BY <2>2 DEF GitCheckout
    <3> QED
      BY <3>1, VouchingKept
  <2> QED
    BY <1>7, <2>1, <2>2 DEF Others
<1>8. CASE UNCHANGED vars
  BY <1>8, VouchingKept DEF vars
<1> QED
  BY <1>1, <1>2, <1>3, <1>4, <1>5, <1>6, <1>7, <1>8 DEF Next

-----------------------------------------------------------------------------
(* The walk of a sync.                                                      *)

(* The walk meets each path once, and in the end all of them. *)
LEMMA WalkedFacts ==
  ASSUME NEW j \in SyncJobs, NEW k \in SyncJobs
  PROVE  /\ Walked(j) \subseteq Paths
         /\ k.next = j.next => Walked(k) = Walked(j)
         /\ j.next \in 1 .. Len(Order) /\ k.next = j.next + 1
              => Walked(k) = Walked(j) \cup {Order[j.next]} /\ Order[j.next] \notin Walked(j)
         /\ j.next = Len(Order) + 1 => Walked(j) = Paths
         /\ j.next = 1 => Walked(j) = {}
<1>1. /\ Len(Order) \in Nat /\ j.next \in 1 .. Len(Order) + 1 /\ k.next \in 1 .. Len(Order) + 1
      /\ \A i \in 1 .. Len(Order) : Order[i] \in Paths
      /\ \A a, b \in 1 .. Len(Order) : Order[a] = Order[b] => a = b
      /\ Paths = {Order[i] : i \in 1 .. Len(Order)}
  BY OrderFacts, SyncFields
<1>2. Walked(j) \subseteq Paths
  BY <1>1 DEF Walked
<1>3. ASSUME k.next = j.next PROVE Walked(k) = Walked(j)
  BY <1>3 DEF Walked
<1>4. ASSUME j.next \in 1 .. Len(Order), k.next = j.next + 1
      PROVE  Walked(k) = Walked(j) \cup {Order[j.next]} /\ Order[j.next] \notin Walked(j)
  <2>1. 1 .. (k.next - 1) = (1 .. (j.next - 1)) \cup {j.next}
    BY <1>4
  <2>2. Walked(k) = Walked(j) \cup {Order[j.next]}
    BY <2>1 DEF Walked
  <2>3. Order[j.next] \notin Walked(j)
    <3> SUFFICES ASSUME NEW i \in 1 .. (j.next - 1), Order[i] = Order[j.next] PROVE FALSE
      BY DEF Walked
    <3>1. i \in 1 .. Len(Order) /\ i # j.next
      BY <1>4, <1>1
    <3> QED
      BY <1>1, <1>4, <3>1
  <2> QED
    BY <2>2, <2>3
<1>5. ASSUME j.next = Len(Order) + 1 PROVE Walked(j) = Paths
  <2>1. j.next - 1 = Len(Order)
    BY <1>1, <1>5
  <2> QED
    BY <1>1, <2>1 DEF Walked
<1>6. ASSUME j.next = 1 PROVE Walked(j) = {}
  <2>1. 1 .. (j.next - 1) = {}
    BY <1>6
  <2> QED
    BY <2>1 DEF Walked
<1> QED
  BY <1>2, <1>3, <1>4, <1>5, <1>6

(* The path at the head of the window leaves it, and nothing else does. *)
LEMMA ConsumedWindow ==
  ASSUME TypeOK, Purposeful(job), Once(job), job \in SyncJobs, job' \in SyncJobs,
         NEW p \in Paths, Consumes(p), job.phase # "plan",
         DOMAIN job'.pending \subseteq DOMAIN job.pending \cup {p}
  PROVE  /\ Purposeful(job') /\ Once(job')
         /\ 1 \in DOMAIN job.window
         /\ p \in InWindow(job) /\ InWindow(job') = InWindow(job) \ {p}
         /\ \A i \in DOMAIN job'.window :
              \E k \in DOMAIN job.window : job'.window[i] = job.window[k] /\ job.window[k].path # p
<1>1. /\ job.window # << >> /\ p = job.window[1].path /\ SameTask(job, job')
      /\ job'.next = job.next /\ job'.phase = "apply" /\ job'.window = Tail(job.window)
  BY DEF Consumes
<1>2. /\ 1 \in DOMAIN job.window
      /\ \A i \in DOMAIN job'.window : i + 1 \in DOMAIN job.window /\ job'.window[i] = job.window[i + 1]
      /\ \A i \in DOMAIN job.window : i # 1 => i - 1 \in DOMAIN job'.window
      /\ \A i \in DOMAIN job.window : i \in Nat
  BY <1>1, SyncFields, WindowTail
<1>3. \A i \in DOMAIN job'.window : i \in Nat
  BY SyncFields, LenProperties
<1>4. \A i, k \in DOMAIN job.window : job.window[i].path = job.window[k].path => i = k
  BY DEF Once
<1>5. \A i \in DOMAIN job'.window : i + 1 # 1 /\ job.window[i + 1].path # p
  BY <1>1, <1>2, <1>3, <1>4
<1>6. \A i \in DOMAIN job'.window :
        \E k \in DOMAIN job.window : job'.window[i] = job.window[k] /\ job.window[k].path # p
  BY <1>2, <1>5
<1>7. InWindow(job') = InWindow(job) \ {p}
  <2>1. InWindow(job') \subseteq InWindow(job) \ {p}
    BY <1>6 DEF InWindow
  <2>2. ASSUME NEW i \in DOMAIN job.window, job.window[i].path # p
        PROVE  job.window[i].path \in InWindow(job')
    <3>1. i # 1 /\ i - 1 \in DOMAIN job'.window /\ (i - 1) + 1 = i
      BY <1>1, <1>2, <2>2
    <3>2. job'.window[i - 1] = job.window[i]
      BY <1>2, <3>1
    <3> QED
      BY <3>1, <3>2 DEF InWindow
  <2> QED
    BY <2>1, <2>2 DEF InWindow
<1>8. p \in InWindow(job)
  BY <1>1, <1>2 DEF InWindow
<1>9. Walked(job') = Walked(job)
  BY <1>1, WalkedFacts
<1>10. Once(job')
  <2>1. \A i, k \in DOMAIN job'.window : job'.window[i].path = job'.window[k].path => i = k
    <3> SUFFICES ASSUME NEW i \in DOMAIN job'.window, NEW k \in DOMAIN job'.window,
                        job'.window[i].path = job'.window[k].path
                 PROVE  i = k
      OBVIOUS
    <3>1. i + 1 = k + 1
      BY <1>2, <1>4
    <3> QED
      BY <1>3, <3>1
  <2>2. InWindow(job') \subseteq Walked(job') \ DOMAIN job'.pending
    BY <1>7, <1>9 DEF Once
  <2>3. DOMAIN job'.pending \subseteq Walked(job')
    BY <1>8, <1>9 DEF Once
  <2> QED
    BY <2>1, <2>2, <2>3 DEF Once
<1>11. Purposeful(job')
  <2>1. ASSUME NEW i \in DOMAIN job'.window PROVE Fits(job', job'.window[i])
    <3>1. PICK k \in DOMAIN job.window : job'.window[i] = job.window[k]
      BY <1>6
    <3>2. Fits(job, job.window[k])
      BY DEF Purposeful
    <3>3. job'.want = job.want
      BY <1>1 DEF SameTask
    <3> QED
      BY <1>1, <3>1, <3>2, <3>3 DEF Fits
  <2> QED
    BY <1>1, <2>1 DEF Purposeful
<1> QED
  BY <1>2, <1>6, <1>7, <1>8, <1>10, <1>11

(* A path that nothing happens to stays settled. *)
LEMMA SettledFrame ==
  ASSUME NEW p, SameTask(job, job'), file'[p] = file[p],
         Upcoming(job, p)' = Upcoming(job, p), Settled(job, p, Upcoming(job, p))
  PROVE  Settled(job, p, Upcoming(job, p))'
BY DEF Settled, SameTask

(* What a path needs so that the rest of the invariant survives its turn. *)
LEMMA ConsumedReconciles ==
  ASSUME TypeOK, Purposeful(job), Once(job), Reconciling(job), job \in SyncJobs, job' \in SyncJobs,
         NEW p \in Paths, Consumes(p), job.phase # "plan", Passes({p}),
         \A q \in Paths \ {p} : file'[q] = file[q],
         UNCHANGED <<saved, validationRequired>>, Reports(job) \subseteq Reports(job'),
         p \in job.touched \/ (p \in DOMAIN job'.pending => Shown(p, job.pending[p])'),
         p \in job.touched \/ p \in Reports(job') \/ Settled(job, p, Upcoming(job, p))'
  PROVE  Reconciling(job)'
<1>1. /\ SameTask(job, job') /\ job'.touched = job.touched
      /\ job'.phase = "apply" /\ job'.next = job.next
  BY DEF Consumes
<1>2. /\ job'.policy = job.policy /\ job'.force = job.force
      /\ job'.selected = job.selected /\ job'.want = job.want
  BY <1>1 DEF SameTask
<1>3. /\ DOMAIN job'.pending \subseteq DOMAIN job.pending \cup {p}
      /\ \A q \in Paths \ {p} : Upcoming(job, q)' = Upcoming(job, q)
      /\ \A q \in Paths : \/ rows'[q] = rows[q]
                          \/ q \in DOMAIN job.pending \cup {p}
  BY DEF Passes
<1>4. /\ InWindow(job') = InWindow(job) \ {p}
      /\ \A i \in DOMAIN job'.window :
           \E k \in DOMAIN job.window : job'.window[i] = job.window[k] /\ job.window[k].path # p
  BY <1>3, ConsumedWindow
<1>5. Walked(job') = Walked(job) /\ Walked(job) \subseteq Paths
  BY <1>1, WalkedFacts
<1>6. DOMAIN job.pending \subseteq Paths
  BY <1>5 DEF Once
<1>7. BatchShown(job)'
  <2> SUFFICES ASSUME NEW q \in DOMAIN job'.pending \ job'.touched
               PROVE  Shown(q, job.pending[q])'
    BY DEF BatchShown
  <2>1. CASE q = p
    BY <1>1, <2>1
  <2>2. CASE q # p
    <3>1. q \in DOMAIN job.pending \ job.touched /\ q \in Paths \ {p}
      BY <1>1, <1>3, <1>6, <2>2
    <3>2. job'.pending[q] = job.pending[q]
      BY <1>3, <3>1 DEF Upcoming
    <3>3. Shown(q, job.pending[q])
      BY <3>1 DEF Reconciling, BatchShown
    <3> QED
      BY <3>1, <3>2, <3>3 DEF Shown
  <2> QED
    BY <2>1, <2>2
<1>8. WalkSettled(job)'
  <2> SUFFICES ASSUME NEW q \in ((Walked(job') \ InWindow(job')) \cap job'.selected) \ job'.touched
               PROVE  q \in Reports(job') \/ Settled(job, q, Upcoming(job, q))'
    BY DEF WalkSettled
  <2>1. CASE q = p
    BY <1>1, <2>1
  <2>2. CASE q # p
    <3>1. q \in ((Walked(job) \ InWindow(job)) \cap job.selected) \ job.touched
      BY <1>1, <1>2, <1>4, <1>5, <2>2
    <3>2. q \in Reports(job) \/ Settled(job, q, Upcoming(job, q))
      BY <3>1 DEF Reconciling, WalkSettled
    <3>3. q \in Paths \ {p}
      BY <1>5, <2>2, <3>1
    <3> QED
      BY <1>1, <1>3, <3>2, <3>3, SettledFrame
  <2> QED
    BY <2>1, <2>2
<1>9. WindowGuarded(job)'
  <2> SUFFICES ASSUME Guarded(job'), NEW i \in DOMAIN job'.window,
                      job'.window[i].act \in {"write", "remove"},
                      job'.window[i].path \notin job'.touched
               PROVE  Expendable(job.window[i].path)'
    BY DEF WindowGuarded
  <2>1. PICK k \in DOMAIN job.window : job'.window[i] = job.window[k] /\ job.window[k].path # p
    BY <1>4
  <2>2. Guarded(job)
    BY <1>2 DEF Guarded
  <2>3. Expendable(job.window[k].path)
    BY <1>1, <2>1, <2>2 DEF Reconciling, WindowGuarded
  <2>4. /\ job.window[k].path \in Paths \ {p}
        /\ job.window[k].path \notin DOMAIN job.pending
    BY <1>5, <2>1 DEF Once, InWindow
  <2>5. rows'[job.window[k].path] = rows[job.window[k].path]
    BY <1>3, <2>4
  <2>6. file'[job.window[k].path] = file[job.window[k].path]
    BY <2>4
  <2> QED
    BY <2>1, <2>3, <2>5, <2>6 DEF Expendable, RacedRow
<1>10. JustPlaced(job)'
  BY <1>1 DEF JustPlaced
<1>11. TrustEarned(job)'
  BY <1>2 DEF TrustEarned, Reconciling
<1> QED
  BY <1>7, <1>8, <1>9, <1>10, <1>11 DEF Reconciling

(* Others who leave alone what the sync has examined, or are noticed. *)
LEMMA SyncUndisturbed ==
  ASSUME Syncing, job \in SyncJobs, job' \in SyncJobs, SameTask(job, job'),
         Reports(job') = Reports(job), job'.phase = job.phase, job'.next = job.next,
         job'.window = job.window, job'.pending = job.pending,
         job.touched \subseteq job'.touched, saved \subseteq saved',
         UNCHANGED <<rows, validationRequired>>,
         \A p \in Walked(job) \ job'.touched : file'[p] = file[p]
  PROVE  Syncing'
<1>1. Purposeful(job) /\ Once(job) /\ Reconciling(job)
  BY SyncFields DEF Syncing
<1>2. /\ job'.policy = job.policy /\ job'.force = job.force
      /\ job'.selected = job.selected /\ job'.want = job.want
  BY DEF SameTask
<1>3. Walked(job') = Walked(job) /\ InWindow(job') = InWindow(job)
  BY WalkedFacts DEF InWindow
<1>4. Purposeful(job')
  BY <1>1, <1>2 DEF Purposeful, Fits
<1>5. Once(job')
  BY <1>1, <1>3 DEF Once
<1>6. \A p : Upcoming(job, p)' = Upcoming(job, p)
  BY DEF Upcoming
<1>7. BatchShown(job)'
  BY <1>1 DEF Reconciling, BatchShown, Shown, Once
<1>8. WalkSettled(job)'
  <2> SUFFICES ASSUME NEW p \in ((Walked(job') \ InWindow(job')) \cap job'.selected) \ job'.touched
               PROVE  p \in Reports(job') \/ Settled(job, p, Upcoming(job, p))'
    BY DEF WalkSettled
  <2>1. p \in Reports(job) \/ Settled(job, p, Upcoming(job, p))
    BY <1>1, <1>2, <1>3 DEF Reconciling, WalkSettled
  <2> QED
    BY <1>3, <1>6, <2>1, SettledFrame
<1>9. WindowGuarded(job)'
  <2> SUFFICES ASSUME Guarded(job'), NEW i \in DOMAIN job'.window,
                      job'.window[i].act \in {"write", "remove"},
                      job'.window[i].path \notin job'.touched
               PROVE  Expendable(job.window[i].path)'
    BY DEF WindowGuarded
  <2>1. Guarded(job)
    BY <1>2 DEF Guarded
  <2>2. Expendable(job.window[i].path)
    BY <1>1, <2>1 DEF Reconciling, WindowGuarded
  <2>3. job.window[i].path \in Walked(job) \ job'.touched
    BY <1>1 DEF Once, InWindow
  <2> QED
    BY <2>2, <2>3 DEF Expendable, RacedRow
<1>10. JustPlaced(job)'
  <2> SUFFICES ASSUME job'.phase = "stat", job'.window[1].path \notin job'.touched
               PROVE  file'[job'.window[1].path] = job'.want[job'.window[1].path]
    BY DEF JustPlaced
  <2>1. job.window # << >>
    BY <1>1 DEF Purposeful
  <2>2. 1 \in DOMAIN job.window
    BY <2>1, SyncFields, WindowTail
  <2>3. job.window[1].path \in Walked(job) \ job'.touched
    BY <1>1, <2>2 DEF Once, InWindow
  <2>4. file[job.window[1].path] = job.want[job.window[1].path]
    BY <1>1 DEF Reconciling, JustPlaced
  <2> QED
    BY <1>2, <2>3, <2>4
<1>11. TrustEarned(job)'
  BY <1>1, <1>2 DEF Reconciling, TrustEarned
<1> QED
  BY <1>4, <1>5, <1>7, <1>8, <1>9, <1>10, <1>11 DEF Syncing, Reconciling

(* What the file is compared with. *)
PlacedOid(p, want) == IF rows[p] = None THEN want ELSE rows[p].oid

(* Unless the row was raced, a file that matches holds what was placed. *)
LEMMA MatchFacts ==
  ASSUME Vouching, NEW p \in Paths, NEW oid, rows[p] # None => oid = rows[p].oid,
         FileMatches(p, oid, ProofOf(rows[p]))
  PROVE  RacedRow(p) \/ file[p] = oid
<1>1. Vouched(rows[p])
  BY DEF Vouching
<1> QED
  BY <1>1 DEF FileMatches, Proven, ProofOf, Vouched, RacedRow

(* Nothing needs to be done about a path that is reconciled already. *)
LEMMA UnmovedSettled ==
  ASSUME TypeOK, Vouching, job.op = "sync", NEW p \in Paths, p \in job.selected, IntentFor(p) = "none"
  PROVE  Settled(job, p, rows[p])
<1>1. CASE job.policy = "trust"
  <2>1. TrustedIntent(p, job.want[p]) = "none"
    BY <1>1 DEF IntentFor
  <2>2. OidOf(rows[p]) = job.want[p]
    BY <2>1 DEF TrustedIntent
  <2>3. job.want[p] \in saved \cup {None} /\ Vouched(rows[p])
    BY DEF Vouching
  <2>4. rows[p] # None => rows[p].oid = job.want[p]
    BY <2>2 DEF OidOf
  <2>5. rows[p] = None => job.want[p] = None
    BY <2>2 DEF OidOf
  <2>6. job.want[p] = None => rows[p] = None \/ None \in saved
    BY <2>3, <2>4 DEF Vouched
  <2> QED
    BY <1>1, <2>4, <2>5, <2>6, ContentAssumption DEF Settled, TypeOK
<1>2. CASE job.policy # "trust"
  <2>1. ValidatedIntent(p, job.want[p], job.policy) = "none"
    BY <1>2 DEF IntentFor
  <2>2. CASE job.want[p] = None /\ rows[p] = None
    BY <2>2 DEF Settled
  <2>3. CASE job.want[p] = None /\ rows[p] # None
    <3>1. file[p] = Absent
      BY <2>1, <2>3 DEF ValidatedIntent
    <3> QED
      BY <1>2, <2>3, <3>1 DEF Settled
  <2>4. CASE job.want[p] # None
    <3>1. /\ file[p] # Absent /\ rows[p] # None /\ job.want[p] = rows[p].oid
          /\ FileMatches(p, rows[p].oid, ProofOf(rows[p]))
      BY <2>1, <2>4 DEF ValidatedIntent
    <3>2. RacedRow(p) \/ file[p] = rows[p].oid
      BY <3>1, MatchFacts
    <3> QED
      BY <2>4, <3>1, <3>2 DEF Settled, RacedRow
  <2> QED
    BY <2>2, <2>3, <2>4
<1> QED
  BY <1>1, <1>2

(* A sync that may not discard local work calls a conflict what it did not  *)
(* place itself.                                                            *)
LEMMA GuardedIntent ==
  ASSUME Vouching, job.op = "sync", Guarded(job), NEW p \in Paths,
         IntentFor(p) \in {"write", "remove"}
  PROVE  Expendable(p)
<1>1. ValidatedIntent(p, job.want[p], job.policy) \in {"write", "remove"}
  BY DEF IntentFor, Guarded
<1>2. CASE file[p] = Absent
  BY <1>2 DEF Expendable
<1>3. CASE file[p] # Absent
  <2>1. /\ ~(job.want[p] = None /\ rows[p] = None)
        /\ FileMatches(p, PlacedOid(p, job.want[p]), ProofOf(rows[p]))
    BY <1>1, <1>3 DEF ValidatedIntent, PlacedOid
  <2>2. RacedRow(p) \/ file[p] = PlacedOid(p, job.want[p])
    BY <2>1, MatchFacts DEF PlacedOid
  <2>3. PlacedOid(p, job.want[p]) \in saved
    BY <2>1 DEF PlacedOid, Vouching, Vouched
  <2> QED
    BY <2>2, <2>3 DEF Expendable
<1> QED
  BY <1>2, <1>3

(* A sync has met no path yet when it starts. *)
LEMMA StartWalk ==
  ASSUME TypeOK, TypeOK', NEW policy \in Policies, NEW force \in BOOLEAN, NEW selected \in Selections,
         SyncStart(policy, force, selected)
  PROVE  Syncing'
<1>1. /\ job'.op = "sync" /\ job'.phase = "plan" /\ job'.next = 1
      /\ job'.window = << >> /\ DOMAIN job'.pending = {}
      /\ job'.policy = ForLedger(policy) /\ validationRequired' = validationRequired
  BY EmptyBatch DEF SyncStart
<1>2. job' \in SyncJobs
  BY <1>1 DEF TypeOK, Idle, SyncJobs, RmJobs, MvJobs, AddJobs
<1>3. Walked(job') = {} /\ DOMAIN job'.window = {}
  BY <1>1, <1>2, WalkedFacts
<1>4. InWindow(job') = {}
  BY <1>3 DEF InWindow
<1>5. Purposeful(job') /\ Once(job')
  BY <1>1, <1>3, <1>4 DEF Purposeful, Once
<1>6. BatchShown(job)' /\ WalkSettled(job)' /\ WindowGuarded(job)' /\ JustPlaced(job)'
  BY <1>1, <1>3 DEF BatchShown, WalkSettled, WindowGuarded, JustPlaced
<1>7. TrustEarned(job)'
  BY <1>1 DEF TrustEarned, ForLedger
<1> QED
  BY <1>5, <1>6, <1>7 DEF Syncing, Reconciling

(* Classification: the path joins the window, or is settled as it is. *)
LEMMA ClassifyWalk ==
  ASSUME TypeOK, Vouching, Syncing, SyncClassify
  PROVE  Syncing'
<1>1. UNCHANGED <<file, saved, validationRequired>>
  BY DEF SyncClassify
<1>2. PICK p \in Paths :
         /\ job \in SyncJobs /\ job.phase = "plan"
         /\ job.next \in 1 .. Len(Order) /\ p = Order[job.next]
         /\ job' \in SyncJobs /\ rows' \in [Paths -> Rows]
         /\ SameTask(job, job') /\ SameReport(job, job')
         /\ job'.phase = "plan" /\ job'.next = job.next + 1
         /\ \/ /\ IntentFor(p) # "none" /\ rows' = rows /\ job'.pending = job.pending
               /\ job'.window = Append(job.window, [path |-> p, act |-> IntentFor(p)])
            \/ /\ IntentFor(p) = "none" /\ job'.window = job.window
               /\ RefreshesProof(p) /\ Passes({p})
               /\ Upcoming(job, p)' = [oid |-> rows[p].oid, proof |-> file[p], raced |-> FALSE]
            \/ /\ IntentFor(p) = "none" /\ job'.window = job.window
               /\ rows' = rows /\ job'.pending = job.pending
  BY ClassifyFacts
<1>3. job.op = "sync" /\ Purposeful(job) /\ Once(job) /\ Reconciling(job)
  BY <1>2, SyncFields DEF Syncing
<1>4. /\ job'.policy = job.policy /\ job'.force = job.force
      /\ job'.selected = job.selected /\ job'.want = job.want
      /\ job'.touched = job.touched /\ Reports(job') = Reports(job)
  BY <1>2 DEF SameTask, SameReport, Reports
<1>5. /\ Walked(job') = Walked(job) \cup {p} /\ p \notin Walked(job) /\ Walked(job) \subseteq Paths
  BY <1>2, WalkedFacts
<1>6. p \notin DOMAIN job.pending /\ p \notin InWindow(job) /\ Upcoming(job, p) = rows[p]
  BY <1>3, <1>5 DEF Once, Upcoming
<1>7. TrustEarned(job)' /\ JustPlaced(job)'
  BY <1>1, <1>2, <1>3, <1>4 DEF Reconciling, TrustEarned, JustPlaced
<1>8. CASE /\ IntentFor(p) # "none" /\ rows' = rows /\ job'.pending = job.pending
           /\ job'.window = Append(job.window, [path |-> p, act |-> IntentFor(p)])
  <2> DEFINE e == [path |-> p, act |-> IntentFor(p)]
  <2>1. e \in Entry /\ e.path = p /\ e.act = IntentFor(p)
    BY <1>8, IntentFacts DEF Entry
  <2>0. job'.window = Append(job.window, e) /\ job.window \in Seq(Entry)
    BY <1>2, <1>8, SyncFields
  <2> HIDE DEF e
  <2>2. PICK n \in DOMAIN job'.window :
          /\ job'.window[n] = e /\ DOMAIN job'.window = DOMAIN job.window \cup {n}
          /\ n \notin DOMAIN job.window
          /\ \A i \in DOMAIN job.window : job'.window[i] = job.window[i]
    BY <2>0, <2>1, WindowAppend
  <2>3. InWindow(job') = InWindow(job) \cup {p}
    BY <2>1, <2>2 DEF InWindow
  <2>4. Purposeful(job')
    <3>1. Fits(job', e)
      BY <1>2, <1>4, <1>8, <2>1, IntentFacts DEF Fits
    <3>2. \A i \in DOMAIN job.window : Fits(job', job.window[i])
      BY <1>2, <1>3, <1>4 DEF Purposeful, Fits
    <3> QED
      BY <1>2, <2>2, <3>1, <3>2 DEF Purposeful
  <2>5. Once(job')
    <3>1. \A i \in DOMAIN job.window : job.window[i].path # p
      BY <1>6 DEF InWindow
    <3>2. \A i, k \in DOMAIN job'.window : job'.window[i].path = job'.window[k].path => i = k
      BY <1>3, <2>1, <2>2, <3>1 DEF Once
    <3> QED
      BY <1>3, <1>5, <1>6, <1>8, <2>3, <3>2 DEF Once
  <2>6. \A q : Upcoming(job, q)' = Upcoming(job, q)
    BY <1>8 DEF Upcoming
  <2>7. BatchShown(job)'
    BY <1>1, <1>3, <1>4, <1>8 DEF Reconciling, BatchShown, Shown
  <2>8. WalkSettled(job)'
    <3>1. Walked(job') \ InWindow(job') = Walked(job) \ InWindow(job)
      BY <1>5, <2>3
    <3> QED
      BY <1>1, <1>2, <1>3, <1>4, <2>6, <3>1, SettledFrame DEF Reconciling, WalkSettled
  <2>9. WindowGuarded(job)'
    <3> SUFFICES ASSUME Guarded(job'), NEW i \in DOMAIN job'.window,
                        job'.window[i].act \in {"write", "remove"},
                        job'.window[i].path \notin job'.touched
                 PROVE  Expendable(job.window[i].path)'
      BY DEF WindowGuarded
    <3>1. Guarded(job)
      BY <1>4 DEF Guarded
    <3>2. CASE i = n
      <4>1. Expendable(p)
        BY <1>3, <2>1, <2>2, <3>1, <3>2, GuardedIntent
      <4> QED
        BY <1>1, <1>8, <2>1, <2>2, <3>2, <4>1 DEF Expendable, RacedRow
    <3>3. CASE i # n
      <4>1. i \in DOMAIN job.window /\ job'.window[i] = job.window[i]
        BY <2>2, <3>3
      <4>2. Expendable(job.window[i].path)
        BY <1>3, <1>4, <3>1, <4>1 DEF Reconciling, WindowGuarded
      <4> QED
        BY <1>1, <1>8, <4>1, <4>2 DEF Expendable, RacedRow
    <3> QED
      BY <3>2, <3>3
  <2> QED
    BY <1>7, <2>4, <2>5, <2>7, <2>8, <2>9 DEF Syncing, Reconciling
<1>9. CASE /\ IntentFor(p) = "none" /\ job'.window = job.window
           /\ Passes({p})
           /\ \/ /\ RefreshesProof(p)
                 /\ Upcoming(job, p)' = [oid |-> rows[p].oid, proof |-> file[p], raced |-> FALSE]
              \/ Upcoming(job, p)' = rows[p] /\ job'.pending = job.pending
  <2>1. /\ DOMAIN job'.pending \subseteq DOMAIN job.pending \cup {p}
        /\ \A q \in Paths \ {p} : Upcoming(job, q)' = Upcoming(job, q)
        /\ \A q \in Paths : rows'[q] = rows[q] \/ q \in DOMAIN job.pending \cup {p}
    BY <1>9 DEF Passes
  <2>2. InWindow(job') = InWindow(job)
    BY <1>9 DEF InWindow
  <2>3. Purposeful(job')
    BY <1>2, <1>3, <1>4, <1>9 DEF Purposeful, Fits
  <2>4. Once(job')
    BY <1>3, <1>5, <1>6, <1>9, <2>1, <2>2 DEF Once
  <2>5. p \in job.selected => Settled(job, p, rows[p])
    BY <1>3, <1>9, UnmovedSettled
  <2>6. p \in job.selected => Settled(job, p, Upcoming(job, p))'
    <3>1. CASE Upcoming(job, p)' = rows[p]
      BY <1>1, <1>4, <2>5, <3>1 DEF Settled
    <3>2. CASE /\ RefreshesProof(p)
               /\ Upcoming(job, p)' = [oid |-> rows[p].oid, proof |-> file[p], raced |-> FALSE]
      <4>1. rows[p] # None /\ job.want[p] = rows[p].oid /\ file[p] = rows[p].oid
        BY <3>2 DEF RefreshesProof
      <4>2. rows[p] \in Row
        BY <4>1 DEF TypeOK, Rows
      <4> DEFINE row == [oid |-> rows[p].oid, proof |-> file[p], raced |-> FALSE]
      <4>3. row \in Row /\ row.oid = rows[p].oid /\ Upcoming(job, p)' = row
        BY <3>2, <4>1, <4>2 DEF Row
      <4> HIDE DEF row
      <4>4. job.want[p] # None
        BY <4>1, <4>2, ContentAssumption DEF Row
      <4> QED
        BY <1>1, <1>4, <4>1, <4>3, <4>4, NoneAssumption DEF Settled
    <3> QED
      BY <1>9, <3>1, <3>2
  <2>7. WalkSettled(job)'
    <3> SUFFICES ASSUME NEW q \in ((Walked(job') \ InWindow(job')) \cap job'.selected) \ job'.touched
                 PROVE  q \in Reports(job') \/ Settled(job, q, Upcoming(job, q))'
      BY DEF WalkSettled
    <3>1. CASE q = p
      BY <1>4, <2>6, <3>1
    <3>2. CASE q # p
      <4>1. q \in ((Walked(job) \ InWindow(job)) \cap job.selected) \ job.touched /\ q \in Paths \ {p}
        BY <1>4, <1>5, <2>2, <3>2
      <4>2. q \in Reports(job) \/ Settled(job, q, Upcoming(job, q))
        BY <1>3, <4>1 DEF Reconciling, WalkSettled
      <4> QED
        BY <1>1, <1>2, <1>4, <2>1, <4>1, <4>2, SettledFrame
    <3> QED
      BY <3>1, <3>2
  <2>8. BatchShown(job)'
    <3> SUFFICES ASSUME NEW q \in DOMAIN job'.pending \ job'.touched
                 PROVE  Shown(q, job.pending[q])'
      BY DEF BatchShown
    <3>1. CASE q = p
      <4>1. RefreshesProof(p)
            /\ job'.pending[q] = [oid |-> rows[p].oid, proof |-> file[p], raced |-> FALSE]
        BY <1>6, <1>9, <3>1 DEF Upcoming
      <4>2. rows[p] # None /\ file[p] = rows[p].oid
        BY <4>1 DEF RefreshesProof
      <4>3. rows[p] \in Row
        BY <4>2 DEF TypeOK, Rows
      <4>4. job'.pending[q] \in Row /\ job'.pending[q].oid = rows[p].oid
        BY <4>1, <4>2, <4>3 DEF Row
      <4> QED
        BY <1>1, <3>1, <4>2, <4>4, NoneAssumption DEF Shown
    <3>2. CASE q # p
      <4>1. q \in DOMAIN job.pending \ job.touched /\ q \in Paths \ {p}
        BY <1>3, <1>4, <1>5, <2>1, <3>2 DEF Once
      <4>2. job'.pending[q] = job.pending[q]
        BY <2>1, <4>1 DEF Upcoming
      <4>3. Shown(q, job.pending[q])
        BY <1>3, <4>1 DEF Reconciling, BatchShown
      <4> QED
        BY <1>1, <4>2, <4>3 DEF Shown
    <3> QED
      BY <3>1, <3>2
  <2>9. WindowGuarded(job)'
    <3> SUFFICES ASSUME Guarded(job'), NEW i \in DOMAIN job'.window,
                        job'.window[i].act \in {"write", "remove"},
                        job'.window[i].path \notin job'.touched
                 PROVE  Expendable(job.window[i].path)'
      BY DEF WindowGuarded
    <3>1. Expendable(job.window[i].path)
      BY <1>3, <1>4, <1>9 DEF Reconciling, WindowGuarded, Guarded
    <3>2. job.window[i].path \in Paths /\ job.window[i].path \notin DOMAIN job.pending \cup {p}
      BY <1>3, <1>5, <1>6, <1>9 DEF Once, InWindow
    <3>3. rows'[job.window[i].path] = rows[job.window[i].path]
      BY <2>1, <3>2
    <3> QED
      BY <1>1, <1>9, <3>1, <3>3 DEF Expendable, RacedRow
  <2> QED
    BY <1>7, <2>3, <2>4, <2>7, <2>8, <2>9 DEF Syncing, Reconciling
<1>10. rows' = rows /\ job'.pending = job.pending => Upcoming(job, p)' = rows[p] /\ Passes({p})
  BY <1>6 DEF Upcoming, Passes
<1> QED
  BY <1>2, <1>8, <1>9, <1>10

(* Verification: no entry may destroy more than its intent did. *)
LEMMA VerifyWalk ==
  ASSUME TypeOK, Syncing, SyncVerify
  PROVE  Syncing'
<1>1. UNCHANGED <<file, saved, validationRequired>>
  BY DEF SyncVerify
<1>2. /\ job \in SyncJobs /\ job.phase = "plan"
      /\ job' \in SyncJobs /\ job'.phase = "apply"
      /\ SameTask(job, job') /\ SameReport(job, job') /\ job'.next = job.next
      /\ rows' = rows /\ job'.pending = job.pending
      /\ DOMAIN job'.window = DOMAIN job.window
  BY VerifyFacts
<1>3. PICK status :
        \A i \in DOMAIN job.window :
          /\ job'.window[i].path = job.window[i].path
          /\ job'.window[i].act =
               ResolvedAction(job.window[i].act, status[job.want[job.window[i].path]], job.force)
  BY VerifyFacts
<1>4. job.op = "sync" /\ Purposeful(job) /\ Once(job) /\ Reconciling(job)
  BY <1>2, SyncFields DEF Syncing
<1>5. /\ job'.policy = job.policy /\ job'.force = job.force
      /\ job'.selected = job.selected /\ job'.want = job.want
      /\ job'.touched = job.touched /\ Reports(job') = Reports(job)
  BY <1>2 DEF SameTask, SameReport, Reports
<1>6. Walked(job') = Walked(job) /\ InWindow(job') = InWindow(job)
  BY <1>2, <1>3, WalkedFacts DEF InWindow
<1>7. ASSUME NEW intent \in Intents, NEW state
      PROVE  /\ ResolvedAction(intent, state, job.force) \in Actions
             /\ ResolvedAction(intent, state, job.force) = "write"
                  => intent = "write" \/ (intent = "conflictOrWrite" /\ job.force)
             /\ ResolvedAction(intent, state, job.force) = "remove"
                  => intent = "remove" \/ (intent = "conflictOrRemove" /\ job.force)
  BY <1>7 DEF ResolvedAction, Actions, Intents
<1>8. ASSUME NEW i \in DOMAIN job.window
      PROVE  /\ Fits(job', job'.window[i])
             /\ job'.window[i].act \in {"write", "remove"} /\ ~job.force
                  => job.window[i].act \in {"write", "remove"}
  <2>1. Fits(job, job.window[i])
    BY <1>4 DEF Purposeful
  <2>2. job.window[i].act \in Intents
    BY <1>2, <2>1 DEF Fits
  <2> DEFINE act == job'.window[i].act
             intent == job.window[i].act
  <2>3. /\ act \in Actions
        /\ act = "write" => intent = "write" \/ (intent = "conflictOrWrite" /\ job.force)
        /\ act = "remove" => intent = "remove" \/ (intent = "conflictOrRemove" /\ job.force)
    BY <1>3, <1>7, <2>2
  <2>4. act \notin {"conflictOrWrite", "conflictOrRemove"}
    BY <2>3 DEF Actions
  <2> HIDE DEF act, intent
  <2>5. intent \in {"write", "conflictOrWrite"} => job.want[job.window[i].path] # None
    BY <2>1 DEF Fits, intent
  <2>6. intent \in {"remove", "conflictOrRemove"} => job.want[job.window[i].path] = None
    BY <2>1 DEF Fits, intent
  <2>7. /\ act \in {"write", "conflictOrWrite"} => job'.want[job'.window[i].path] # None
        /\ act \in {"remove", "conflictOrRemove"} => job'.want[job'.window[i].path] = None
    BY <1>3, <1>5, <2>3, <2>4, <2>5, <2>6
  <2> QED
    BY <1>2, <2>3, <2>7 DEF Fits, act, intent
<1>9. Purposeful(job')
  BY <1>2, <1>8 DEF Purposeful
<1>10. Once(job')
  BY <1>2, <1>3, <1>4, <1>6 DEF Once
<1>11. \A q : Upcoming(job, q)' = Upcoming(job, q)
  BY <1>2 DEF Upcoming
<1>12. BatchShown(job)'
  BY <1>1, <1>2, <1>4, <1>5 DEF Reconciling, BatchShown, Shown
<1>13. WalkSettled(job)'
  BY <1>1, <1>2, <1>4, <1>5, <1>6, <1>11, SettledFrame DEF Reconciling, WalkSettled
<1>14. WindowGuarded(job)'
  <2> SUFFICES ASSUME Guarded(job'), NEW i \in DOMAIN job'.window,
                      job'.window[i].act \in {"write", "remove"},
                      job'.window[i].path \notin job'.touched
               PROVE  Expendable(job.window[i].path)'
    BY DEF WindowGuarded
  <2>1. Guarded(job) /\ ~job.force /\ i \in DOMAIN job.window
    BY <1>2, <1>5 DEF Guarded
  <2>2. Expendable(job.window[i].path)
    BY <1>3, <1>4, <1>5, <1>8, <2>1 DEF Reconciling, WindowGuarded
  <2> QED
    BY <1>1, <1>2, <1>3, <2>1, <2>2 DEF Expendable, RacedRow
<1>15. TrustEarned(job)' /\ JustPlaced(job)'
  BY <1>1, <1>2, <1>4, <1>5 DEF Reconciling, TrustEarned, JustPlaced
<1> QED
  BY <1>9, <1>10, <1>12, <1>13, <1>14, <1>15 DEF Syncing, Reconciling

(* A publication: the one file that changes belongs to the first entry. *)
LEMMA PublishWalk ==
  ASSUME TypeOK, Vouching, Syncing, SyncPublish
  PROVE  Syncing'
<1>1. UNCHANGED <<saved, validationRequired>>
  BY DEF SyncPublish
<1>2. PICK p \in Paths :
        /\ job \in SyncJobs /\ job.phase = "apply"
        /\ job.window # << >> /\ p = job.window[1].path /\ job.window[1].act = "write"
        /\ job' \in SyncJobs /\ job'.phase = "stat"
        /\ SameTask(job, job') /\ SameReport(job, job') /\ job'.next = job.next
        /\ job'.window = job.window /\ job'.pending = job.pending
        /\ rows' = rows /\ file' = [file EXCEPT ![p] = job.want[p]]
  BY PublishFacts
<1>3. job.op = "sync" /\ Purposeful(job) /\ Once(job) /\ Reconciling(job)
  BY <1>2, SyncFields DEF Syncing
<1>4. /\ job'.policy = job.policy /\ job'.force = job.force
      /\ job'.selected = job.selected /\ job'.want = job.want
      /\ job'.touched = job.touched /\ Reports(job') = Reports(job)
  BY <1>2 DEF SameTask, SameReport, Reports
<1>5. Walked(job') = Walked(job) /\ InWindow(job') = InWindow(job)
  BY <1>2, WalkedFacts DEF InWindow
<1>6. 1 \in DOMAIN job.window
  BY <1>2, SyncFields, WindowTail
<1>7. p \in InWindow(job) /\ p \notin DOMAIN job.pending
  BY <1>2, <1>3, <1>6 DEF Once, InWindow
<1>8. file'[p] = job.want[p] /\ \A q \in Paths \ {p} : file'[q] = file[q]
  BY <1>2 DEF TypeOK
<1>9. job.want[p] \in saved
  <2>1. job.want[p] # None
    BY <1>2, <1>3, <1>6 DEF Purposeful, Fits
  <2> QED
    BY <1>3, <2>1 DEF Vouching
<1>10. Purposeful(job') /\ Once(job')
  BY <1>2, <1>3, <1>4, <1>5 DEF Purposeful, Fits, Once
<1>11. Walked(job) \subseteq Paths
  BY <1>2, WalkedFacts
<1>12. BatchShown(job)'
  <2>1. DOMAIN job.pending \subseteq Paths \ {p}
    BY <1>3, <1>7, <1>11 DEF Once
  <2> QED
    BY <1>2, <1>3, <1>4, <1>8, <2>1 DEF Reconciling, BatchShown, Shown
<1>13. WalkSettled(job)'
  <2> SUFFICES ASSUME NEW q \in ((Walked(job') \ InWindow(job')) \cap job'.selected) \ job'.touched
               PROVE  q \in Reports(job') \/ Settled(job, q, Upcoming(job, q))'
    BY DEF WalkSettled
  <2>1. q \in Paths \ {p}
    BY <1>5, <1>7, <1>11
  <2>2. q \in Reports(job) \/ Settled(job, q, Upcoming(job, q))
    BY <1>3, <1>4, <1>5 DEF Reconciling, WalkSettled
  <2>3. Upcoming(job, q)' = Upcoming(job, q)
    BY <1>2 DEF Upcoming
  <2> QED
    BY <1>2, <1>4, <1>8, <2>1, <2>2, <2>3, SettledFrame
<1>14. WindowGuarded(job)'
  <2> SUFFICES ASSUME Guarded(job'), NEW i \in DOMAIN job'.window,
                      job'.window[i].act \in {"write", "remove"},
                      job'.window[i].path \notin job'.touched
               PROVE  Expendable(job.window[i].path)'
    BY DEF WindowGuarded
  <2>1. CASE job.window[i].path = p
    BY <1>1, <1>2, <1>8, <1>9, <2>1 DEF Expendable
  <2>2. CASE job.window[i].path # p
    <3>1. Expendable(job.window[i].path)
      BY <1>2, <1>3, <1>4 DEF Reconciling, WindowGuarded, Guarded
    <3>2. job.window[i].path \in Paths \ {p}
      BY <1>2, <1>3, <1>11, <2>2 DEF Once, InWindow
    <3> QED
      BY <1>1, <1>2, <1>8, <3>1, <3>2 DEF Expendable, RacedRow
  <2> QED
    BY <2>1, <2>2
<1>15. JustPlaced(job)'
  BY <1>2, <1>4, <1>8 DEF JustPlaced
<1>16. TrustEarned(job)'
  BY <1>1, <1>3, <1>4 DEF Reconciling, TrustEarned
<1> QED
  BY <1>10, <1>12, <1>13, <1>14, <1>15, <1>16 DEF Syncing, Reconciling

(* The head of the window is dealt with. *)
LEMMA ConsumeWalk ==
  ASSUME TypeOK, Vouching, Syncing, SyncStat \/ SyncRemove \/ SyncReport
  PROVE  Syncing'
<1>1. UNCHANGED <<saved, validationRequired>> /\ job.op = "sync"
  BY DEF SyncStat, SyncRemove, SyncReport, Applying, InPhase
<1>2. Purposeful(job) /\ Once(job) /\ Reconciling(job)
  BY <1>1 DEF Syncing
<1>3. CASE SyncStat
  <2>1. PICK p \in Paths :
          /\ job \in SyncJobs /\ job.phase = "stat"
          /\ job.window[1].act = "write" /\ job.want[p] \in Oids
          /\ job' \in SyncJobs /\ rows' \in [Paths -> Rows]
          /\ Consumes(p) /\ SameReport(job, job')
          /\ Passes({p}) /\ Upcoming(job, p)' = Earned(p)
    BY <1>2, <1>3, StatFacts
  <2>2. file' = file
    BY <1>3 DEF SyncStat
  <2>3. p \notin job.touched => file[p] = job.want[p]
    BY <1>2, <2>1 DEF Reconciling, JustPlaced, Consumes
  <2>4. Earned(p) \in Row /\ Earned(p).oid = job.want[p]
    <3>1. (IF file[p] = Absent THEN None ELSE file[p]) \in Oids \cup {None}
      BY DEF TypeOK
    <3> QED
      BY <2>1, <3>1 DEF Earned, Row
  <2>5. p \notin job.touched => Shown(p, Upcoming(job, p))'
    BY <2>1, <2>2, <2>3, <2>4, NoneAssumption DEF Shown
  <2>6. p \in DOMAIN job'.pending => job'.pending[p] = Upcoming(job, p)'
    BY DEF Upcoming
  <2>7. p \in job.touched \/ (p \in DOMAIN job'.pending => Shown(p, job.pending[p])')
    BY <2>5, <2>6 DEF Shown
  <2>8. p \in job.touched \/ Settled(job, p, Upcoming(job, p))'
    <3>1. job'.want = job.want /\ job'.policy = job.policy
      BY <2>1 DEF Consumes, SameTask
    <3> QED
      BY <2>1, <2>2, <2>3, <2>4, <3>1, NoneAssumption, ContentAssumption DEF Settled
  <2>9. Reports(job') = Reports(job) /\ job.phase # "plan"
    BY <2>1 DEF SameReport, Reports
  <2>10. DOMAIN job'.pending \subseteq DOMAIN job.pending \cup {p}
    BY <2>1 DEF Passes
  <2>11. Purposeful(job') /\ Once(job')
    BY <1>2, <2>1, <2>9, <2>10, ConsumedWindow
  <2>12. Reconciling(job)'
    BY <1>1, <1>2, <2>1, <2>2, <2>7, <2>8, <2>9, ConsumedReconciles
  <2> QED
    BY <2>11, <2>12 DEF Syncing
<1>4. CASE SyncRemove
  <2>1. PICK p \in Paths :
         /\ job \in SyncJobs /\ job.phase = "apply" /\ job.window[1].act = "remove"
         /\ job' \in SyncJobs /\ rows' \in [Paths -> Rows]
         /\ Consumes(p) /\ SameReport(job, job')
         /\ Passes({p}) /\ Upcoming(job, p)' = None
         /\ file' = [file EXCEPT ![p] = Absent]
    BY <1>4, RemoveFacts
  <2>2. file'[p] = Absent /\ \A q \in Paths \ {p} : file'[q] = file[q]
    BY <2>1 DEF TypeOK
  <2>3. job.want[p] = None
    <3>1. 1 \in DOMAIN job.window
      BY <2>1, SyncFields, WindowTail DEF Consumes
    <3>2. Fits(job, job.window[1])
      BY <1>2, <3>1 DEF Purposeful
    <3> QED
      BY <2>1, <3>2 DEF Fits, Consumes
  <2>4. p \in DOMAIN job'.pending => job'.pending[p] = None
    BY <2>1 DEF Upcoming
  <2>5. p \in DOMAIN job'.pending => Shown(p, job.pending[p])'
    BY <2>2, <2>4 DEF Shown
  <2>6. Settled(job, p, Upcoming(job, p))'
    <3>1. job'.want[p] = None
      BY <2>1, <2>3 DEF Consumes, SameTask
    <3> QED
      BY <2>1, <3>1 DEF Settled
  <2>7. Reports(job') = Reports(job) /\ job.phase # "plan"
    BY <2>1 DEF SameReport, Reports
  <2>8. DOMAIN job'.pending \subseteq DOMAIN job.pending \cup {p}
    BY <2>1 DEF Passes
  <2>9. Purposeful(job') /\ Once(job')
    BY <1>2, <2>1, <2>7, <2>8, ConsumedWindow
  <2>10. Reconciling(job)'
    BY <1>1, <1>2, <2>1, <2>2, <2>5, <2>6, <2>7, ConsumedReconciles
  <2> QED
    BY <2>9, <2>10 DEF Syncing
<1>5. CASE SyncReport
  <2>1. PICK p \in Paths :
         /\ job \in SyncJobs /\ job.phase = "apply"
         /\ job' \in SyncJobs /\ Consumes(p)
         /\ rows' = rows /\ job'.pending = job.pending
         /\ Reports(job') = Reports(job) \cup {p}
    BY <1>5, ReportFacts
  <2>2. file' = file
    BY <1>5 DEF SyncReport
  <2>3. p \notin DOMAIN job'.pending
    <3>1. 1 \in DOMAIN job.window
      BY <2>1, SyncFields, WindowTail DEF Consumes
    <3>2. p \in InWindow(job)
      BY <2>1, <3>1 DEF InWindow, Consumes
    <3> QED
      BY <1>2, <2>1, <3>2 DEF Once
  <2>4. Passes({p})
    BY <2>1 DEF Passes, Upcoming
  <2>5. Purposeful(job') /\ Once(job')
    BY <1>2, <2>1, ConsumedWindow
  <2>6. Reconciling(job)'
    BY <1>1, <1>2, <2>1, <2>2, <2>3, <2>4, ConsumedReconciles
  <2> QED
    BY <2>5, <2>6 DEF Syncing
<1> QED
  BY <1>3, <1>4, <1>5

(* Between windows: what leaves the batch is in the ledger. *)
LEMMA TurnWalk ==
  ASSUME TypeOK, Syncing, SyncNextWindow \/ SyncFlush
  PROVE  Syncing'
<1>1. UNCHANGED <<file, saved, validationRequired>>
  BY DEF SyncNextWindow, SyncFlush
<1>2. /\ job \in SyncJobs /\ job.window = << >> /\ job.phase \in {"plan", "apply"}
      /\ job' \in SyncJobs /\ rows' \in [Paths -> Rows]
      /\ SameTask(job, job') /\ SameReport(job, job')
      /\ job'.window = << >> /\ job'.next = job.next
      /\ Passes({})
      /\ \/ job'.phase = "plan"
         \/ job'.phase = "done" /\ job.next = Len(Order) + 1 /\ DOMAIN job'.pending = {}
  BY TurnFacts
<1>3. job.op = "sync" /\ Purposeful(job) /\ Once(job) /\ Reconciling(job)
  BY <1>2, SyncFields DEF Syncing
<1>4. /\ job'.policy = job.policy /\ job'.force = job.force
      /\ job'.selected = job.selected /\ job'.want = job.want
      /\ job'.touched = job.touched /\ Reports(job') = Reports(job)
  BY <1>2 DEF SameTask, SameReport, Reports
<1>5. /\ Walked(job') = Walked(job) /\ InWindow(job') = InWindow(job) /\ InWindow(job') = {}
      /\ Walked(job) \subseteq Paths /\ DOMAIN job'.window = {}
  BY <1>2, WalkedFacts DEF InWindow
<1>6. /\ DOMAIN job'.pending \subseteq DOMAIN job.pending
      /\ \A q \in Paths : Upcoming(job, q)' = Upcoming(job, q)
  BY <1>2 DEF Passes
<1>7. Purposeful(job')
  BY <1>2, <1>5 DEF Purposeful
<1>8. Once(job')
  BY <1>3, <1>5, <1>6 DEF Once
<1>9. BatchShown(job)'
  <2> SUFFICES ASSUME NEW q \in DOMAIN job'.pending \ job'.touched
               PROVE  Shown(q, job.pending[q])'
    BY DEF BatchShown
  <2>1. q \in DOMAIN job.pending \ job.touched /\ q \in Paths
    BY <1>3, <1>4, <1>5, <1>6 DEF Once
  <2>2. job'.pending[q] = job.pending[q]
    BY <1>6, <2>1 DEF Upcoming
  <2>3. Shown(q, job.pending[q])
    BY <1>3, <2>1 DEF Reconciling, BatchShown
  <2> QED
    BY <1>1, <2>2, <2>3 DEF Shown
<1>10. WalkSettled(job)'
  <2> SUFFICES ASSUME NEW q \in ((Walked(job') \ InWindow(job')) \cap job'.selected) \ job'.touched
               PROVE  q \in Reports(job') \/ Settled(job, q, Upcoming(job, q))'
    BY DEF WalkSettled
  <2>1. q \in Reports(job) \/ Settled(job, q, Upcoming(job, q))
    BY <1>3, <1>4, <1>5 DEF Reconciling, WalkSettled
  <2>2. Upcoming(job, q)' = Upcoming(job, q)
    BY <1>5, <1>6
  <2> QED
    BY <1>1, <1>2, <1>4, <2>1, <2>2, SettledFrame
<1>11. WindowGuarded(job)' /\ JustPlaced(job)'
  BY <1>2, <1>5 DEF WindowGuarded, JustPlaced
<1>12. TrustEarned(job)'
  BY <1>1, <1>3, <1>4 DEF Reconciling, TrustEarned
<1> QED
  BY <1>7, <1>8, <1>9, <1>10, <1>11, <1>12 DEF Syncing, Reconciling

(* Every step keeps the account of what the sync has done. *)
LEMMA SyncingStep ==
  ASSUME IInv, [Next]_vars, TypeOK'
  PROVE  Syncing'
<1> USE DEF IInv
<1>1. CASE Sync
  <2>1. CASE \E policy \in Policies, force \in BOOLEAN, selected \in Selections :
               SyncStart(policy, force, selected)
    BY <2>1, StartWalk
  <2>2. CASE SyncEnd
    BY <2>2, IdleOp DEF SyncEnd, Syncing
  <2>3. CASE SyncFail
    BY <2>3, IdleOp DEF SyncFail, Syncing
  <2> QED
    BY <1>1, <2>1, <2>2, <2>3, ClassifyWalk, VerifyWalk, PublishWalk, ConsumeWalk, TurnWalk DEF Sync
<1>2. CASE UNCHANGED <<job, rows, file, validationRequired>> /\ saved \subseteq saved'
  <2>1. CASE job.op = "sync"
    BY <1>2, <2>1, JobKinds, SyncUndisturbed DEF SameTask, Reports
  <2>2. CASE job.op # "sync"
    BY <1>2, <2>2 DEF Syncing
  <2> QED
    BY <2>1, <2>2
<1>3. CASE Add
  <2>1. ASSUME NEW p \in Paths, AddPrepare(p) PROVE Syncing'
    <3>1. UNCHANGED <<job, rows, file, validationRequired>> /\ saved \subseteq saved'
      BY <2>1, PrepareFacts DEF AddPrepare
    <3> QED
      BY <1>2, <3>1
  <2>2. CASE AddPublish
    <3>1. job'.op # "sync"
      BY <2>2, IdleOp DEF AddPublish
    <3> QED
      BY <3>1 DEF Syncing
  <2>3. CASE AddRecord
    BY <2>3, IdleOp DEF AddRecord, Syncing
  <2> QED
    BY <1>3, <2>1, <2>2, <2>3 DEF Add
<1>4. CASE Rm
  <2>1. job'.op # "sync"
    <3>1. CASE \E p \in Paths, cached \in BOOLEAN : RmPublish(p, cached)
      BY <3>1 DEF RmPublish
    <3>2. CASE RmDelete
      BY <3>2, JobKinds DEF RmDelete, RmJobs
    <3>3. CASE RmForget
      BY <3>3, IdleOp DEF RmForget
    <3> QED
      BY <1>4, <3>1, <3>2, <3>3 DEF Rm
  <2> QED
    BY <2>1 DEF Syncing
<1>5. CASE Mv
  <2>1. job'.op # "sync"
    <3>1. CASE \E src, dst \in Paths, force \in BOOLEAN : MvRename(src, dst, force)
      BY <3>1 DEF MvRename
    <3>2. CASE MvPublish
      BY <3>2, JobKinds DEF MvPublish, MvJobs
    <3>3. CASE MvCommit \/ MvRollback
      BY <3>3, IdleOp DEF MvCommit, MvRollback
    <3> QED
      BY <1>5, <3>1, <3>2, <3>3 DEF Mv
  <2> QED
    BY <2>1 DEF Syncing
<1>6. CASE RepairState
  BY <1>6, IdleOp DEF RepairState, Syncing
<1>7. CASE Crash
  BY <1>7, IdleOp DEF Crash, Syncing
<1>8. CASE Others
  <2>1. ASSUME NEW p \in Paths, NEW bytes \in UserBytes \cup {Absent}, UserEdits(p, bytes)
        PROVE  Syncing'
    <3>1. /\ file' = [file EXCEPT ![p] = bytes]
          /\ UNCHANGED <<rows, validationRequired, saved>>
      BY <2>1 DEF UserEdits
    <3>2. \A q \in Paths \ {p} : file'[q] = file[q]
      BY <3>1 DEF TypeOK
    <3>3. CASE job.op = "sync"
      <4>1. job \in SyncJobs /\ Examined = Walked(job) /\ Walked(job) \subseteq Paths
        BY <3>3, JobKinds, WalkedFacts DEF Examined, Walked
      <4>2. CASE p \in Examined
        <5>1. job' = [job EXCEPT !.touched = @ \cup {p}]
          BY <2>1, <4>2, EditFacts
        <5>2. job' \in SyncJobs /\ job'.touched = job.touched \cup {p}
          BY <4>1, <5>1 DEF SyncJobs
        <5>3. /\ SameTask(job, job') /\ Reports(job') = Reports(job) /\ job'.phase = job.phase
              /\ job'.next = job.next /\ job'.window = job.window /\ job'.pending = job.pending
          BY <4>1, <5>1 DEF SyncJobs, SameTask, Reports
        <5> QED
          BY <3>1, <3>2, <4>1, <5>2, <5>3, SyncUndisturbed
      <4>3. CASE p \notin Examined
        <5>1. job' = job
          BY <2>1, <4>3, EditFacts
        <5>2. \A q \in Walked(job) \ job'.touched : file'[q] = file[q]
          BY <3>2, <4>1, <4>3
        <5> QED
          BY <3>1, <4>1, <5>1, <5>2, SyncUndisturbed DEF SameTask, Reports
      <4> QED
        BY <4>2, <4>3
    <3>4. CASE job.op # "sync"
      <4>1. job'.op # "sync"
        BY <2>1, <3>4, EditFacts, JobKinds DEF MvJobs
      <4> QED
        BY <4>1 DEF Syncing
    <3> QED
      BY <3>3, <3>4
  <2>2. ASSUME NEW commit \in Commits, GitCheckout(commit) PROVE Syncing'
    BY <1>2, <2>2 DEF GitCheckout
  <2> QED
    BY <1>8, <2>1, <2>2 DEF Others
<1>9. CASE UNCHANGED vars
  BY <1>2, <1>9 DEF vars
<1> QED
  BY <1>1, <1>3, <1>4, <1>5, <1>6, <1>7, <1>8, <1>9 DEF Next

-----------------------------------------------------------------------------
(* A move.                                                                  *)

(* Every step keeps the source of an unfinished move empty, unless the user *)
(* was seen to write there.                                                 *)
LEMMA MovingStep ==
  ASSUME IInv, [Next]_vars, TypeOK'
  PROVE  Moving'
<1> USE DEF IInv
<1>1. CASE Sync
  <2>1. job'.op # "mv"
    <3>1. CASE \E policy \in Policies, force \in BOOLEAN, selected \in Selections :
                 SyncStart(policy, force, selected)
      BY <3>1 DEF SyncStart
    <3>2. CASE SyncEnd \/ SyncFail
      BY <3>2, IdleOp DEF SyncEnd, SyncFail
    <3>3. CASE SyncStat
      <4>1. job.op = "sync"
        BY <3>3 DEF SyncStat, InPhase
      <4> QED
        BY <3>3, <4>1, StatFacts, SyncFields DEF Syncing
    <3>4. CASE SyncClassify
      BY <3>4, ClassifyFacts, SyncFields
    <3>5. CASE SyncVerify
      BY <3>5, VerifyFacts, SyncFields
    <3>6. CASE SyncPublish
      BY <3>6, PublishFacts, SyncFields
    <3>7. CASE SyncRemove
      BY <3>7, RemoveFacts, SyncFields
    <3>8. CASE SyncReport
      BY <3>8, ReportFacts, SyncFields
    <3>9. CASE SyncNextWindow \/ SyncFlush
      BY <3>9, TurnFacts, SyncFields
    <3> QED
      BY <1>1, <3>1, <3>2, <3>3, <3>4, <3>5, <3>6, <3>7, <3>8, <3>9 DEF Sync
  <2> QED
    BY <2>1 DEF Moving
<1>2. CASE UNCHANGED <<job, file>>
  BY <1>2 DEF Moving
<1>3. CASE Add
  <2>1. CASE \E p \in Paths : AddPrepare(p)
    BY <1>2, <2>1 DEF AddPrepare
  <2>2. CASE AddPublish \/ AddRecord
    BY <2>2, IdleOp DEF AddPublish, AddRecord, Moving
  <2> QED
    BY <1>3, <2>1, <2>2 DEF Add
<1>4. CASE Rm
  <2>1. job'.op # "mv"
    <3>1. CASE \E p \in Paths, cached \in BOOLEAN : RmPublish(p, cached)
      BY <3>1 DEF RmPublish
    <3>2. CASE RmDelete
      BY <3>2, JobKinds DEF RmDelete, RmJobs
    <3>3. CASE RmForget
      BY <3>3, IdleOp DEF RmForget
    <3> QED
      BY <1>4, <3>1, <3>2, <3>3 DEF Rm
  <2> QED
    BY <2>1 DEF Moving
<1>5. CASE Mv
  <2>1. ASSUME NEW src \in Paths, NEW dst \in Paths, NEW force \in BOOLEAN, MvRename(src, dst, force)
        PROVE  Moving'
    <3>1. job'.src = src /\ job'.dst = dst /\ src # dst
      BY <2>1 DEF MvRename
    <3>2. file'[src] = Absent
      BY <2>1 DEF MvRename, TypeOK
    <3> QED
      BY <3>1, <3>2 DEF Moving
  <2>2. CASE MvPublish
    <3>1. /\ job'.src = job.src /\ job'.dst = job.dst /\ job'.touched = job.touched
          /\ file' = file /\ job.op = "mv"
      BY <2>2, JobKinds DEF MvPublish, MvJobs
    <3> QED
      BY <3>1 DEF Moving
  <2>3. CASE MvCommit \/ MvRollback
    BY <2>3, IdleOp DEF MvCommit, MvRollback, Moving
  <2> QED
    BY <1>5, <2>1, <2>2, <2>3 DEF Mv
<1>6. CASE RepairState
  BY <1>6, IdleOp DEF RepairState, Moving
<1>7. CASE Crash
  BY <1>7, IdleOp DEF Crash, Moving
<1>8. CASE Others
  <2>1. ASSUME NEW p \in Paths, NEW bytes \in UserBytes \cup {Absent}, UserEdits(p, bytes)
        PROVE  Moving'
    <3>1. \A q \in Paths \ {p} : file'[q] = file[q]
      BY <2>1 DEF UserEdits, TypeOK
    <3>2. CASE job.op = "mv"
      <4>1. job \in MvJobs /\ job.src \in Paths /\ job.src # job.dst /\ Examined = {job.src, job.dst}
        BY <3>2, JobKinds DEF MvJobs, Moving, Examined
      <4>2. CASE p \in Examined
        <5>1. job' = [job EXCEPT !.touched = @ \cup {p}]
          BY <2>1, <4>2, EditFacts
        <5>2. job'.src = job.src /\ job'.dst = job.dst /\ job'.touched = job.touched \cup {p}
          BY <4>1, <5>1 DEF MvJobs
        <5> QED
          BY <3>1, <3>2, <4>1, <5>2 DEF Moving
      <4>3. CASE p \notin Examined
        BY <2>1, <3>1, <3>2, <4>1, <4>3, EditFacts DEF Moving
      <4> QED
        BY <4>2, <4>3
    <3>3. CASE job.op # "mv"
      <4>1. job'.op # "mv"
        BY <2>1, <3>3, EditFacts, JobKinds DEF SyncJobs
      <4> QED
        BY <4>1 DEF Moving
    <3> QED
      BY <3>2, <3>3
  <2>2. CASE \E commit \in Commits : GitCheckout(commit)
    BY <1>2, <2>2 DEF GitCheckout
  <2> QED
    BY <1>8, <2>1, <2>2 DEF Others
<1>9. CASE UNCHANGED vars
  BY <1>2, <1>9 DEF vars
<1> QED
  BY <1>1, <1>3, <1>4, <1>5, <1>6, <1>7, <1>8, <1>9 DEF Next

-----------------------------------------------------------------------------
(* The invariant.                                                           *)

(* A fresh clone. *)
LEMMA InitInvariant == Init => IInv
<1> SUFFICES ASSUME Init PROVE IInv
  OBVIOUS
<1>1. job.op = "none" /\ prep = None /\ \A p \in Paths : rows[p] = None
  BY IdleOp DEF Init
<1>2. \A commit \in Commits, p \in Paths : commit[p] \in Oids \cup {None}
  BY ContentAssumption DEF Locks
<1>3. \A commit \in Commits, p \in Paths : commit[p] \in saved \cup {None}
  BY DEF Init
<1>4. saved \subseteq Oids /\ lock \in Locks /\ lock \in Commits
  BY <1>2, ContentAssumption DEF Init
<1>5. None \in Preps /\ None \in Rows
  BY DEF Preps, Rows
<1>6. rows \in [Paths -> Rows] /\ file \in [Paths -> Oids \cup {Absent}]
  BY <1>5 DEF Init
<1>7. commands \in 0 .. MaxCommands /\ edits \in 0 .. MaxEdits
      /\ checkouts \in 0 .. MaxCheckouts /\ faults \in 0 .. MaxFaults
  BY BoundAssumption DEF Init
<1>8. TypeOK
  BY <1>4, <1>5, <1>6, <1>7 DEF Init, TypeOK
<1>9. Vouching
  BY <1>1, <1>3, <1>4 DEF Vouching, Vouched
<1>10. Syncing /\ Moving
  BY <1>1 DEF Syncing, Moving
<1> QED
  BY <1>8, <1>9, <1>10 DEF IInv

(* The invariant is inductive. *)
LEMMA NextInvariant == IInv /\ [Next]_vars => IInv'
<1> SUFFICES ASSUME IInv, [Next]_vars PROVE IInv'
  OBVIOUS
<1>1. TypeOK'
  BY TypeStep
<1>2. Vouching' /\ Syncing' /\ Moving'
  BY <1>1, VouchingStep, SyncingStep, MovingStep
<1> QED
  BY <1>1, <1>2 DEF IInv

(* The invariant holds throughout. *)
LEMMA Invariance == Spec => []IInv
BY InitInvariant, NextInvariant, PTL DEF Spec

-----------------------------------------------------------------------------
(* The theorems.                                                            *)

(* Every variable keeps its type: a sync that publishes has something to    *)
(* publish, and a window, a batch and a report are of paths.                *)
THEOREM TypeCorrect == Spec => []TypeOK
<1>1. IInv => TypeOK
  BY DEF IInv
<1> QED
  BY <1>1, Invariance, PTL

(* A proof kept with an oid is a proof of that oid (FileMatches relies on   *)
(* it), except for a row whose file the user overwrote before materialize   *)
(* took its stat.                                                           *)
THEOREM ProofsAreHonest == Spec => []ProofsHonest
<1>1. IInv => ProofsHonest
  BY DEF IInv, Vouching, Vouched, ProofsHonest
<1> QED
  BY <1>1, Invariance, PTL

(* A clean sync that is over has reconciled every path it was asked about. *)
LEMMA DoneReconciles ==
  ASSUME IInv, job.op = "sync", job.phase = "done", Clean,
         NEW p \in job.selected \ job.touched
  PROVE  Reconciled(p)
<1>1. job \in SyncJobs /\ Purposeful(job) /\ Once(job) /\ Reconciling(job)
  BY JobKinds DEF IInv, Syncing
<1>2. job.window = << >> /\ DOMAIN job.pending = {} /\ job.next = Len(Order) + 1
  BY <1>1 DEF Purposeful
<1>3. p \in Walked(job)
  BY <1>1, <1>2, SyncFields, WalkedFacts
<1>4. DOMAIN job.window = {}
  BY <1>2
<1>5. p \notin InWindow(job) /\ p \notin Reports(job)
  BY <1>4 DEF InWindow, Reports, Clean
<1>6. Settled(job, p, Upcoming(job, p))
  BY <1>1, <1>3, <1>5 DEF Reconciling, WalkSettled
<1>7. Upcoming(job, p) = rows[p]
  BY <1>2 DEF Upcoming
<1> QED
  BY <1>6, <1>7 DEF Settled, Reconciled

(* A sync that reports nothing leaves the ledger, and unless it trusted the *)
(* ledger the files, at gat.lock, whatever windows and batches the work was *)
(* cut into and whatever others did meanwhile.                              *)
THEOREM CleanSyncIsReconciled == Spec => []CleanSyncReconciles
<1>1. IInv => CleanSyncReconciles
  BY DoneReconciles DEF CleanSyncReconciles
<1> QED
  BY <1>1, Invariance, PTL

(* A rebuilt ledger is trusted again (mark_validated) only when every path  *)
(* agrees with gat.lock.                                                    *)
THEOREM TrustIsRestored == Spec => TrustRestored
<1>1. ASSUME IInv, [Next]_vars, validationRequired, ~validationRequired',
             NEW p \in Paths \ job.touched
      PROVE  Reconciled(p)
  <2>1. SyncEnd
    BY <1>1 DEF Next, Sync, Add, Rm, Mv, Others, SyncStart, SyncClassify, SyncVerify, SyncPublish,
         SyncStat, SyncRemove, SyncReport, SyncNextWindow, SyncFlush, SyncFail, AddPrepare, AddPublish,
         AddRecord, RmPublish, RmDelete, RmForget, MvRename, MvPublish, MvCommit, MvRollback,
         RepairState, Crash, UserEdits, GitCheckout, vars
  <2>2. job.op = "sync" /\ job.phase = "done" /\ ClearsFlag
    BY <1>1, <2>1 DEF SyncEnd, InPhase
  <2> QED
    BY <1>1, <2>2, DoneReconciles DEF ClearsFlag
<1> DEFINE Restores == validationRequired /\ ~validationRequired'
                         => \A p \in Paths \ job.touched : Reconciled(p)
<1>2. IInv /\ [Next]_vars => [Restores]_vars
  BY <1>1
<1> HIDE DEF Restores
<1>3. Spec => [][Restores]_vars
  BY <1>2, Invariance, PTL DEF Spec
<1> QED
  BY <1>3 DEF TrustRestored, Restores

(* Each row that a step of sync records speaks of a file that is so. *)
Records(p) == rows'[p] = rows[p] \/ Shown(p, rows[p])'

(* A step whose own rows are so leaves only rows in the ledger that are. *)
LEMMA PassesRecords ==
  ASSUME Reconciling(job), NEW ps \in SUBSET Paths, Passes(ps),
         \A p \in Paths \ ps : file'[p] = file[p],
         \A p \in ps \ job.touched : Shown(p, Upcoming(job, p))',
         NEW p \in Paths \ job.touched
  PROVE  Records(p)
<1>1. CASE rows'[p] = rows[p]
  BY <1>1 DEF Records
<1>2. CASE p \in ps /\ rows'[p] = Upcoming(job, p)'
  BY <1>2 DEF Records, Shown
<1>3. CASE p \notin ps /\ p \in DOMAIN job.pending /\ rows'[p] = Upcoming(job, p)'
  <2>1. rows'[p] = job.pending[p] /\ file'[p] = file[p]
    BY <1>3 DEF Passes, Upcoming
  <2>2. Shown(p, job.pending[p])
    BY <1>3 DEF Reconciling, BatchShown
  <2> QED
    BY <2>1, <2>2 DEF Records, Shown
<1> QED
  BY <1>1, <1>2, <1>3 DEF Passes

(* Every row sync records or drops speaks of the file as it is by then. *)
LEMMA SyncRecords ==
  ASSUME IInv, job.op = "sync", [Next]_vars, NEW p \in Paths \ job.touched
  PROVE  Records(p)
<1> USE DEF IInv
<1>1. Purposeful(job) /\ Once(job) /\ Reconciling(job) /\ job \in SyncJobs
  BY JobKinds DEF Syncing
<1>2. CASE rows' = rows
  BY <1>2 DEF Records
<1>3. CASE SyncClassify
  <2>1. file' = file
    BY <1>3 DEF SyncClassify
  <2>2. PICK q \in Paths :
         \/ rows' = rows
         \/ /\ RefreshesProof(q) /\ Passes({q})
            /\ Upcoming(job, q)' = [oid |-> rows[q].oid, proof |-> file[q], raced |-> FALSE]
    BY <1>3, ClassifyFacts
  <2>3. CASE /\ RefreshesProof(q) /\ Passes({q})
             /\ Upcoming(job, q)' = [oid |-> rows[q].oid, proof |-> file[q], raced |-> FALSE]
    <3> DEFINE row == [oid |-> rows[q].oid, proof |-> file[q], raced |-> FALSE]
    <3>1. rows[q] # None /\ file[q] = rows[q].oid
      BY <2>3 DEF RefreshesProof
    <3>2. rows[q] \in Row
      BY <3>1 DEF TypeOK, Rows
    <3>3. row \in Row /\ row.oid = rows[q].oid /\ Upcoming(job, q)' = row
      BY <2>3, <3>1, <3>2 DEF Row
    <3> HIDE DEF row
    <3>4. Shown(q, Upcoming(job, q))'
      BY <2>1, <3>1, <3>3, NoneAssumption DEF Shown
    <3> QED
      BY <1>1, <2>1, <2>3, <3>4, PassesRecords
  <2> QED
    BY <1>2, <2>2, <2>3
<1>4. CASE SyncStat
  <2>1. PICK q \in Paths :
          /\ job.want[q] \in Oids /\ job.phase = "stat" /\ Consumes(q)
          /\ Passes({q}) /\ Upcoming(job, q)' = Earned(q)
    BY <1>1, <1>4, StatFacts
  <2>2. file' = file
    BY <1>4 DEF SyncStat
  <2>3. q \notin job.touched => file[q] = job.want[q]
    BY <1>1, <2>1 DEF Reconciling, JustPlaced, Consumes
  <2>4. Earned(q) \in Row /\ Earned(q).oid = job.want[q]
    <3>1. (IF file[q] = Absent THEN None ELSE file[q]) \in Oids \cup {None}
      BY DEF TypeOK
    <3> QED
      BY <2>1, <3>1 DEF Earned, Row
  <2>5. q \notin job.touched => Shown(q, Upcoming(job, q))'
    BY <2>1, <2>2, <2>3, <2>4, NoneAssumption DEF Shown
  <2> QED
    BY <1>1, <2>1, <2>2, <2>5, PassesRecords
<1>5. CASE SyncRemove
  <2>1. PICK q \in Paths : /\ Passes({q}) /\ Upcoming(job, q)' = None
                           /\ file' = [file EXCEPT ![q] = Absent]
    BY <1>5, RemoveFacts
  <2>2. file'[q] = Absent /\ \A r \in Paths \ {q} : file'[r] = file[r]
    BY <2>1 DEF TypeOK
  <2>3. Shown(q, Upcoming(job, q))'
    BY <2>1, <2>2 DEF Shown
  <2> QED
    BY <1>1, <2>1, <2>2, <2>3, PassesRecords
<1>6. CASE SyncNextWindow \/ SyncFlush
  <2>1. Passes({}) /\ file' = file
    BY <1>6, TurnFacts DEF SyncNextWindow, SyncFlush
  <2> QED
    BY <1>1, <2>1, PassesRecords
<1>7. CASE SyncFail
  <2>1. rows' = Committed(job.pending) /\ file' = file
    BY <1>7 DEF SyncFail
  <2>2. rows'[p] = IF p \in DOMAIN job.pending THEN job.pending[p] ELSE rows[p]
    BY <1>1, <2>1, SyncFields, CommittedTyped
  <2> QED
    BY <1>1, <2>1, <2>2 DEF Records, Shown, Reconciling, BatchShown
<1>8. CASE Sync
  <2>1. CASE \E policy \in Policies, force \in BOOLEAN, selected \in Selections :
               SyncStart(policy, force, selected)
    BY <1>2, <2>1 DEF SyncStart
  <2>2. CASE SyncVerify \/ SyncPublish \/ SyncReport \/ SyncEnd
    BY <1>2, <2>2 DEF SyncVerify, SyncPublish, SyncReport, SyncEnd
  <2> QED
    BY <1>3, <1>4, <1>5, <1>6, <1>7, <1>8, <2>1, <2>2 DEF Sync
<1>9. CASE Add \/ Rm \/ Mv \/ RepairState \/ Crash \/ Others \/ UNCHANGED vars
  <2>1. job # Idle
    BY IdleOp
  <2>2. rows' = rows
    BY <1>9, <2>1 DEF Add, Rm, Mv, Others, AddPrepare, AddPublish, AddRecord, RmPublish, RmDelete,
         RmForget, MvRename, MvPublish, MvCommit, MvRollback, RepairState, Crash, UserEdits,
         GitCheckout, vars
  <2> QED
    BY <1>2, <2>2
<1> QED
  BY <1>8, <1>9 DEF Next

(* The ledger follows the working tree: no commit of a batch records what   *)
(* was not placed or forgets what was not removed, however the sync ends.   *)
THEOREM LedgerIsNeverAhead == Spec => LedgerNeverAhead
<1> DEFINE Ledger == job.op = "sync" =>
       \A p \in Paths \ job.touched :
         \/ rows'[p] = rows[p]
         \/ rows'[p] = None /\ file'[p] = Absent
         \/ rows'[p] # None /\ file'[p] = rows'[p].oid
<1>1. ASSUME IInv, [Next]_vars PROVE Ledger
  BY <1>1, SyncRecords DEF Records, Shown
<1>2. IInv /\ [Next]_vars => [Ledger]_vars
  BY <1>1
<1> HIDE DEF Ledger
<1>3. Spec => [][Ledger]_vars
  BY <1>2, Invariance, PTL DEF Spec
<1> QED
  BY <1>3 DEF LedgerNeverAhead, Ledger

(* Who may destroy the only copy of some bytes. *)
LEMMA DestroysKnowingly ==
  ASSUME IInv, [Next]_vars, NEW p \in Paths, Destroys(p)
  PROVE  Consented \/ EditedUnseen(p) \/ RacedRow(p)
<1> USE DEF IInv
<1>1. /\ edits' = edits /\ file'[p] # file[p] /\ \A q \in Paths : file'[q] # file[p]
      /\ file[p] \notin saved' /\ file[p] \notin backups' /\ file[p] # Absent
  BY DEF Destroys
<1>2. file \in [Paths -> Oids \cup {Absent}]
  BY DEF TypeOK
<1>3. ASSUME job \in SyncJobs, job.window # << >>, job.window[1].act \in {"write", "remove"},
             NEW q \in Paths, q = job.window[1].path, file'[q] # file[q],
             \A r \in Paths \ {q} : file'[r] = file[r], saved' = saved
      PROVE  Consented \/ EditedUnseen(p) \/ RacedRow(p)
  <2>1. p = q
    BY <1>1, <1>3
  <2>2. job.op = "sync" /\ Reconciling(job) /\ 1 \in DOMAIN job.window
    BY <1>3, SyncFields, WindowTail DEF Syncing
  <2>3. CASE ~Guarded(job)
    <3>1. job.force \/ (job.policy = "trust" /\ ~validationRequired)
      BY <2>2, <2>3 DEF Guarded, Reconciling, TrustEarned
    <3> QED
      BY <2>2, <3>1 DEF Consented
  <2>4. CASE p \in job.touched
    BY <2>2, <2>4 DEF EditedUnseen
  <2>5. CASE Guarded(job) /\ p \notin job.touched
    <3>1. Expendable(p)
      BY <1>3, <2>1, <2>2, <2>5 DEF Reconciling, WindowGuarded
    <3> QED
      BY <1>1, <1>3, <3>1 DEF Expendable
  <2> QED
    BY <2>3, <2>4, <2>5
<1>4. CASE Sync
  <2>1. CASE SyncPublish
    <3>1. PICK q \in Paths :
            /\ job \in SyncJobs /\ job.window # << >> /\ q = job.window[1].path
            /\ job.window[1].act = "write" /\ file' = [file EXCEPT ![q] = job.want[q]]
      BY <2>1, PublishFacts
    <3>2. saved' = saved
      BY <2>1 DEF SyncPublish
    <3>3. \A r \in Paths \ {q} : file'[r] = file[r]
      BY <1>2, <3>1
    <3>4. file'[q] # file[q]
      BY <1>1, <3>3
    <3> QED
      BY <1>3, <3>1, <3>2, <3>3, <3>4
  <2>2. CASE SyncRemove
    <3>1. PICK q \in Paths :
            /\ job \in SyncJobs /\ Consumes(q)
            /\ job.window[1].act = "remove" /\ file' = [file EXCEPT ![q] = Absent]
      BY <2>2, RemoveFacts
    <3>2. saved' = saved /\ job.window # << >> /\ q = job.window[1].path
      BY <2>2, <3>1 DEF SyncRemove, Consumes
    <3>3. \A r \in Paths \ {q} : file'[r] = file[r]
      BY <1>2, <3>1
    <3>4. file'[q] # file[q]
      BY <1>1, <3>3
    <3> QED
      BY <1>3, <3>1, <3>2, <3>3, <3>4
  <2>3. CASE ~SyncPublish /\ ~SyncRemove
    <3>1. file' = file
      BY <1>4, <2>3 DEF Sync, SyncStart, SyncClassify, SyncVerify, SyncStat, SyncReport,
           SyncNextWindow, SyncFlush, SyncEnd, SyncFail
    <3> QED
      BY <1>1, <3>1
  <2> QED
    BY <2>1, <2>2, <2>3
<1>5. CASE Rm
  <2>1. CASE RmDelete
    BY <2>1 DEF RmDelete, Consented
  <2>2. CASE ~RmDelete
    <3>1. file' = file
      BY <1>5, <2>2 DEF Rm, RmPublish, RmForget
    <3> QED
      BY <1>1, <3>1
  <2> QED
    BY <2>1, <2>2
<1>6. CASE Mv
  <2>1. ASSUME NEW src \in Paths, NEW dst \in Paths, NEW force \in BOOLEAN, MvRename(src, dst, force)
        PROVE  FALSE
    <3>1. /\ src # dst /\ file'[dst] = file[src] /\ \A r \in Paths \ {src, dst} : file'[r] = file[r]
      BY <1>2, <2>1 DEF MvRename
    <3>2. backups' = backups \cup ({file[dst]} \ {Absent})
      BY <2>1 DEF MvRename
    <3>3. p # src
      BY <1>1, <3>1
    <3>4. p = dst
      BY <1>1, <3>1, <3>3
    <3> QED
      BY <1>1, <3>2, <3>4
  <2>2. CASE MvRollback
    <3>1. /\ job \in MvJobs /\ job.src \in Paths /\ job.dst \in Paths /\ job.src # job.dst
          /\ job.op = "mv" /\ (job.src \notin job.touched => file[job.src] = Absent)
      BY <2>2, JobKinds DEF MvRollback, MvJobs, Moving
    <3>2. file' = [file EXCEPT ![job.src] = file[job.dst], ![job.dst] = job.aside]
      BY <1>1, <2>2 DEF MvRollback
    <3>3. file'[job.src] = file[job.dst] /\ \A r \in Paths \ {job.src, job.dst} : file'[r] = file[r]
      BY <1>2, <3>1, <3>2
    <3>4. p = job.src
      BY <1>1, <3>1, <3>3
    <3>5. p \in job.touched
      BY <1>1, <3>1, <3>4
    <3> QED
      BY <3>1, <3>5 DEF EditedUnseen
  <2>3. CASE MvPublish \/ MvCommit
    BY <1>1, <2>3 DEF MvPublish, MvCommit
  <2> QED
    BY <1>6, <2>1, <2>2, <2>3 DEF Mv
<1>7. CASE Others
  <2>1. ASSUME NEW q \in Paths, NEW bytes \in UserBytes \cup {Absent}, UserEdits(q, bytes)
        PROVE  FALSE
    BY <1>1, <2>1 DEF UserEdits, TypeOK
  <2>2. CASE \E commit \in Commits : GitCheckout(commit)
    BY <1>1, <2>2 DEF GitCheckout
  <2> QED
    BY <1>7, <2>1, <2>2 DEF Others
<1>8. CASE Add \/ RepairState \/ Crash \/ UNCHANGED vars
  <2>1. file' = file
    BY <1>8 DEF Add, AddPrepare, AddPublish, AddRecord, RepairState, Crash, vars
  <2> QED
    BY <1>1, <2>1
<1> QED
  BY <1>4, <1>5, <1>6, <1>7, <1>8 DEF Next

(* The only copy of some bytes is destroyed by a command that was asked to, *)
(* by a command that had examined the path before the user wrote to it, or  *)
(* over a raced row.                                                        *)
THEOREM LocalBytesAreKept == Spec => LocalBytesKept
<1> DEFINE Kept == \A p \in Paths : Destroys(p) => Consented \/ EditedUnseen(p) \/ RacedRow(p)
<1>1. IInv /\ [Next]_vars => [Kept]_vars
  BY DestroysKnowingly
<1> HIDE DEF Kept
<1>2. Spec => [][Kept]_vars
  BY <1>1, Invariance, PTL DEF Spec
<1> QED
  BY <1>2 DEF LocalBytesKept, Kept
=============================================================================
