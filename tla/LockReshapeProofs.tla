-------------------------- MODULE LockReshapeProofs --------------------------
(***************************************************************************)
(* Proofs about LockReshape, for every set of processes, paths, object ids *)
(* and transactions and every fan-out depth: no interleaving, crash or I/O *)
(* error loses the entries of gat.lock, and a reshape changes none.        *)
(***************************************************************************)
EXTENDS LockReshape, TLAPS

-----------------------------------------------------------------------------
(* The inductive invariant.  The RepoLock makes its holder the only process *)
(* that changes the disk, so each part says what the holder relies on at    *)
(* each of its steps.                                                       *)

\* Exactly the holder of the RepoLock is inside an operation.
Mutex == \A p \in Procs : owner = p <=> pc[p] \notin {"idle", "wait"}

\* Whatever is at gat.lock holds the published entries; if nothing is there
\* and there are entries, a recoverable backup holds them.
Consistent ==
  /\ live # None => live.rows = truth
  /\ live = None /\ truth # NoRows => BackedUp

\* The staged copy has the target shape and, once validated, the entries wanted.
Staging(p) ==
  pc[p] \in {"stage", "record", "aside", "promote"} =>
    /\ job[p].txn \in Txns
    /\ txn[job[p].txn].new # None => txn[job[p].txn].new.shape = job[p].target
    /\ pc[p] # "stage" =>
         txn[job[p].txn].new # None /\ txn[job[p].txn].new.rows = job[p].want

\* Before the first commit rename the record names the shape of the live lock.
Recorded(p) ==
  pc[p] = "aside" =>
    Prepared(job[p].txn) /\ txn[job[p].txn].record.src = live.shape

\* Nothing is swept, tidied, cleaned or moved aside while it may be needed.
LiveNeeded(p) ==
  /\ pc[p] \in {"sweep", "stage", "record", "aside", "tidy", "shards", "displace"}
       => live # None
  /\ pc[p] = "tidy" => live.shape = job[p].target
  /\ pc[p] = "displace" => live.rows = NoRows
  /\ pc[p] = "clean" => \A t \in job[p].doomed : Prepared(t) => live # None

\* Publication in place starts from all the entries there are.
InPlace(p) ==
  /\ pc[p] \in {"flat", "mkdir"} /\ live = None => truth = NoRows
  /\ pc[p] = "flat" /\ IsDir(live) => live.rows = NoRows

Recovering(p) ==
  pc[p] \in {"displace", "restore"} =>
    job[p].txn \in Txns /\ txn[job[p].txn][job[p].choice] # None

\* A reshape stages the entries that are published when it promotes them.
Reshaping(p) ==
  job[p].kind = "reshape" =>
    /\ pc[p] \in {"wait", "sweep", "stage", "record", "aside", "promote", "tidy"}
    /\ pc[p] \notin {"wait", "tidy"} => job[p].want = truth

Protocol(p) ==
  /\ Staging(p)
  /\ Recorded(p)
  /\ LiveNeeded(p)
  /\ InPlace(p)
  /\ Recovering(p)
  /\ Reshaping(p)

IInv == TypeOK /\ Mutex /\ Consistent /\ \A p \in Procs : Protocol(p)

-----------------------------------------------------------------------------
(* Entry sets and representations. *)

\* Replacing one shard of an entry set, or emptying it, gives an entry set.
LEMMA RowsTypes ==
  /\ NoRows \in Rows
  /\ \A old, new \in Rows : \A d, s : Patch(old, new, d, s) \in Rows
BY DEF Rows, NoRows, Patch

\* remove_dir_all leaves a smaller representation or nothing at all.
LEMMA ShrinkType ==
  ASSUME NEW r \in Rep
  PROVE  Shrink(r) \subseteq Rep \cup {None}
<1>1. CASE r.shape = 0 \/ r.rows = NoRows
  BY <1>1 DEF Shrink
<1>2. CASE ~(r.shape = 0 \/ r.rows = NoRows)
  <2>1. SUFFICES ASSUME NEW s
                 PROVE  [r EXCEPT !.rows = Patch(r.rows, NoRows, r.shape, s)] \in Rep
    BY <1>2 DEF Shrink
  <2>2. r.rows \in Rows /\ Patch(r.rows, NoRows, r.shape, s) \in Rows
    BY RowsTypes DEF Rep
  <2> QED
    BY <2>2 DEF Rep
<1> QED
  BY <1>1, <1>2

\* A record is something, and so is a representation.
LEMMA SomeFile == (\A r \in Rep : r # None) /\ (\A r \in Record : r # None)
BY NoFileAssumption

-----------------------------------------------------------------------------
(* Types *)

\* An idle process and an empty transaction directory have their types.
LEMMA NothingTypes == NoTxn \in TxnType /\ NoJob \in JobType
BY RowsTypes, LevelsAssumption
DEF NoTxn, TxnType, NoJob, JobType, Kinds, Choices

\* Before the first operation every variable has its type.
LEMMA InitType == Init => TypeOK
<1> SUFFICES ASSUME Init PROVE TypeOK
  OBVIOUS
<1>1. truth \in Rows
  BY RowsTypes DEF Init, Rep, Entries
<1> QED
  BY <1>1, NothingTypes DEF Init, TypeOK, PCs

\* A complete load yields an entry set.
LEMMA EntriesType == TypeOK => Entries(live) \in Rows
BY RowsTypes DEF TypeOK, Entries, Rep

\* Starting, ending and moving on keep the types.
LEMMA StartType ==
  ASSUME TypeOK, NEW p \in Procs, NEW l \in PCs, NEW j \in JobType, Start(p, l, j)
  PROVE  owner' \in Procs \cup {None} /\ pc' \in [Procs -> PCs] /\ job' \in [Procs -> JobType]
BY DEF TypeOK, Start

\* Dropping the RepoLock keeps the types.
LEMMA ReleaseType ==
  ASSUME TypeOK, NEW p \in Procs, Release(p)
  PROVE  owner' \in Procs \cup {None} /\ pc' \in [Procs -> PCs] /\ job' \in [Procs -> JobType]
BY NothingTypes DEF TypeOK, Release, PCs

\* Moving on to the next statement keeps the types.
LEMMA GotoType ==
  ASSUME TypeOK, NEW p \in Procs, NEW l \in PCs, Goto(p, l)
  PROVE  pc' \in [Procs -> PCs]
BY DEF TypeOK, Goto

\* Every step keeps the types.  The protocol is needed where a step uses a
\* representation without looking: the live lock in WriteRecord, the staged
\* copy in RenamePromote, the candidate in Restore.
LEMMA StepType ==
  ASSUME IInv, NEW p \in Procs, Work(p) \/ Request(p) \/ Abort(p)
  PROVE  TypeOK'
<1> USE DEF IInv, Protocol
<1>1. ASSUME NEW d \in Levels, BeginReshape(p, d)
      PROVE  TypeOK'
  <2>1. [NoJob EXCEPT !.kind = "reshape", !.target = d] \in JobType
    BY NothingTypes DEF JobType, Kinds
  <2> QED
    BY <1>1, <2>1, GotoType DEF BeginReshape, TypeOK, PCs
<1>2. CASE ConfirmReshape(p)
  <2>1. live \in Rep
    BY <1>2 DEF ConfirmReshape, OnDiskShape, TypeOK
  <2>2. [job[p] EXCEPT !.want = live.rows, !.doomed = Dirs] \in JobType
    BY <2>1 DEF JobType, Rep, Dirs, TypeOK
  <2> QED
    BY <1>2, <2>2, StartType DEF ConfirmReshape, TypeOK, PCs
<1>3. CASE DeclineReshape(p) \/ TimeOut(p)
  BY <1>3, GotoType, NothingTypes DEF DeclineReshape, TimeOut, TypeOK, PCs
<1>4. CASE RemovePiece(p)
  <2>1. PICK t \in job[p].doomed :
       \/ /\ Prepared(t)
          /\ txn' = [txn EXCEPT ![t].record = None]
          /\ UNCHANGED job
       \/ /\ \E part \in {"new", "backup", "replaced"} :
               /\ txn[t][part] # None
               /\ \E r \in Shrink(txn[t][part]) :
                    txn' = [txn EXCEPT ![t] = [@ EXCEPT ![part] = r]]
          /\ UNCHANGED job
       \/ /\ txn' = [txn EXCEPT ![t] = NoTxn]
          /\ job' = [job EXCEPT ![p].doomed = @ \ {t}]
    BY <1>4 DEF RemovePiece
  <2>2. t \in Txns /\ txn[t] \in TxnType
    BY DEF TypeOK, JobType
  <2>3. CASE txn' = [txn EXCEPT ![t].record = None] /\ UNCHANGED job
    BY <1>4, <2>2, <2>3 DEF RemovePiece, TypeOK, TxnType
  <2>4. ASSUME NEW part \in {"new", "backup", "replaced"},
               txn[t][part] # None,
               NEW r \in Shrink(txn[t][part]),
               txn' = [txn EXCEPT ![t] = [@ EXCEPT ![part] = r]],
               UNCHANGED job
        PROVE  TypeOK'
    <3>1. txn[t][part] \in Rep
      BY <2>2, <2>4 DEF TxnType
    <3>2. r \in Rep \cup {None}
      BY <3>1, ShrinkType
    <3>3. [txn[t] EXCEPT ![part] = r] \in TxnType
      BY <2>2, <3>2 DEF TxnType
    <3> QED
      BY <1>4, <2>2, <2>4, <3>3 DEF RemovePiece, TypeOK
  <2>5. CASE /\ txn' = [txn EXCEPT ![t] = NoTxn]
             /\ job' = [job EXCEPT ![p].doomed = @ \ {t}]
    <3>1. [job[p] EXCEPT !.doomed = @ \ {t}] \in JobType
      BY DEF TypeOK, JobType
    <3> QED
      BY <1>4, <2>2, <2>5, <3>1, NothingTypes DEF RemovePiece, TypeOK
  <2> QED
    BY <2>1, <2>3, <2>4, <2>5
<1>5. CASE OpenTxn(p)
  <2>1. PICK t \in Txns :
         /\ txn' = [txn EXCEPT ![t] = [NoTxn EXCEPT !.dir = TRUE, !.goal = job[p].want]]
         /\ job' = [job EXCEPT ![p].txn = t]
    BY <1>5 DEF OpenTxn
  <2>2. job[p] \in JobType
    BY DEF TypeOK
  <2>3. [NoTxn EXCEPT !.dir = TRUE, !.goal = job[p].want] \in TxnType
    BY <2>2, NothingTypes DEF JobType, TxnType
  <2>4. [job[p] EXCEPT !.txn = t] \in JobType
    BY <2>2 DEF JobType
  <2> QED
    BY <1>5, <2>1, <2>3, <2>4, GotoType DEF OpenTxn, TypeOK, PCs
<1>6. CASE StageRoot(p)
  <2> DEFINE t == job[p].txn
             todo == IF job[p].target = 0 THEN {} ELSE ShardsOf(job[p].want, job[p].target)
             copy == [shape |-> job[p].target,
                      rows |-> IF job[p].target = 0 THEN job[p].want ELSE NoRows]
  <2>1. job[p] \in JobType /\ t \in Txns /\ txn[t] \in TxnType
    BY <1>6 DEF TypeOK, StageRoot, Staging
  <2>2. copy \in Rep
    BY <2>1, RowsTypes DEF JobType, Rep
  <2>3. [txn[t] EXCEPT !.new = copy] \in TxnType
    BY <2>1, <2>2 DEF TxnType
  <2>4. todo \in SUBSET Shards
    BY DEF ShardsOf
  <2>5. [job[p] EXCEPT !.todo = todo] \in JobType
    BY <2>1, <2>4 DEF JobType
  <2>6. /\ txn' = [txn EXCEPT ![t].new = copy]
        /\ job' = [job EXCEPT ![p].todo = todo]
        /\ UNCHANGED <<live, owner, pc, truth>>
    BY <1>6 DEF StageRoot
  <2> QED
    BY <2>1, <2>3, <2>5, <2>6 DEF TypeOK
<1>7. ASSUME NEW s \in Shards, StageShard(p, s)
      PROVE  TypeOK'
  <2> DEFINE t == job[p].txn
             rows == Patch(txn[t].new.rows, job[p].want, job[p].target, s)
  <2>1. job[p] \in JobType /\ t \in Txns /\ txn[t] \in TxnType
    BY <1>7 DEF TypeOK, StageShard, Staging
  <2>2. txn[t].new \in Rep
    BY <1>7, <2>1 DEF StageShard, TxnType
  <2>3. [txn[t].new EXCEPT !.rows = rows] \in Rep
    BY <2>1, <2>2, RowsTypes DEF Rep, JobType
  <2>4. [txn[t] EXCEPT !.new = [txn[t].new EXCEPT !.rows = rows]] \in TxnType
    BY <2>1, <2>3 DEF TxnType
  <2>5. [job[p] EXCEPT !.todo = @ \ {s}] \in JobType
    BY <2>1 DEF JobType
  <2>6. /\ txn' = [txn EXCEPT ![t] =
                     [txn[t] EXCEPT !.new = [txn[t].new EXCEPT !.rows = rows]]]
        /\ job' = [job EXCEPT ![p] = [job[p] EXCEPT !.todo = @ \ {s}]]
        /\ UNCHANGED <<live, owner, pc, truth>>
    BY <1>7 DEF StageShard
  <2> QED
    BY <2>1, <2>4, <2>5, <2>6 DEF TypeOK
<1>8. CASE ValidateStaged(p) \/ RefuseStaged(p) \/ EndSave(p) \/ EndClean(p)
  BY <1>8, GotoType, ReleaseType
  DEF ValidateStaged, RefuseStaged, EndSave, EndClean, TypeOK, PCs
<1>9. CASE WriteRecord(p)
  <2> DEFINE t == job[p].txn
             r == [src |-> live.shape, tgt |-> job[p].target]
  <2>1. job[p] \in JobType /\ t \in Txns /\ txn[t] \in TxnType /\ live \in Rep
    BY <1>9 DEF TypeOK, WriteRecord, Staging, LiveNeeded
  <2>2. r \in Record
    BY <2>1 DEF Record, Rep, JobType
  <2>3. [txn[t] EXCEPT !.record = r] \in TxnType
    BY <2>1, <2>2 DEF TxnType
  <2>4. txn' = [txn EXCEPT ![t] = [txn[t] EXCEPT !.record = r]]
    BY <1>9 DEF WriteRecord
  <2> QED
    BY <1>9, <2>1, <2>3, <2>4, GotoType DEF WriteRecord, TypeOK, PCs
<1>10. CASE RenameAside(p)
  <2> DEFINE t == job[p].txn
  <2>1. t \in Txns /\ txn[t] \in TxnType
    BY <1>10 DEF TypeOK, RenameAside, Staging
  <2>2. [txn[t] EXCEPT !.backup = live] \in TxnType
    BY <2>1 DEF TypeOK, TxnType
  <2>3. txn' = [txn EXCEPT ![t] = [txn[t] EXCEPT !.backup = live]]
    BY <1>10 DEF RenameAside
  <2> QED
    BY <1>10, <2>1, <2>2, <2>3, GotoType DEF RenameAside, TypeOK, PCs
<1>11. CASE RenamePromote(p)
  <2> DEFINE t == job[p].txn
  <2>1. t \in Txns /\ txn[t] \in TxnType /\ txn[t].new # None
    BY <1>11 DEF TypeOK, RenamePromote, Staging
  <2>2. txn[t].new \in Rep /\ txn[t].new.rows \in Rows
    BY <2>1 DEF TxnType, Rep
  <2>3. [txn[t] EXCEPT !.new = None] \in TxnType
    BY <2>1 DEF TxnType
  <2>4. [job[p] EXCEPT !.doomed = {t}] \in JobType
    BY <2>1 DEF TypeOK, JobType
  <2>5. /\ txn' = [txn EXCEPT ![t] = [txn[t] EXCEPT !.new = None]]
        /\ job' = [job EXCEPT ![p] = [job[p] EXCEPT !.doomed = {t}]]
    BY <1>11 DEF RenamePromote
  <2> QED
    BY <1>11, <2>1, <2>2, <2>3, <2>4, <2>5, GotoType DEF RenamePromote, TypeOK, PCs
<1>12. CASE EndTidy(p)
  <2>1. CASE job[p].kind = "publish"
    <3>1. [job[p] EXCEPT !.doomed = {}, !.txn = None] \in JobType
      BY DEF TypeOK, JobType
    <3>2. job' = [job EXCEPT ![p] = [job[p] EXCEPT !.doomed = {}, !.txn = None]]
      BY <1>12, <2>1 DEF EndTidy, TypeOK
    <3> QED
      BY <1>12, <2>1, <3>1, <3>2, GotoType DEF EndTidy, TypeOK, PCs
  <2>2. CASE job[p].kind # "publish"
    BY <1>12, <2>2, ReleaseType DEF EndTidy, TypeOK
  <2> QED
    BY <2>1, <2>2
<1>13. CASE DropEmpty(p) \/ ClearDir(p)
  BY <1>13, ReleaseType, RowsTypes DEF DropEmpty, ClearDir, TypeOK
<1>14. CASE WriteFlat(p)
  <2>1. job[p].want \in Rows
    BY DEF TypeOK, JobType
  <2>2. [shape |-> 0, rows |-> job[p].want] \in Rep
    BY <2>1, LevelsAssumption DEF Rep
  <2> QED
    BY <1>14, <2>1, <2>2, ReleaseType DEF WriteFlat, TypeOK
<1>15. CASE MakeDir(p)
  <2> DEFINE d == job[p].target
             todo == Touched(Entries(live), job[p].want, d)
  <2>1. job[p] \in JobType
    BY DEF TypeOK
  <2>2. [shape |-> d, rows |-> Entries(live)] \in Rep
    BY <2>1, EntriesType DEF Rep, JobType
  <2>3. [job[p] EXCEPT !.todo = todo] \in JobType
    BY <2>1 DEF JobType, Touched
  <2>4. live' = [shape |-> d, rows |-> Entries(live)]
        /\ job' = [job EXCEPT ![p] = [job[p] EXCEPT !.todo = todo]]
    BY <1>15 DEF MakeDir
  <2> QED
    BY <1>15, <2>2, <2>3, <2>4, GotoType DEF MakeDir, TypeOK, PCs
<1>16. ASSUME NEW s \in Shards, SaveShard(p, s)
       PROVE  TypeOK'
  <2> DEFINE d == job[p].target
  <2>1. job[p] \in JobType /\ live \in Rep
    BY <1>16 DEF TypeOK, SaveShard, LiveNeeded
  <2>2. Patch(live.rows, job[p].want, d, s) \in Rows /\ Patch(truth, job[p].want, d, s) \in Rows
    BY <2>1, RowsTypes DEF TypeOK, JobType, Rep
  <2>3. [live EXCEPT !.rows = Patch(live.rows, job[p].want, d, s)] \in Rep
    BY <2>1, <2>2 DEF Rep
  <2>4. [job[p] EXCEPT !.todo = @ \ {s}] \in JobType
    BY <2>1 DEF JobType
  <2>5. /\ live' = [live EXCEPT !.rows = Patch(live.rows, job[p].want, d, s)]
        /\ truth' = Patch(truth, job[p].want, d, s)
        /\ job' = [job EXCEPT ![p] = [job[p] EXCEPT !.todo = @ \ {s}]]
        /\ UNCHANGED <<txn, owner, pc>>
    BY <1>16 DEF SaveShard
  <2> QED
    BY <2>2, <2>3, <2>4, <2>5 DEF TypeOK
<1>17. CASE Displace(p)
  <2> DEFINE t == job[p].txn
  <2>1. t \in Txns /\ txn[t] \in TxnType
    BY <1>17 DEF TypeOK, Displace, Recovering
  <2>2. [txn[t] EXCEPT !.replaced = live] \in TxnType
    BY <2>1 DEF TypeOK, TxnType
  <2>3. txn' = [txn EXCEPT ![t] = [txn[t] EXCEPT !.replaced = live]]
    BY <1>17 DEF Displace
  <2> QED
    BY <1>17, <2>1, <2>2, <2>3, GotoType DEF Displace, TypeOK, PCs
<1>18. CASE Restore(p)
  <2> DEFINE t == job[p].txn
             c == job[p].choice
  <2>1. t \in Txns /\ txn[t] \in TxnType /\ c \in Choices /\ txn[t][c] # None
    BY <1>18 DEF TypeOK, Restore, Recovering, JobType
  <2>2. txn[t][c] \in Rep /\ txn[t][c].rows \in Rows
    BY <2>1 DEF TxnType, Rep, Choices
  <2>3. [txn[t] EXCEPT ![c] = None] \in TxnType
    BY <2>1 DEF TxnType, Choices
  <2> QED
    BY <1>18, <2>1, <2>2, <2>3, ReleaseType DEF Restore, TypeOK
<1>19. ASSUME NEW m \in Rows, NEW d \in Levels, PublishComplete(p, m, d) \/ PublishSparse(p, m, d)
       PROVE  TypeOK'
  <2>1. /\ [NoJob EXCEPT !.kind = "publish", !.want = m, !.target = d] \in JobType
        /\ [NoJob EXCEPT !.kind = "sparse", !.want = m, !.target = d] \in JobType
        /\ [[NoJob EXCEPT !.kind = "publish", !.want = m, !.target = d]
              EXCEPT !.doomed = Dirs] \in JobType
    BY NothingTypes DEF JobType, Kinds, Dirs
  <2> QED
    BY <1>19, <2>1, StartType DEF PublishComplete, PublishSparse, TypeOK, PCs
<1>20. ASSUME NEW t \in Txns, NEW c \in Choices, BeginRecover(p, t, c)
       PROVE  TypeOK'
  <2>1. [NoJob EXCEPT !.kind = "recover", !.txn = t, !.choice = c] \in JobType
    BY NothingTypes DEF JobType, Kinds
  <2> QED
    BY <1>20, <2>1, StartType DEF BeginRecover, TypeOK, PCs
<1>21. CASE BeginClean(p)
  <2>1. [NoJob EXCEPT !.kind = "clean", !.doomed = {t \in Txns : Disposable(t)}] \in JobType
    BY NothingTypes DEF JobType, Kinds
  <2> QED
    BY <1>21, <2>1, StartType DEF BeginClean, TypeOK, PCs
<1>22. CASE Abort(p)
  BY <1>22, GotoType, NothingTypes DEF Abort, TypeOK, PCs
<1> QED
  BY <1>1, <1>2, <1>3, <1>4, <1>5, <1>6, <1>7, <1>8, <1>9, <1>10, <1>11, <1>12, <1>13,
     <1>14, <1>15, <1>16, <1>17, <1>18, <1>19, <1>20, <1>21, <1>22
  DEF Work, Request

-----------------------------------------------------------------------------
(* Mutual exclusion: what a step of one process leaves alone. *)

\* A step touches nobody else's program counter or local variables, and the
\* disk only while its process holds the RepoLock.
LEMMA StepFrame ==
  ASSUME IInv, NEW p \in Procs, Work(p) \/ Request(p) \/ Abort(p)
  PROVE  /\ \A q \in Procs \ {p} : pc'[q] = pc[q] /\ job'[q] = job[q]
         /\ pc[p] \in {"idle", "wait"} => UNCHANGED <<live, txn, truth>>
<1> DEFINE Framed == /\ \A q \in Procs \ {p} : pc'[q] = pc[q] /\ job'[q] = job[q]
                     /\ pc[p] \in {"idle", "wait"} => UNCHANGED <<live, txn, truth>>
<1> USE DEF IInv, TypeOK
<1>1. CASE \/ \E d \in Levels : BeginReshape(p, d)
           \/ ConfirmReshape(p) \/ DeclineReshape(p) \/ TimeOut(p) \/ Abort(p)
  BY <1>1 DEF BeginReshape, ConfirmReshape, DeclineReshape, TimeOut, Abort, Start, Goto
<1>2. CASE RemovePiece(p)
  BY <1>2 DEF RemovePiece
<1>3. CASE OpenTxn(p) \/ StageRoot(p) \/ (\E s \in Shards : StageShard(p, s))
  BY <1>3 DEF OpenTxn, StageRoot, StageShard, Goto
<1>4. CASE \/ ValidateStaged(p) \/ RefuseStaged(p) \/ WriteRecord(p)
           \/ RenameAside(p) \/ RenamePromote(p)
  BY <1>4 DEF ValidateStaged, RefuseStaged, Staged, WriteRecord, RenameAside,
              RenamePromote, Goto, Release
<1>5. CASE EndTidy(p) \/ EndSave(p) \/ EndClean(p)
  BY <1>5 DEF EndTidy, EndSave, EndClean, Goto, Release
<1>6. CASE \/ DropEmpty(p) \/ ClearDir(p) \/ WriteFlat(p) \/ MakeDir(p)
           \/ \E s \in Shards : SaveShard(p, s)
  BY <1>6 DEF DropEmpty, ClearDir, WriteFlat, MakeDir, SaveShard, Goto, Release
<1>7. CASE Displace(p) \/ Restore(p)
  BY <1>7 DEF Displace, Restore, Goto, Release
<1>8. CASE \E m \in Rows, d \in Levels : PublishComplete(p, m, d) \/ PublishSparse(p, m, d)
  BY <1>8 DEF PublishComplete, PublishSparse, Start
<1>9. CASE \/ \E t \in Txns, c \in Choices : BeginRecover(p, t, c)
           \/ BeginClean(p)
  BY <1>9 DEF BeginRecover, BeginClean, Start
<1> QED
  BY <1>1, <1>2, <1>3, <1>4, <1>5, <1>6, <1>7, <1>8, <1>9 DEF Work, Request

\* RepoLock is exclusive, whoever dies.
LEMMA StepMutex ==
  ASSUME IInv, NEW p \in Procs, Work(p) \/ Request(p) \/ Abort(p)
  PROVE  Mutex'
<1> USE DEF IInv, TypeOK, Mutex
<1>1. CASE (\E d \in Levels : BeginReshape(p, d)) \/ DeclineReshape(p) \/ TimeOut(p)
  BY <1>1 DEF BeginReshape, DeclineReshape, TimeOut, Goto
<1>2. ASSUME NEW l \in PCs \ {"idle", "wait"}, NEW j, Start(p, l, j)
      PROVE  Mutex'
  BY <1>2, NoneAssumption DEF Start
<1>3. CASE Release(p) /\ owner = p
  BY <1>3, NoneAssumption DEF Release
<1>4. CASE Abort(p)
  BY <1>4, NoneAssumption DEF Abort, Goto
<1>5. ASSUME pc[p] \notin {"idle", "wait"}, UNCHANGED owner,
             UNCHANGED pc \/ \E l \in PCs \ {"idle", "wait"} : Goto(p, l)
      PROVE  Mutex'
  BY <1>5 DEF Goto
<1>6. CASE RemovePiece(p) \/ OpenTxn(p) \/ StageRoot(p) \/ (\E s \in Shards : StageShard(p, s))
  BY <1>5, <1>6 DEF RemovePiece, OpenTxn, StageRoot, StageShard, PCs
<1>7. CASE ValidateStaged(p) \/ WriteRecord(p) \/ RenameAside(p) \/ RenamePromote(p)
  BY <1>5, <1>7 DEF ValidateStaged, Staged, WriteRecord, RenameAside, RenamePromote, PCs
<1>8. CASE EndTidy(p)
  BY <1>3, <1>5, <1>8 DEF EndTidy, PCs
<1>9. CASE ClearDir(p) \/ MakeDir(p) \/ (\E s \in Shards : SaveShard(p, s)) \/ Displace(p)
  BY <1>5, <1>9 DEF ClearDir, MakeDir, SaveShard, Displace, PCs
<1>10. CASE \/ RefuseStaged(p) \/ DropEmpty(p) \/ WriteFlat(p) \/ EndSave(p)
            \/ Restore(p) \/ EndClean(p)
  BY <1>3, <1>10 DEF RefuseStaged, Staged, DropEmpty, WriteFlat, EndSave, Restore, EndClean
<1>11. CASE ConfirmReshape(p) \/ BeginClean(p)
  BY <1>2, <1>11 DEF ConfirmReshape, BeginClean, PCs
<1>12. CASE \E m \in Rows, d \in Levels : PublishComplete(p, m, d) \/ PublishSparse(p, m, d)
  BY <1>2, <1>12 DEF PublishComplete, PublishSparse, PCs
<1>13. CASE \E t \in Txns, c \in Choices : BeginRecover(p, t, c)
  BY <1>2, <1>13 DEF BeginRecover, PCs
<1> QED
  BY <1>1, <1>4, <1>6, <1>7, <1>8, <1>9, <1>10, <1>11, <1>12, <1>13 DEF Work, Request

-----------------------------------------------------------------------------
(* Safety: what a step does to the entries. *)

\* An unchanged disk is as consistent as before.
LEMMA SameDisk ==
  ASSUME Consistent, UNCHANGED <<live, txn, truth>>
  PROVE  Consistent'
BY DEF Consistent, BackedUp, Prepared, CandidateValid, Expected, OnDiskShape

\* While the lock is readable, transaction scratch does not matter.
LEMMA LiveConsistent ==
  ASSUME Consistent, live # None, UNCHANGED <<live, truth>>
  PROVE  Consistent'
BY DEF Consistent

\* Deleting part of a condemned directory never touches the backup that a
\* missing lock is to be recovered from.
LEMMA RemovePieceConsistent ==
  ASSUME IInv, NEW p \in Procs, RemovePiece(p)
  PROVE  Consistent'
<1> USE DEF IInv, Protocol
<1>1. UNCHANGED <<live, truth>>
  BY DEF RemovePiece
<1>2. CASE live # None
  BY <1>1, <1>2, LiveConsistent
<1>3. CASE live = None
  <2>1. \A t \in job[p].doomed : ~Prepared(t)
    BY <1>3 DEF RemovePiece, LiveNeeded
  <2>2. \A u \in Txns \ job[p].doomed : txn'[u] = txn[u]
    BY DEF RemovePiece, TypeOK
  <2>3. SUFFICES ASSUME truth # NoRows PROVE BackedUp'
    BY <1>1, <1>3 DEF Consistent
  <2>4. PICK u \in Txns : /\ Prepared(u)
                          /\ txn[u].backup # None
                          /\ txn[u].backup.rows = truth
                          /\ CandidateValid(u, "backup")
    BY <1>3, <2>3 DEF Consistent, BackedUp
  <2>5. txn'[u] = txn[u]
    BY <2>1, <2>2, <2>4
  <2> QED
    BY <1>1, <2>4, <2>5 DEF BackedUp, Prepared, CandidateValid, Expected
<1> QED
  BY <1>2, <1>3

\* The first commit rename makes the published lock its own backup.
LEMMA RenameAsideConsistent ==
  ASSUME IInv, NEW p \in Procs, RenameAside(p)
  PROVE  Consistent'
<1> USE DEF IInv, Protocol
<1>t. PICK t \in Txns : t = job[p].txn
  BY DEF RenameAside, Staging
<1>1. txn[t] \in TxnType /\ live # None /\ live.rows = truth
  BY DEF RenameAside, LiveNeeded, Consistent, TypeOK
<1>2. Prepared(t) /\ txn[t].record.src = live.shape
  BY <1>t DEF RenameAside, Recorded
<1>3. /\ txn'[t].record = txn[t].record
      /\ txn'[t].backup = live
      /\ truth' = truth
      /\ live' = None
  BY <1>t, <1>1 DEF RenameAside, TypeOK, TxnType
<1>4. SUFFICES ASSUME truth # NoRows PROVE BackedUp'
  BY <1>3 DEF Consistent
<1>5. OnDiskShape(live) = live.shape
  BY <1>1, <1>4 DEF OnDiskShape
<1>6. CandidateValid(t, "backup")'
  BY <1>2, <1>3, <1>5 DEF CandidateValid, Expected, OnDiskShape
<1> QED
  BY <1>1, <1>2, <1>3, <1>6 DEF BackedUp, Prepared

\* Every step of every operation leaves the disk recoverable.
LEMMA StepConsistent ==
  ASSUME IInv, NEW p \in Procs, Work(p) \/ Request(p) \/ Abort(p)
  PROVE  Consistent'
<1> USE DEF IInv, Protocol
<1>1. CASE \/ \E d \in Levels : BeginReshape(p, d)
           \/ ConfirmReshape(p) \/ DeclineReshape(p) \/ TimeOut(p) \/ Abort(p)
  BY <1>1, SameDisk DEF BeginReshape, ConfirmReshape, DeclineReshape, TimeOut, Abort
<1>2. CASE \/ ValidateStaged(p) \/ RefuseStaged(p) \/ EndTidy(p) \/ EndSave(p) \/ EndClean(p)
  BY <1>2, SameDisk DEF ValidateStaged, RefuseStaged, EndTidy, EndSave, EndClean
<1>3. CASE \/ \E m \in Rows, d \in Levels : PublishComplete(p, m, d) \/ PublishSparse(p, m, d)
           \/ \E t \in Txns, c \in Choices : BeginRecover(p, t, c)
           \/ BeginClean(p)
  BY <1>3, SameDisk DEF PublishComplete, PublishSparse, BeginRecover, BeginClean
<1>4. CASE \/ OpenTxn(p) \/ StageRoot(p) \/ (\E s \in Shards : StageShard(p, s))
           \/ WriteRecord(p)
  BY <1>4, LiveConsistent DEF OpenTxn, StageRoot, StageShard, WriteRecord, LiveNeeded
<1>5. CASE RenamePromote(p)
  <2>1. txn[job[p].txn].new # None
    BY <1>5 DEF RenamePromote, Staging
  <2> QED
    BY <1>5, <2>1 DEF RenamePromote, Consistent
<1>6. CASE DropEmpty(p)
  BY <1>6 DEF DropEmpty, Consistent
<1>7. CASE ClearDir(p)
  BY <1>7 DEF ClearDir, Consistent, InPlace, IsDir
<1>8. CASE WriteFlat(p)
  <2>1. [shape |-> 0, rows |-> job[p].want] # None
    BY SomeFile, LevelsAssumption DEF TypeOK, JobType, Rep
  <2> QED
    BY <1>8, <2>1 DEF WriteFlat, Consistent
<1>9. CASE MakeDir(p)
  <2>1. [shape |-> job[p].target, rows |-> Entries(live)] # None
    BY SomeFile, EntriesType DEF TypeOK, JobType, Rep
  <2>2. Entries(live) = truth
    BY <1>9 DEF MakeDir, Entries, Consistent, InPlace
  <2> QED
    BY <1>9, <2>1, <2>2 DEF MakeDir, Consistent
<1>10. ASSUME NEW s \in Shards, SaveShard(p, s)
       PROVE  Consistent'
  <2>1. live \in Rep /\ live' \in Rep \cup {None} /\ live.rows = truth
    BY <1>10, StepType DEF SaveShard, LiveNeeded, TypeOK, Consistent, Work
  <2>2. live' = [live EXCEPT !.rows = Patch(truth, job[p].want, job[p].target, s)]
    BY <1>10, <2>1 DEF SaveShard
  <2>3. live'.rows = truth'
    BY <1>10, <2>1, <2>2 DEF SaveShard, Rep
  <2>4. live' # None
    BY <1>10, <2>1, <2>2, SomeFile, RowsTypes DEF Rep, TypeOK, JobType
  <2> QED
    BY <2>3, <2>4 DEF Consistent
<1>11. CASE Displace(p)
  BY <1>11 DEF Displace, Consistent, LiveNeeded
<1>12. CASE Restore(p)
  BY <1>12 DEF Restore, Recovering, Consistent
<1> QED
  BY <1>1, <1>2, <1>3, <1>4, <1>5, <1>6, <1>7, <1>8, <1>9, <1>10, <1>11, <1>12,
     RemovePieceConsistent, RenameAsideConsistent
  DEF Work, Request

-----------------------------------------------------------------------------
(* The protocol: what the holder of the RepoLock may rely on. *)

\* A process outside every operation relies on nothing.
LEMMA Outside ==
  ASSUME NEW q \in Procs, pc'[q] \in {"idle", "wait"},
         job'[q].kind = "reshape" => pc'[q] = "wait"
  PROVE  Protocol(q)'
BY DEF Protocol, Staging, Recorded, LiveNeeded, InPlace, Recovering, Reshaping

\* Nobody disturbs what another process relies on.
LEMMA StepOthers ==
  ASSUME IInv, NEW p \in Procs, Work(p) \/ Request(p) \/ Abort(p),
         NEW q \in Procs \ {p}
  PROVE  Protocol(q)'
<1>1. pc'[q] = pc[q] /\ job'[q] = job[q] /\ Protocol(q)
  BY StepFrame DEF IInv
<1>2. CASE pc[q] \in {"idle", "wait"}
  BY <1>1, <1>2, Outside DEF Protocol, Reshaping
<1>3. CASE pc[q] \notin {"idle", "wait"}
  <2>1. pc[p] \in {"idle", "wait"}
    BY <1>3 DEF IInv, Mutex
  <2>2. UNCHANGED <<live, txn, truth>>
    BY <2>1, StepFrame
  <2> QED
    BY <1>1, <2>2 DEF Protocol, Staging, Recorded, LiveNeeded, InPlace, Recovering,
                      Reshaping, Prepared, IsDir
<1> QED
  BY <1>2, <1>3

\* An operation that ends leaves nothing to rely on.
LEMMA ReleaseProtocol ==
  ASSUME TypeOK, NEW p \in Procs, Release(p) \/ (Goto(p, "idle") /\ job' = [job EXCEPT ![p] = NoJob])
  PROVE  Protocol(p)'
<1>1. pc'[p] = "idle" /\ job'[p] = NoJob
  BY DEF Release, Goto, TypeOK
<1> QED
  BY <1>1, Outside DEF NoJob

\* The steps of reshape_transactional.
LEMMA ReshapeProtocol ==
  ASSUME IInv, NEW p \in Procs,
         \/ ConfirmReshape(p) \/ RemovePiece(p) \/ OpenTxn(p) \/ StageRoot(p)
         \/ \E s \in Shards : StageShard(p, s)
         \/ ValidateStaged(p) \/ WriteRecord(p) \/ RenameAside(p) \/ RenamePromote(p)
         \/ EndTidy(p)
  PROVE  Protocol(p)'
<1> USE DEF IInv, TypeOK, Protocol
<1>j. job[p] \in JobType /\ pc[p] \in PCs
  OBVIOUS
<1>1. CASE ConfirmReshape(p)
  <2>1. live # None /\ live.rows = truth
    BY <1>1 DEF ConfirmReshape, OnDiskShape, Consistent
  <2>2. /\ pc'[p] = "sweep"
        /\ job'[p] = [job[p] EXCEPT !.want = live.rows, !.doomed = Dirs]
        /\ UNCHANGED <<live, txn, truth>>
    BY <1>1 DEF ConfirmReshape, Start
  <2> QED
    BY <1>j, <2>1, <2>2
    DEF JobType, Staging, Recorded, LiveNeeded, InPlace, Recovering, Reshaping
<1>2. CASE RemovePiece(p)
  <2>1. pc'[p] = pc[p] /\ pc[p] \in {"sweep", "tidy", "clean"} /\ UNCHANGED <<live, truth>>
    BY <1>2 DEF RemovePiece
  <2>2. /\ job'[p].doomed \subseteq job[p].doomed
        /\ job'[p].kind = job[p].kind
        /\ job'[p].want = job[p].want
        /\ job'[p].target = job[p].target
    BY <1>2, <1>j DEF RemovePiece, JobType
  <2>3. \A t \in Txns : Prepared(t)' => Prepared(t)
    <3>1. PICK t \in job[p].doomed :
           \/ txn' = [txn EXCEPT ![t].record = None]
           \/ \E part \in {"new", "backup", "replaced"} :
                 \E r \in Shrink(txn[t][part]) :
                    txn' = [txn EXCEPT ![t] = [@ EXCEPT ![part] = r]]
           \/ txn' = [txn EXCEPT ![t] = NoTxn]
      BY <1>2 DEF RemovePiece
    <3>2. t \in Txns /\ txn[t] \in TxnType
      BY <1>j DEF JobType
    <3>3. CASE txn' = [txn EXCEPT ![t].record = None]
      BY <3>2, <3>3 DEF Prepared, TxnType
    <3>4. CASE \E part \in {"new", "backup", "replaced"} :
                 \E r \in Shrink(txn[t][part]) :
                    txn' = [txn EXCEPT ![t] = [@ EXCEPT ![part] = r]]
      BY <3>2, <3>4 DEF Prepared, TxnType
    <3>5. CASE txn' = [txn EXCEPT ![t] = NoTxn]
      BY <3>2, <3>5 DEF Prepared, NoTxn
    <3> QED
      BY <3>1, <3>3, <3>4, <3>5
  <2>4. job[p].doomed \subseteq Txns
    BY <1>j DEF JobType
  <2> QED
    BY <2>1, <2>2, <2>3, <2>4
    DEF Staging, Recorded, LiveNeeded, InPlace, Recovering, Reshaping
<1>3. CASE OpenTxn(p)
  <2>1. PICK t \in Txns :
         /\ txn' = [txn EXCEPT ![t] = [NoTxn EXCEPT !.dir = TRUE, !.goal = job[p].want]]
         /\ job' = [job EXCEPT ![p].txn = t]
    BY <1>3 DEF OpenTxn
  <2>2. /\ pc[p] = "sweep" /\ pc'[p] = "stage" /\ UNCHANGED <<live, truth>>
        /\ job'[p] = [job[p] EXCEPT !.txn = t]
        /\ txn'[t].new = None
    BY <1>3, <2>1 DEF OpenTxn, Goto, NoTxn
  <2> QED
    BY <1>j, <2>2
    DEF JobType, Staging, Recorded, LiveNeeded, InPlace, Recovering, Reshaping
<1>4. CASE StageRoot(p)
  <2>1. job[p].txn \in Txns /\ txn[job[p].txn] \in TxnType
    BY <1>4 DEF StageRoot, Staging
  <2>2. /\ pc[p] = "stage" /\ UNCHANGED <<live, pc, truth>>
        /\ \E todo : job'[p] = [job[p] EXCEPT !.todo = todo]
        /\ txn'[job[p].txn].new.shape = job[p].target
    BY <1>4, <2>1 DEF StageRoot, TxnType
  <2> QED
    BY <1>j, <2>1, <2>2
    DEF JobType, Staging, Recorded, LiveNeeded, InPlace, Recovering, Reshaping
<1>5. ASSUME NEW s \in Shards, StageShard(p, s)
      PROVE  Protocol(p)'
  <2>1. job[p].txn \in Txns /\ txn[job[p].txn] \in TxnType /\ txn[job[p].txn].new \in Rep
    BY <1>5 DEF StageShard, Staging, TxnType
  <2>2. /\ pc[p] = "stage" /\ UNCHANGED <<live, pc, truth>>
        /\ \E todo : job'[p] = [job[p] EXCEPT !.todo = todo]
        /\ txn'[job[p].txn].new.shape = job[p].target
    BY <1>5, <2>1 DEF StageShard, TxnType, Staging, Rep
  <2> QED
    BY <1>j, <2>1, <2>2
    DEF JobType, Staging, Recorded, LiveNeeded, InPlace, Recovering, Reshaping
<1>6. CASE ValidateStaged(p)
  BY <1>6 DEF ValidateStaged, Staged, StagedMatches, Goto, Staging, Recorded, LiveNeeded,
              InPlace, Recovering, Reshaping
<1>7. CASE WriteRecord(p)
  <2> DEFINE r == [src |-> live.shape, tgt |-> job[p].target]
  <2>1. job[p].txn \in Txns /\ txn[job[p].txn] \in TxnType /\ live \in Rep
    BY <1>7 DEF WriteRecord, Staging, LiveNeeded
  <2>2. r # None /\ r.src = live.shape
    BY <1>j, <2>1, SomeFile DEF Record, Rep, JobType
  <2>3. /\ pc[p] = "record" /\ pc'[p] = "aside" /\ UNCHANGED <<live, job, truth>>
        /\ txn'[job[p].txn].record = r
        /\ txn'[job[p].txn].new = txn[job[p].txn].new
    BY <1>7, <2>1 DEF WriteRecord, Goto, TxnType
  <2> HIDE DEF r
  <2> QED
    BY <2>2, <2>3
    DEF Prepared, Staging, Recorded, LiveNeeded, InPlace, Recovering, Reshaping
<1>8. CASE RenameAside(p)
  <2>1. job[p].txn \in Txns /\ txn[job[p].txn] \in TxnType
    BY <1>8 DEF RenameAside, Staging
  <2>2. /\ pc[p] = "aside" /\ pc'[p] = "promote" /\ UNCHANGED <<job, truth>>
        /\ txn'[job[p].txn].new = txn[job[p].txn].new
    BY <1>8, <2>1 DEF RenameAside, Goto, TxnType
  <2> QED
    BY <2>2 DEF Staging, Recorded, LiveNeeded, InPlace, Recovering, Reshaping
<1>9. CASE RenamePromote(p)
  <2>1. /\ pc'[p] = "tidy"
        /\ live' = txn[job[p].txn].new
        /\ job'[p] = [job[p] EXCEPT !.doomed = {job[p].txn}]
    BY <1>9 DEF RenamePromote, Goto
  <2>2. live' # None /\ live'.shape = job[p].target
    BY <1>9, <2>1 DEF RenamePromote, Staging
  <2> QED
    BY <1>j, <1>9, <2>1, <2>2
    DEF RenamePromote, JobType, Staging, Recorded, LiveNeeded, InPlace, Recovering, Reshaping
<1>10. CASE EndTidy(p)
  <2>1. CASE job[p].kind = "publish"
    <3>1. /\ pc'[p] = (IF job[p].target = 0 THEN "flat" ELSE "mkdir")
          /\ job'[p].kind = "publish"
          /\ live' # None
          /\ job[p].target = 0 => ~IsDir(live)'
      BY <1>j, <1>10, <2>1 DEF EndTidy, Goto, LiveNeeded, IsDir, JobType
    <3> QED
      BY <3>1 DEF Staging, Recorded, LiveNeeded, InPlace, Recovering, Reshaping
  <2>2. CASE job[p].kind # "publish"
    BY <1>10, <2>2, ReleaseProtocol DEF EndTidy
  <2> QED
    BY <2>1, <2>2
<1> QED
  BY <1>1, <1>2, <1>3, <1>4, <1>5, <1>6, <1>7, <1>8, <1>9, <1>10

\* The steps of publication in place.
LEMMA PublishProtocol ==
  ASSUME IInv, NEW p \in Procs,
         \/ \E m \in Rows, d \in Levels : PublishComplete(p, m, d) \/ PublishSparse(p, m, d)
         \/ ClearDir(p) \/ MakeDir(p)
         \/ \E s \in Shards : SaveShard(p, s)
  PROVE  Protocol(p)'
<1> USE DEF IInv, TypeOK, Protocol
<1>j. job[p] \in JobType /\ pc[p] \in PCs
  OBVIOUS
<1>1. ASSUME NEW m \in Rows, NEW d \in Levels, PublishComplete(p, m, d) \/ PublishSparse(p, m, d)
      PROVE  Protocol(p)'
  <2>1. /\ UNCHANGED <<live, txn, truth>>
        /\ job'[p].kind \in {"publish", "sparse"}
        /\ pc'[p] \in {"sweep", "drop", "flat", "mkdir"}
        /\ pc'[p] = "sweep" => OnDiskShape(live) # None
        /\ pc'[p] \in {"flat", "mkdir"} => OnDiskShape(live) \in {None, d}
        /\ pc'[p] = "flat" => d = 0
        /\ OnDiskShape(live) = None => ~Pending
    BY <1>1 DEF PublishComplete, PublishSparse, Start, NoJob
  <2>2. live # None \/ OnDiskShape(live) = None
    BY DEF OnDiskShape
  <2>3. OnDiskShape(live) = None /\ live = None => truth = NoRows
    BY <2>1 DEF Consistent, BackedUp, Pending
  <2>4. OnDiskShape(live) \in {None, 0} /\ IsDir(live) => live.rows = NoRows
    BY LevelsAssumption, NoneAssumption DEF OnDiskShape, IsDir, Rep
  <2>5. pc'[p] = "sweep" => live # None
    BY <2>1, <2>2
  <2>6. pc'[p] \in {"flat", "mkdir"} /\ live = None => truth = NoRows
    BY <2>2, <2>3
  <2>7. pc'[p] = "flat" /\ IsDir(live) => live.rows = NoRows
    BY <2>1, <2>4
  <2> QED
    BY <2>1, <2>5, <2>6, <2>7
    DEF Staging, Recorded, LiveNeeded, InPlace, IsDir, Recovering, Reshaping
<1>2. CASE ClearDir(p)
  <2>1. truth = NoRows
    BY <1>2 DEF ClearDir, InPlace, IsDir, Consistent
  <2> QED
    BY <1>2, <2>1
    DEF ClearDir, Staging, Recorded, LiveNeeded, InPlace, IsDir, Recovering, Reshaping
<1>3. CASE MakeDir(p)
  <2>1. live' # None
    BY <1>3, SomeFile, EntriesType DEF MakeDir, JobType, Rep
  <2>2. /\ pc[p] = "mkdir" /\ pc'[p] = "shards"
        /\ \E todo : job'[p] = [job[p] EXCEPT !.todo = todo]
    BY <1>3 DEF MakeDir, Goto
  <2> QED
    BY <1>j, <2>1, <2>2
    DEF JobType, Staging, Recorded, LiveNeeded, InPlace, Recovering, Reshaping
<1>4. ASSUME NEW s \in Shards, SaveShard(p, s)
      PROVE  Protocol(p)'
  <2> DEFINE rows == Patch(live.rows, job[p].want, job[p].target, s)
  <2>1. live \in Rep
    BY <1>4 DEF SaveShard, LiveNeeded
  <2>2. [live EXCEPT !.rows = rows] \in Rep
    BY <1>j, <2>1, RowsTypes DEF Rep, JobType
  <2>3. live' # None
    BY <1>4, <2>2, SomeFile DEF SaveShard
  <2>4. /\ pc[p] = "shards" /\ pc'[p] = "shards"
        /\ \E todo : job'[p] = [job[p] EXCEPT !.todo = todo]
    BY <1>4 DEF SaveShard
  <2> QED
    BY <1>j, <2>3, <2>4
    DEF JobType, Staging, Recorded, LiveNeeded, InPlace, Recovering, Reshaping
<1> QED
  BY <1>1, <1>2, <1>3, <1>4

\* The steps of repair and clean.
LEMMA MaintenanceProtocol ==
  ASSUME IInv, NEW p \in Procs,
         \/ \E t \in Txns, c \in Choices : BeginRecover(p, t, c)
         \/ BeginClean(p) \/ Displace(p)
  PROVE  Protocol(p)'
<1> USE DEF IInv, TypeOK, Protocol
<1>1. ASSUME NEW t \in Txns, NEW c \in Choices, BeginRecover(p, t, c)
      PROVE  Protocol(p)'
  <2>1. Prepared(t) /\ ~Valid(live) /\ CandidateValid(t, c)
    BY <1>1 DEF BeginRecover, Selectable
  <2>2. txn[t][c] # None
    <3>1. txn[t].record \in Record
      BY <2>1 DEF TxnType, Prepared
    <3>2. Expected(t, c) \in Levels
      BY <3>1 DEF Expected, Record
    <3> QED
      BY <2>1, <3>2, NoneAssumption DEF CandidateValid, OnDiskShape
  <2>3. live # None => live.rows = NoRows
    BY <2>1, NoneAssumption DEF Valid, OnDiskShape, Rep
  <2>4. /\ UNCHANGED <<live, txn, truth>>
        /\ pc'[p] = (IF live = None THEN "restore" ELSE "displace")
        /\ job'[p].kind = "recover" /\ job'[p].txn = t /\ job'[p].choice = c
    BY <1>1 DEF BeginRecover, Start, NoJob
  <2>5. Recovering(p)'
    BY <2>2, <2>4 DEF Recovering
  <2>6. LiveNeeded(p)'
    BY <2>3, <2>4 DEF LiveNeeded
  <2> QED
    BY <2>4, <2>5, <2>6 DEF Staging, Recorded, InPlace, Reshaping
<1>2. CASE BeginClean(p)
  <2>1. /\ UNCHANGED <<live, txn, truth>>
        /\ pc'[p] = "clean" /\ job'[p].kind = "clean"
        /\ job'[p].doomed = {t \in Txns : Disposable(t)}
    BY <1>2 DEF BeginClean, Start, NoJob
  <2>2. \A t \in Txns : Disposable(t) /\ Prepared(t) => live # None
    BY DEF Disposable, Valid, OnDiskShape
  <2> QED
    BY <2>1, <2>2
    DEF Staging, Recorded, LiveNeeded, InPlace, Recovering, Reshaping, Prepared
<1>3. CASE Displace(p)
  <2>1. job[p].txn \in Txns /\ txn[job[p].txn] \in TxnType /\ job[p].choice \in Choices
    BY <1>3 DEF Displace, Recovering, JobType
  <2>2. /\ pc[p] = "displace" /\ pc'[p] = "restore" /\ UNCHANGED job
        /\ txn'[job[p].txn][job[p].choice] = txn[job[p].txn][job[p].choice]
    BY <1>3, <2>1 DEF Displace, Goto, TxnType, Choices
  <2> QED
    BY <2>1, <2>2
    DEF Staging, Recorded, LiveNeeded, InPlace, Recovering, Reshaping
<1> QED
  BY <1>1, <1>2, <1>3

\* Every step leaves its own process what its next step relies on.
LEMMA StepOwn ==
  ASSUME IInv, NEW p \in Procs, Work(p) \/ Request(p) \/ Abort(p)
  PROVE  Protocol(p)'
<1>1. ASSUME NEW d \in Levels, BeginReshape(p, d)
      PROVE  Protocol(p)'
  <2>1. pc'[p] = "wait"
    BY <1>1 DEF BeginReshape, Goto, IInv, TypeOK
  <2> QED
    BY <2>1, Outside
<1>2. CASE DeclineReshape(p) \/ TimeOut(p) \/ Abort(p)
  BY <1>2, ReleaseProtocol DEF DeclineReshape, TimeOut, Abort, IInv
<1>3. CASE RefuseStaged(p) \/ DropEmpty(p) \/ WriteFlat(p) \/ EndSave(p) \/ Restore(p) \/ EndClean(p)
  BY <1>3, ReleaseProtocol
  DEF RefuseStaged, DropEmpty, WriteFlat, EndSave, Restore, EndClean, IInv
<1> QED
  BY <1>1, <1>2, <1>3, ReshapeProtocol, PublishProtocol, MaintenanceProtocol
  DEF Work, Request

-----------------------------------------------------------------------------
(* Theorems *)

\* The inductive invariant holds before the first operation.
LEMMA InitInvariant == Init => IInv
<1> SUFFICES ASSUME Init PROVE IInv
  OBVIOUS
<1>1. Mutex
  BY NoneAssumption DEF Init, Mutex
<1>2. Consistent
  BY DEF Init, Consistent, Entries
<1>3. ASSUME NEW p \in Procs PROVE Protocol(p)
  BY DEF Init, NoJob, Protocol, Staging, Recorded, LiveNeeded, InPlace, Recovering, Reshaping
<1> QED
  BY <1>1, <1>2, <1>3, InitType DEF IInv

\* Every step, a crash at any system call included, keeps the invariant.
LEMMA NextInvariant == IInv /\ [Next]_vars => IInv'
<1> SUFFICES ASSUME IInv, [Next]_vars PROVE IInv'
  OBVIOUS
<1>1. ASSUME NEW p \in Procs, Work(p) \/ Request(p) \/ Abort(p)
      PROVE  IInv'
  <2>1. \A q \in Procs : Protocol(q)'
    BY <1>1, StepOwn, StepOthers
  <2> QED
    BY <1>1, <2>1, StepType, StepMutex, StepConsistent DEF IInv
<1>2. CASE UNCHANGED vars
  BY <1>2
  DEF vars, IInv, TypeOK, TxnType, JobType, Mutex, Consistent, BackedUp, CandidateValid,
      Expected, Prepared, OnDiskShape, Protocol, Staging, Recorded, LiveNeeded, InPlace,
      IsDir, Recovering, Reshaping
<1> QED
  BY <1>1, <1>2 DEF Next

\* The inductive invariant: types, an exclusive RepoLock, a recoverable disk and
\* what each local step of reshape, publication, repair and clean relies on.
THEOREM Invariance == Spec => []IInv
BY InitInvariant, NextInvariant, PTL DEF Spec

\* Every variable of the lock protocol keeps its type; in particular no step
\* uses a live lock, a staged copy or a candidate that is not there.
THEOREM TypeCorrect == Spec => []TypeOK
BY Invariance, PTL DEF IInv

\* No interleaving of reshapes, publications, recoveries and clean-ups with
\* crashes and I/O errors at any system call loses the published entries: they
\* are at gat.lock, or in a backup that `gat system repair lock` accepts.
THEOREM NothingIsLost == Spec => []NothingLost
<1>1. IInv => NothingLost
  BY DEF IInv, Consistent, NothingLost
<1> QED
  BY <1>1, Invariance, PTL

\* A step of a reshape changes no entry: the copy it promotes holds what was
\* loaded under the RepoLock, which nobody else could change since.
LEMMA StepKeepsEntries ==
  ASSUME IInv, NEW p \in Procs, Work(p) \/ Request(p) \/ Abort(p)
  PROVE  EntriesKept
<1> SUFFICES ASSUME NEW q \in Procs, job[q].kind = "reshape",
                    pc'[q] # pc[q] \/ job'[q] # job[q]
             PROVE  truth' = truth
  BY DEF EntriesKept
<1>1. q = p
  BY StepFrame
<1>2. Reshaping(p) /\ Staging(p)
  BY DEF IInv, Protocol
<1>3. pc[p] \in {"wait", "sweep", "stage", "record", "aside", "promote", "tidy"}
  BY <1>1, <1>2 DEF Reshaping
<1>4. CASE RenamePromote(p)
  BY <1>1, <1>2, <1>4 DEF RenamePromote, Reshaping, Staging
<1>5. CASE \/ \E d \in Levels : BeginReshape(p, d)
           \/ ConfirmReshape(p) \/ DeclineReshape(p) \/ TimeOut(p) \/ Abort(p)
           \/ RemovePiece(p) \/ OpenTxn(p) \/ StageRoot(p)
           \/ (\E s \in Shards : StageShard(p, s))
           \/ ValidateStaged(p) \/ RefuseStaged(p) \/ WriteRecord(p) \/ RenameAside(p)
           \/ EndTidy(p) \/ EndSave(p) \/ EndClean(p) \/ BeginClean(p)
  BY <1>5
  DEF BeginReshape, ConfirmReshape, DeclineReshape, TimeOut, Abort, RemovePiece, OpenTxn,
      StageRoot, StageShard, ValidateStaged, RefuseStaged, WriteRecord, RenameAside, EndTidy,
      EndSave, EndClean, BeginClean
<1>6. CASE \/ \E m \in Rows, d \in Levels : PublishComplete(p, m, d) \/ PublishSparse(p, m, d)
           \/ \E t \in Txns, c \in Choices : BeginRecover(p, t, c)
  BY <1>6 DEF PublishComplete, PublishSparse, BeginRecover
<1>7. CASE \/ DropEmpty(p) \/ ClearDir(p) \/ WriteFlat(p) \/ MakeDir(p)
           \/ (\E s \in Shards : SaveShard(p, s)) \/ Displace(p) \/ Restore(p)
  BY <1>3, <1>7 DEF DropEmpty, ClearDir, WriteFlat, MakeDir, SaveShard, Displace, Restore
<1> QED
  BY <1>4, <1>5, <1>6, <1>7 DEF Work, Request

\* gat.lock only vanishes into a recorded backup, or without entries.
LEMMA StepVanishes ==
  ASSUME IInv, NEW p \in Procs, Work(p) \/ Request(p) \/ Abort(p)
  PROVE  SafeVanishing
<1> USE DEF SafeVanishing
<1>1. CASE RenameAside(p)
  <2>1. PICK t \in Txns : t = job[p].txn
    BY <1>1 DEF IInv, Protocol, RenameAside, Staging
  <2>2. txn[t] \in TxnType /\ txn[t].record # None
    BY <1>1, <2>1 DEF IInv, Protocol, TypeOK, RenameAside, Recorded, Prepared
  <2>3. txn'[t].record # None /\ txn'[t].backup = live
    BY <1>1, <2>1, <2>2 DEF RenameAside, IInv, TypeOK, TxnType
  <2> QED
    BY <2>3
<1>2. CASE ClearDir(p) \/ Displace(p)
  BY <1>2 DEF ClearDir, Displace, IInv, Protocol, Consistent, InPlace, LiveNeeded, IsDir
<1>3. CASE DropEmpty(p)
  BY <1>3 DEF DropEmpty
<1>4. CASE RenamePromote(p) \/ Restore(p)
  BY <1>4 DEF RenamePromote, Restore, IInv, Protocol, Staging, Recovering
<1>5. CASE WriteFlat(p)
  <2>1. [shape |-> 0, rows |-> job[p].want] # None
    BY SomeFile, LevelsAssumption DEF IInv, TypeOK, JobType, Rep
  <2> QED
    BY <1>5, <2>1 DEF WriteFlat
<1>6. CASE MakeDir(p) \/ \E s \in Shards : SaveShard(p, s)
  <2>1. pc'[p] = "shards"
    BY <1>6 DEF MakeDir, SaveShard, Goto, IInv, TypeOK
  <2> QED
    BY <2>1, StepOwn DEF Protocol, LiveNeeded
<1>7. CASE \/ \E d \in Levels : BeginReshape(p, d)
           \/ ConfirmReshape(p) \/ DeclineReshape(p) \/ TimeOut(p) \/ Abort(p)
           \/ RemovePiece(p) \/ OpenTxn(p) \/ StageRoot(p)
           \/ (\E s \in Shards : StageShard(p, s))
           \/ ValidateStaged(p) \/ RefuseStaged(p) \/ WriteRecord(p)
           \/ EndTidy(p) \/ EndSave(p) \/ EndClean(p) \/ BeginClean(p)
  BY <1>7
  DEF BeginReshape, ConfirmReshape, DeclineReshape, TimeOut, Abort, RemovePiece, OpenTxn,
      StageRoot, StageShard, ValidateStaged, RefuseStaged, WriteRecord, EndTidy,
      EndSave, EndClean, BeginClean
<1>8. CASE \/ \E m \in Rows, d \in Levels : PublishComplete(p, m, d) \/ PublishSparse(p, m, d)
           \/ \E t \in Txns, c \in Choices : BeginRecover(p, t, c)
  BY <1>8 DEF PublishComplete, PublishSparse, BeginRecover
<1> QED
  BY <1>1, <1>2, <1>3, <1>4, <1>5, <1>6, <1>7, <1>8 DEF Work, Request

\* A reshape never changes the logical content of gat.lock.
THEOREM ReshapeIsInvisible == Spec => ReshapeKeepsEntries
<1>1. IInv /\ [Next]_vars => [EntriesKept]_vars
  BY StepKeepsEntries DEF Next
<1> QED
  BY <1>1, Invariance, PTL DEF Spec, ReshapeKeepsEntries

\* No step makes tracked entries unreachable without a way back.
THEOREM VanishesSafely == Spec => LiveVanishesSafely
<1>1. IInv /\ [Next]_vars => [SafeVanishing]_vars
  BY StepVanishes DEF Next
<1> QED
  BY <1>1, Invariance, PTL DEF Spec, LiveVanishesSafely

-----------------------------------------------------------------------------
(* What an interruption leaves for recovery.  A transaction is opened only  *)
(* when every older directory is gone, so at most one holds a record.       *)

\* A transaction without its directory has nothing.
Unopened == \A t \in Txns : ~txn[t].dir => txn[t] = NoTxn

Single == \A t, u \in Txns : Prepared(t) /\ Prepared(u) => t = u

\* Every older directory is condemned, and then the only one is that of p.
Opened(p) ==
  /\ pc[p] = "sweep" => Dirs \subseteq job[p].doomed
  /\ pc[p] \in {"stage", "record"} => Dirs = {job[p].txn}
  /\ pc[p] \in {"stage", "record", "aside", "promote"} =>
       txn[job[p].txn].goal = job[p].want

\* Beside a missing lock, what a prepared transaction still has of its staged
\* copy is all of it.
StagedWhole ==
  live = None /\ truth # NoRows =>
    \A t \in Txns : Prepared(t) /\ txn[t].new # None => txn[t].new.rows = txn[t].goal

Scratch == Unopened /\ Single /\ StagedWhole /\ \A p \in Procs : Opened(p)

\* A step that changes no transaction and loses no entries.
LEMMA QuietStep ==
  ASSUME Scratch, UNCHANGED txn, live' # None \/ truth' = NoRows \/ UNCHANGED <<live, truth>>
  PROVE  Unopened' /\ Single' /\ StagedWhole'
BY DEF Scratch, Unopened, Single, StagedWhole, Prepared

\* A step that changes one transaction.
LEMMA OneTxn ==
  ASSUME TypeOK, Scratch, NEW t \in Txns, NEW r \in TxnType, txn' = [txn EXCEPT ![t] = r],
         r.dir \/ r = NoTxn,
         r.record # None => \A u \in Txns : Prepared(u) => u = t,
         live' = None /\ truth' # NoRows =>
           /\ (live = None /\ truth # NoRows) \/ \A u \in Txns : Prepared(u) => u = t
           /\ r.record # None /\ r.new # None => r.new.rows = r.goal
  PROVE  Unopened' /\ Single' /\ StagedWhole'
<1>1. \A u \in Txns : txn'[u] = IF u = t THEN r ELSE txn[u]
  BY DEF TypeOK
<1>2. Unopened'
  BY <1>1 DEF Scratch, Unopened
<1>3. Single'
  BY <1>1 DEF Scratch, Single, Prepared
<1>4. StagedWhole'
  BY <1>1 DEF Scratch, StagedWhole, Prepared
<1> QED
  BY <1>2, <1>3, <1>4

\* Whoever holds anything in a transaction has its directory.
LEMMA HasDirectory ==
  ASSUME Scratch, NEW t \in Txns,
         \/ Prepared(t)
         \/ \E part \in {"new", "backup", "replaced"} : txn[t][part] # None
  PROVE  txn[t].dir
BY DEF Scratch, Unopened, Prepared, NoTxn

\* Others wait: what a step does to the disk concerns its own process only.
LEMMA OthersOpened ==
  ASSUME IInv, Scratch, NEW p \in Procs, Work(p) \/ Request(p) \/ Abort(p), Opened(p)'
  PROVE  \A q \in Procs : Opened(q)'
<1> SUFFICES ASSUME NEW q \in Procs, q # p PROVE Opened(q)'
  OBVIOUS
<1>1. pc'[q] = pc[q] /\ job'[q] = job[q]
  BY StepFrame
<1>2. CASE pc[p] \in {"idle", "wait"}
  BY <1>1, <1>2, StepFrame DEF Scratch, Opened, Dirs
<1>3. CASE pc[p] \notin {"idle", "wait"}
  <2>1. pc[q] \in {"idle", "wait"}
    BY <1>3 DEF IInv, Mutex
  <2> QED
    BY <1>1, <2>1 DEF Opened
<1> QED
  BY <1>2, <1>3

\* Removing a transaction piece by piece leaves the other transactions as
\* they were, and the record goes before what it names.
LEMMA RemovePieceScratch ==
  ASSUME IInv, Scratch, NEW p \in Procs, RemovePiece(p)
  PROVE  Unopened' /\ Single' /\ StagedWhole' /\ Opened(p)'
<1>1. PICK t \in job[p].doomed :
       \/ /\ Prepared(t)
          /\ txn' = [txn EXCEPT ![t] = [txn[t] EXCEPT !.record = None]]
          /\ UNCHANGED job
       \/ /\ \E part \in {"new", "backup", "replaced"} :
               /\ txn[t][part] # None
               /\ \E r \in Shrink(txn[t][part]) :
                    txn' = [txn EXCEPT ![t] = [txn[t] EXCEPT ![part] = r]]
          /\ UNCHANGED job
       \/ /\ txn' = [txn EXCEPT ![t] = NoTxn]
          /\ job' = [job EXCEPT ![p].doomed = @ \ {t}]
  BY DEF RemovePiece
<1>2. /\ t \in Txns /\ txn \in [Txns -> TxnType] /\ txn[t] \in TxnType /\ TypeOK
      /\ job \in [Procs -> JobType] /\ job[p] \in JobType
  BY DEF IInv, TypeOK, JobType
<1>3. /\ pc[p] \in {"sweep", "tidy", "clean"} /\ UNCHANGED <<live, truth, pc>>
      /\ live = None => ~Prepared(t)
  BY DEF RemovePiece, IInv, Protocol, LiveNeeded
<1>4. Single
  BY DEF Scratch
<1>5. CASE Prepared(t) /\ txn' = [txn EXCEPT ![t] = [txn[t] EXCEPT !.record = None]] /\ UNCHANGED job
  <2> DEFINE r == [txn[t] EXCEPT !.record = None]
  <2>1. r \in TxnType /\ r.dir = txn[t].dir /\ r.record = None
    BY <1>2 DEF TxnType
  <2>2. txn[t].dir
    BY <1>2, <1>5, HasDirectory
  <2>3. Unopened' /\ Single' /\ StagedWhole'
    <3> HIDE DEF r
    <3>1. txn' = [txn EXCEPT ![t] = r]
      BY <1>5 DEF r
    <3> QED
      BY <1>2, <1>3, <2>1, <2>2, <3>1, OneTxn
  <2>4. Dirs' = Dirs
    BY <1>2, <1>5, <2>1 DEF Dirs
  <2> QED
    BY <1>3, <1>5, <2>3, <2>4 DEF Scratch, Opened
<1>6. ASSUME NEW part \in {"new", "backup", "replaced"}, txn[t][part] # None,
             NEW s \in Shrink(txn[t][part]),
             txn' = [txn EXCEPT ![t] = [txn[t] EXCEPT ![part] = s]], UNCHANGED job
      PROVE  Unopened' /\ Single' /\ StagedWhole' /\ Opened(p)'
  <2> DEFINE r == [txn[t] EXCEPT ![part] = s]
  <2>1. s \in Rep \cup {None}
    BY <1>2, <1>6, ShrinkType DEF TxnType
  <2>2. r \in TxnType /\ r.dir = txn[t].dir /\ r.record = txn[t].record
    BY <1>2, <2>1 DEF TxnType
  <2>3. txn[t].dir
    BY <1>2, <1>6, HasDirectory
  <2>4. Unopened' /\ Single' /\ StagedWhole'
    <3> HIDE DEF r
    <3>1. txn' = [txn EXCEPT ![t] = r]
      BY <1>6 DEF r
    <3>2. r.record # None <=> Prepared(t)
      BY <2>2 DEF Prepared
    <3> QED
      BY <1>2, <1>3, <1>4, <2>2, <2>3, <3>1, <3>2, OneTxn DEF Single
  <2>5. Dirs' = Dirs
    BY <1>2, <1>6, <2>2 DEF Dirs
  <2> QED
    BY <1>3, <1>6, <2>4, <2>5 DEF Scratch, Opened
<1>7. CASE txn' = [txn EXCEPT ![t] = NoTxn] /\ job' = [job EXCEPT ![p].doomed = @ \ {t}]
  <2>1. NoTxn.record = None /\ NoTxn.dir = FALSE
    BY DEF NoTxn
  <2>2. Unopened' /\ Single' /\ StagedWhole'
    BY <1>2, <1>3, <1>7, <2>1, NothingTypes, OneTxn
  <2>3. Dirs' = Dirs \ {t} /\ job'[p].doomed = job[p].doomed \ {t}
    BY <1>2, <1>7, <2>1 DEF Dirs, JobType
  <2> QED
    BY <1>3, <2>2, <2>3 DEF Scratch, Opened
<1> QED
  BY <1>1, <1>5, <1>6, <1>7

\* The steps that stage a copy and record it.
LEMMA StagingScratch ==
  ASSUME IInv, Scratch, NEW p \in Procs,
         OpenTxn(p) \/ StageRoot(p) \/ (\E s \in Shards : StageShard(p, s)) \/ WriteRecord(p)
  PROVE  Unopened' /\ Single' /\ StagedWhole' /\ Opened(p)'
<1>0. /\ TypeOK /\ txn \in [Txns -> TxnType] /\ job \in [Procs -> JobType] /\ job[p] \in JobType
      /\ Protocol(p) /\ Opened(p) /\ pc \in [Procs -> PCs]
  BY DEF IInv, TypeOK, Scratch
<1>l. live # None /\ UNCHANGED <<live, truth>>
  BY <1>0 DEF OpenTxn, StageRoot, StageShard, WriteRecord, Protocol, LiveNeeded
<1>1. CASE OpenTxn(p)
  <2> DEFINE r == [NoTxn EXCEPT !.dir = TRUE, !.goal = job[p].want]
  <2>1. PICK t \in Txns : txn' = [txn EXCEPT ![t] = r] /\ job' = [job EXCEPT ![p].txn = t]
    BY <1>1 DEF OpenTxn
  <2>2. r \in TxnType /\ r.dir /\ r.record = None /\ r.goal = job[p].want
    BY <1>0, NothingTypes DEF NoTxn, TxnType, JobType
  <2> HIDE DEF r
  <2>3. Unopened' /\ Single' /\ StagedWhole'
    BY <1>0, <1>l, <2>1, <2>2, OneTxn
  <2>4. Dirs = {}
    BY <1>0, <1>1 DEF OpenTxn, Opened
  <2>5. Dirs' = {t} /\ txn'[t].goal = job[p].want
    BY <1>0, <2>1, <2>2, <2>4 DEF Dirs
  <2>6. job'[p].txn = t /\ job'[p].want = job[p].want /\ pc'[p] = "stage"
    BY <1>0, <1>1, <2>1 DEF OpenTxn, Goto, JobType
  <2> QED
    BY <2>3, <2>5, <2>6 DEF Opened
<1>2. ASSUME NEW r \in TxnType, txn' = [txn EXCEPT ![job[p].txn] = r],
             r.dir = txn[job[p].txn].dir, r.goal = txn[job[p].txn].goal,
             pc[p] \in {"stage", "record"}, pc'[p] \in {"stage", "aside"}, job[p].txn \in Txns,
             job'[p].txn = job[p].txn, job'[p].want = job[p].want
      PROVE  Unopened' /\ Single' /\ StagedWhole' /\ Opened(p)'
  <2>1. Dirs = {job[p].txn}
    BY <1>0, <1>2 DEF Opened
  <2>2. txn[job[p].txn].dir /\ \A u \in Txns : Prepared(u) => u = job[p].txn
    BY <2>1, HasDirectory DEF Dirs
  <2>3. Unopened' /\ Single' /\ StagedWhole'
    BY <1>0, <1>2, <1>l, <2>2, OneTxn
  <2>4. Dirs' = Dirs /\ txn'[job[p].txn].goal = txn[job[p].txn].goal
    BY <1>0, <1>2 DEF Dirs
  <2> QED
    BY <1>0, <1>2, <2>1, <2>3, <2>4 DEF Opened
<1>3. CASE StageRoot(p)
  <2> DEFINE t == job[p].txn
             todo == IF job[p].target = 0 THEN {} ELSE ShardsOf(job[p].want, job[p].target)
             copy == [shape |-> job[p].target,
                      rows |-> IF job[p].target = 0 THEN job[p].want ELSE NoRows]
             r == [txn[t] EXCEPT !.new = copy]
  <2>1. t \in Txns /\ txn[t] \in TxnType /\ pc[p] = "stage" /\ UNCHANGED pc
    BY <1>0, <1>3 DEF StageRoot, Protocol, Staging
  <2>2. copy \in Rep
    BY <1>0, RowsTypes DEF JobType, Rep
  <2>3. r \in TxnType /\ r.dir = txn[t].dir /\ r.goal = txn[t].goal
    BY <2>1, <2>2 DEF TxnType
  <2>4. txn' = [txn EXCEPT ![t] = r] /\ job' = [job EXCEPT ![p].todo = todo]
    BY <1>3 DEF StageRoot
  <2>5. job'[p].txn = job[p].txn /\ job'[p].want = job[p].want
    BY <1>0, <2>4 DEF JobType
  <2> QED
    BY <1>2, <2>1, <2>3, <2>4, <2>5
<1>4. ASSUME NEW s \in Shards, StageShard(p, s)
      PROVE  Unopened' /\ Single' /\ StagedWhole' /\ Opened(p)'
  <2> DEFINE t == job[p].txn
             rows == Patch(txn[t].new.rows, job[p].want, job[p].target, s)
             copy == [txn[t].new EXCEPT !.rows = rows]
             r == [txn[t] EXCEPT !.new = copy]
  <2>1. t \in Txns /\ txn[t] \in TxnType /\ pc[p] = "stage" /\ UNCHANGED pc
    BY <1>0, <1>4 DEF StageShard, Protocol, Staging
  <2>2. txn[t].new \in Rep
    BY <1>4, <2>1 DEF StageShard, TxnType
  <2>3. copy \in Rep
    BY <1>0, <2>2, RowsTypes DEF Rep, JobType
  <2>4. r \in TxnType /\ r.dir = txn[t].dir /\ r.goal = txn[t].goal
    BY <2>1, <2>3 DEF TxnType
  <2>5. txn' = [txn EXCEPT ![t] = r] /\ job' = [job EXCEPT ![p] = [job[p] EXCEPT !.todo = @ \ {s}]]
    BY <1>4 DEF StageShard
  <2>6. job'[p].txn = job[p].txn /\ job'[p].want = job[p].want
    BY <1>0, <2>5 DEF JobType
  <2> QED
    BY <1>2, <2>1, <2>4, <2>5, <2>6
<1>5. CASE WriteRecord(p)
  <2> DEFINE t == job[p].txn
             record == [src |-> live.shape, tgt |-> job[p].target]
             r == [txn[t] EXCEPT !.record = record]
  <2>1. /\ t \in Txns /\ txn[t] \in TxnType /\ live \in Rep
        /\ pc[p] = "record" /\ pc'[p] = "aside" /\ UNCHANGED job
    BY <1>0, <1>5, <1>l DEF TypeOK, WriteRecord, Protocol, Staging, Goto
  <2>2. record \in Record
    BY <1>0, <2>1 DEF Record, Rep, JobType
  <2>3. r \in TxnType /\ r.dir = txn[t].dir /\ r.goal = txn[t].goal
    BY <2>1, <2>2 DEF TxnType
  <2>4. txn' = [txn EXCEPT ![t] = r]
    BY <1>5 DEF WriteRecord
  <2> QED
    BY <1>2, <2>1, <2>3, <2>4
<1> QED
  BY <1>1, <1>3, <1>4, <1>5

\* The steps that move a representation into a transaction or out of it.
LEMMA RenameScratch ==
  ASSUME IInv, Scratch, NEW p \in Procs,
         RenameAside(p) \/ RenamePromote(p) \/ Displace(p) \/ Restore(p)
  PROVE  Unopened' /\ Single' /\ StagedWhole' /\ Opened(p)'
<1> DEFINE t == job[p].txn
<1>0. /\ TypeOK /\ txn \in [Txns -> TxnType] /\ job \in [Procs -> JobType] /\ job[p] \in JobType
      /\ Protocol(p) /\ Opened(p) /\ pc \in [Procs -> PCs] /\ live \in Rep \cup {None}
  BY DEF IInv, TypeOK, Scratch
<1>t. t \in Txns /\ txn[t] \in TxnType
  BY <1>0 DEF RenameAside, RenamePromote, Displace, Restore, Protocol, Staging, Recovering
<1>s. \A u \in Txns : Prepared(t) /\ Prepared(u) => u = t
  BY <1>t DEF Scratch, Single
<1>1. CASE RenameAside(p)
  <2> DEFINE r == [txn[t] EXCEPT !.backup = live]
  <2>1. /\ r \in TxnType /\ r.dir = txn[t].dir /\ r.goal = txn[t].goal
        /\ r.record = txn[t].record /\ r.new = txn[t].new
    BY <1>0, <1>t DEF TxnType
  <2>2. /\ txn' = [txn EXCEPT ![t] = r] /\ pc[p] = "aside" /\ pc'[p] = "promote"
        /\ UNCHANGED job
    BY <1>0, <1>1 DEF RenameAside, Goto
  <2>3. Prepared(t) /\ txn[t].new.rows = job[p].want /\ txn[t].goal = job[p].want
    BY <1>0, <2>2 DEF Protocol, Recorded, Staging, Opened
  <2>4. txn[t].dir
    BY <1>t, <2>3, HasDirectory
  <2> HIDE DEF r, t
  <2>5. Unopened' /\ Single' /\ StagedWhole'
    BY <1>0, <1>s, <1>t, <2>1, <2>2, <2>3, <2>4, OneTxn
  <2>6. txn'[t].goal = txn[t].goal
    BY <1>0, <1>t, <2>1, <2>2
  <2> QED
    BY <2>2, <2>3, <2>5, <2>6 DEF Opened, t
<1>2. CASE RenamePromote(p)
  <2> DEFINE r == [txn[t] EXCEPT !.new = None]
  <2>1. r \in TxnType /\ r.dir = txn[t].dir /\ r.record = txn[t].record
    BY <1>t DEF TxnType
  <2>2. /\ txn' = [txn EXCEPT ![t] = r] /\ pc'[p] = "tidy" /\ live' = txn[t].new
        /\ txn[t].new # None
    BY <1>0, <1>2 DEF RenamePromote, Goto, Protocol, Staging
  <2>3. txn[t].dir
    BY <1>t, <2>2, HasDirectory
  <2> HIDE DEF r, t
  <2>4. Unopened' /\ Single' /\ StagedWhole'
    BY <1>0, <1>s, <1>t, <2>1, <2>2, <2>3, OneTxn DEF Prepared
  <2> QED
    BY <2>2, <2>4 DEF Opened
<1>3. CASE Displace(p)
  <2> DEFINE r == [txn[t] EXCEPT !.replaced = live]
  <2>1. r \in TxnType /\ r.dir = txn[t].dir /\ r.record = txn[t].record
    BY <1>0, <1>t DEF TxnType
  <2>2. /\ txn' = [txn EXCEPT ![t] = r] /\ pc'[p] = "restore" /\ truth' = NoRows
        /\ \E part \in {"new", "backup", "replaced"} : txn[t][part] # None
    BY <1>0, <1>3
    DEF Displace, Goto, Protocol, Recovering, LiveNeeded, IInv, Consistent, JobType, Choices
  <2>3. txn[t].dir
    BY <1>t, <2>2, HasDirectory
  <2> HIDE DEF r, t
  <2>4. Unopened' /\ Single' /\ StagedWhole'
    BY <1>0, <1>s, <1>t, <2>1, <2>2, <2>3, OneTxn DEF Prepared
  <2> QED
    BY <2>2, <2>4 DEF Opened
<1>4. CASE Restore(p)
  <2> DEFINE c == job[p].choice
             r == [txn[t] EXCEPT ![c] = None]
  <2>1. c \in {"backup", "new"} /\ txn[t][c] # None
    BY <1>0, <1>4 DEF Restore, Protocol, Recovering, JobType, Choices
  <2>2. r \in TxnType /\ r.dir = txn[t].dir /\ r.record = txn[t].record
    BY <1>t, <2>1 DEF TxnType
  <2>3. txn' = [txn EXCEPT ![t] = r] /\ pc'[p] = "idle" /\ live' # None
    BY <1>0, <1>4, <2>1 DEF Restore, Release
  <2>4. txn[t].dir
    BY <1>t, <2>1, HasDirectory
  <2> HIDE DEF r, t, c
  <2>5. Unopened' /\ Single' /\ StagedWhole'
    BY <1>0, <1>s, <1>t, <2>2, <2>3, <2>4, OneTxn DEF Prepared
  <2> QED
    BY <2>3, <2>5 DEF Opened
<1> QED
  BY <1>1, <1>2, <1>3, <1>4

\* The steps that leave every transaction as it is.
LEMMA QuietScratch ==
  ASSUME IInv, Scratch, NEW p \in Procs,
         \/ (\E d \in Levels : BeginReshape(p, d)) \/ ConfirmReshape(p) \/ DeclineReshape(p)
         \/ TimeOut(p) \/ Abort(p) \/ ValidateStaged(p) \/ RefuseStaged(p) \/ EndTidy(p)
         \/ EndSave(p) \/ EndClean(p) \/ DropEmpty(p) \/ ClearDir(p) \/ WriteFlat(p)
         \/ MakeDir(p) \/ (\E s \in Shards : SaveShard(p, s)) \/ BeginClean(p)
         \/ (\E m \in Rows, d \in Levels : PublishComplete(p, m, d) \/ PublishSparse(p, m, d))
         \/ (\E t \in Txns, c \in Choices : BeginRecover(p, t, c))
  PROVE  Unopened' /\ Single' /\ StagedWhole' /\ Opened(p)'
<1>0. /\ TypeOK /\ job \in [Procs -> JobType] /\ job[p] \in JobType /\ pc \in [Procs -> PCs]
      /\ Protocol(p) /\ Opened(p)
  BY DEF IInv, TypeOK, Scratch
<1>1. CASE \/ (\E d \in Levels : BeginReshape(p, d)) \/ ConfirmReshape(p) \/ DeclineReshape(p)
           \/ TimeOut(p) \/ Abort(p) \/ ValidateStaged(p) \/ RefuseStaged(p) \/ EndTidy(p)
           \/ EndSave(p) \/ EndClean(p) \/ BeginClean(p)
           \/ (\E m \in Rows, d \in Levels : PublishComplete(p, m, d) \/ PublishSparse(p, m, d))
           \/ (\E t \in Txns, c \in Choices : BeginRecover(p, t, c))
  <2>1. UNCHANGED <<live, txn, truth>>
    BY <1>1 DEF BeginReshape, ConfirmReshape, DeclineReshape, TimeOut, Abort, ValidateStaged,
                RefuseStaged, EndTidy, EndSave, EndClean, BeginClean, PublishComplete,
                PublishSparse, BeginRecover
  <2>2. \/ pc'[p] \notin {"sweep", "stage", "record", "aside", "promote"}
        \/ pc'[p] = "sweep" /\ job'[p].doomed = Dirs
        \/ pc[p] = "stage" /\ pc'[p] = "record" /\ UNCHANGED job
    <3>1. CASE ConfirmReshape(p)
      BY <1>0, <3>1 DEF ConfirmReshape, Start, JobType
    <3>2. CASE \E m \in Rows, d \in Levels : PublishComplete(p, m, d) \/ PublishSparse(p, m, d)
      <4>1. ASSUME NEW m \in Rows, NEW d \in Levels, PublishComplete(p, m, d)
            PROVE  \/ pc'[p] \in {"flat", "mkdir"}
                   \/ pc'[p] = "sweep" /\ job'[p].doomed = Dirs
        BY <1>0, <4>1 DEF PublishComplete, Start, NoJob
      <4>2. ASSUME NEW m \in Rows, NEW d \in Levels, PublishSparse(p, m, d)
            PROVE  pc'[p] \in {"flat", "mkdir", "drop"}
        BY <1>0, <4>2 DEF PublishSparse, Start
      <4> QED
        BY <3>2, <4>1, <4>2
    <3>3. CASE ValidateStaged(p)
      BY <1>0, <3>3 DEF ValidateStaged, Staged, Goto
    <3> QED
      BY <1>0, <1>1, <3>1, <3>2, <3>3
      DEF BeginReshape, DeclineReshape, TimeOut, Abort, RefuseStaged, EndTidy, EndSave, EndClean,
          BeginClean, BeginRecover, Start, Goto, Release
  <2> QED
    BY <1>0, <2>1, <2>2, QuietStep DEF Opened, Dirs
<1>2. CASE \/ DropEmpty(p) \/ ClearDir(p) \/ WriteFlat(p) \/ MakeDir(p)
           \/ (\E s \in Shards : SaveShard(p, s))
  <2>1. UNCHANGED txn /\ pc'[p] \in {"idle", "flat", "shards"}
    BY <1>0, <1>2 DEF DropEmpty, ClearDir, WriteFlat, MakeDir, SaveShard, Goto, Release
  <2>2. live' # None \/ truth' = NoRows
    <3>1. CASE DropEmpty(p)
      BY <3>1 DEF DropEmpty
    <3>2. CASE ClearDir(p)
      BY <1>0, <3>2 DEF ClearDir, Protocol, InPlace, IsDir, IInv, Consistent
    <3>3. CASE WriteFlat(p)
      <4>1. [shape |-> 0, rows |-> job[p].want] # None
        BY <1>0, SomeFile, LevelsAssumption DEF JobType, Rep
      <4> QED
        BY <3>3, <4>1 DEF WriteFlat
    <3>4. CASE MakeDir(p) \/ \E s \in Shards : SaveShard(p, s)
      <4>1. pc'[p] = "shards"
        BY <1>0, <3>4 DEF MakeDir, SaveShard, Goto
      <4> QED
        BY <3>4, <4>1, StepOwn DEF Protocol, LiveNeeded, Work
    <3> QED
      BY <1>2, <3>1, <3>2, <3>3, <3>4
  <2> QED
    BY <2>1, <2>2, QuietStep DEF Opened
<1> QED
  BY <1>1, <1>2

\* What an interruption leaves for recovery stays as it should be.
LEMMA ScratchInvariant == IInv /\ Scratch /\ [Next]_vars => Scratch'
<1> SUFFICES ASSUME IInv, Scratch, [Next]_vars PROVE Scratch'
  OBVIOUS
<1>1. ASSUME NEW p \in Procs, Work(p) \/ Request(p) \/ Abort(p)
      PROVE  Scratch'
  <2>1. Unopened' /\ Single' /\ StagedWhole' /\ Opened(p)'
    BY <1>1, RemovePieceScratch, StagingScratch, RenameScratch, QuietScratch DEF Work, Request
  <2> QED
    BY <1>1, <2>1, OthersOpened DEF Scratch
<1>2. CASE UNCHANGED vars
  BY <1>2 DEF vars, Scratch, Unopened, Single, StagedWhole, Opened, Prepared, Dirs
<1> QED
  BY <1>1, <1>2 DEF Next

\* Both invariants hold throughout.
LEMMA ScratchInvariance == Spec => [](IInv /\ Scratch)
<1>1. Init => Scratch
  BY DEF Init, Scratch, Unopened, Single, StagedWhole, Opened, Prepared, NoTxn
<1> QED
  BY <1>1, InitInvariant, NextInvariant, ScratchInvariant, PTL DEF Spec

\* After an interruption there is exactly one transaction `repair lock` can
\* restore the backup of: select_explicit_transaction is never ambiguous.
THEOREM RecoveryIsUnambiguous == Spec => []RecoveryUnambiguous
<1>1. IInv /\ Scratch => RecoveryUnambiguous
  <2> SUFFICES ASSUME IInv, Scratch PROVE RecoveryUnambiguous
    OBVIOUS
  <2>1. ASSUME live = None, truth # NoRows
        PROVE  \E t \in Txns : Selectable("backup") = {t}
    <3>1. PICK t \in Txns : Prepared(t) /\ CandidateValid(t, "backup")
      BY <2>1 DEF IInv, Consistent, BackedUp
    <3>2. ~Valid(live)
      BY <2>1 DEF Valid, OnDiskShape
    <3> QED
      BY <3>1, <3>2 DEF Selectable, Scratch, Single
  <2> QED
    BY <2>1 DEF RecoveryUnambiguous, Scratch, Single
<1> QED
  BY <1>1, ScratchInvariance, PTL

\* What `repair lock` offers while gat.lock is missing is whole: the backup is
\* the lock before the reshape, the staged copy all the reshape would publish.
THEOREM CandidatesAreFaithful == Spec => []CandidatesFaithful
<1>1. IInv /\ Scratch => CandidatesFaithful
  <2> SUFFICES ASSUME IInv, Scratch, truth # NoRows, live = None, NEW t \in Txns, Prepared(t)
               PROVE  /\ txn[t].backup.rows = truth
                      /\ CandidateValid(t, "new") => txn[t].new.rows = txn[t].goal
    BY DEF CandidatesFaithful
  <2>1. PICK u \in Txns : Prepared(u) /\ txn[u].backup.rows = truth
    BY DEF IInv, Consistent, BackedUp
  <2>2. u = t
    BY <2>1 DEF Scratch, Single
  <2>3. CandidateValid(t, "new") => txn[t].new # None
    <3>1. txn[t].record \in Record
      BY DEF IInv, TypeOK, TxnType, Prepared
    <3>2. txn[t].record.tgt # None
      BY <3>1, NoneAssumption DEF Record
    <3> QED
      BY <3>2 DEF CandidateValid, OnDiskShape, Expected
  <2> QED
    BY <2>1, <2>2, <2>3 DEF Scratch, StagedWhole
<1> QED
  BY <1>1, ScratchInvariance, PTL
=============================================================================
