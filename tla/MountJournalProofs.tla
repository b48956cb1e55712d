------------------------- MODULE MountJournalProofs -------------------------
(***************************************************************************)
(* Proofs about MountJournal, for every set of processes, names, targets   *)
(* and snapshots, every size of window, and any number of edits, crashes   *)
(* and failed steps.                                                       *)
(*                                                                         *)
(* The inductive invariant has four parts.  Protocol: who holds the lock,  *)
(* what each process knows of the journal, and what lies on disk beside a  *)
(* journal that asks for rows.  RowsKept: how far the rows have come.      *)
(* MountsPromised: what the registry promises, which is where gat add      *)
(* interferes.  Following: the claims and the excludes, where gat rm does  *)
(* as well.                                                                *)
(***************************************************************************)
EXTENDS MountJournal, FiniteSetTheorems, SequenceTheorems, TLAPS

-----------------------------------------------------------------------------
(***************************************************************************)
(* The protocol of lock and journal.                                       *)
(***************************************************************************)
Unlocked == {"idle", "prepare"}
Preparing == {"reset", "stage"}
Rolling == {"delete", "config", "replay"}
Others == {"idle", "read", "ready", "prepare", "add", "sync", "note"}

\* The rows a record brings, and those its windows hold.
Snapshot(rec) ==
  IF rec.new = None THEN {} ELSE Imported(rec.new, rec.post.mounts[rec.name][2])
Staged == UNION {staged[i] : i \in 1 .. Len(staged)}

\* A record as the commands make them.
Sound(rec) ==
  /\ rec.phase = "publish"
  /\ rec.post.edit = rec.pre.edit
  /\ rec.op = "remove" <=> rec.new = None
  /\ rec.op = "add" <=> rec.old = None
  /\ rec.op = "add" => rec.pre.mounts[rec.name] = None
  /\ rec.op # "add" =>
       rec.pre.mounts[rec.name] # None /\ rec.old = rec.pre.mounts[rec.name][1]
  /\ \/ /\ rec.op = "remove"
        /\ rec.post.mounts = [rec.pre.mounts EXCEPT ![rec.name] = None]
     \/ /\ rec.op # "remove"
        /\ \E v \in Versions :
             rec.post.mounts = [rec.pre.mounts EXCEPT ![rec.name] = <<rec.new, v>>]
        /\ \A n \in Names \ {rec.name} :
             rec.pre.mounts[n] # None => rec.pre.mounts[n][1] # rec.new

\* What is on disk beside a journal that asks for rows.
Pending ==
  /\ Sound(journal)
  /\ Staged = Snapshot(journal)
  /\ Len(staged) = journal.windows
  /\ \A i \in 1 .. Len(staged) : staged[i] # {}
  /\ journal.pre.edit >= kept

OneHolder == \A p \in Procs : owner = p <=> pc[p] \notin Unlocked

Named(p) ==
  /\ pc[p] # "idle" => job[p].kind \in Kinds
  /\ pc[p] = "prepare" => job[p].kind \in {"add", "sync"}
  /\ pc[p] \in {"add", "note"} => job[p].path \in Paths
  /\ pc[p] = "prepare" /\ job[p].kind = "add" => job[p].path \in Paths
  /\ pc[p] = "add" => job[p].kind = "add"
  /\ pc[p] = "note" => job[p].kind \in {"add", "rm"}
  /\ pc[p] \in Others => job[p].rec = None
  /\ pc[p] \in {"idle", "read", "ready", "reset", "stage"} => ~job[p].recovering
  /\ pc[p] \in {"idle", "read", "ready", "reset", "stage", "delete", "config"} => ~job[p].landed

Prepared(p) ==
  pc[p] \in Preparing =>
    /\ job[p].rec # None /\ Sound(job[p].rec)
    /\ pc[p] = "reset" => job[p].todo = Snapshot(job[p].rec)
    /\ pc[p] = "stage" =>
         /\ Staged \cup job[p].todo = Snapshot(job[p].rec)
         /\ \A i \in 1 .. Len(staged) : staged[i] # {}
         /\ Len(staged) + Cardinality(job[p].todo) <= Cardinality(Leaves)

Journalled(p) ==
  /\ pc[p] \in {"ready", "sweep"} \cup Preparing => journal = None
  /\ pc[p] \in Rolling => Publishing /\ journal = job[p].rec
  /\ pc[p] = "delete" => journal.old # None
  /\ pc[p] = "replay" => config.mounts = journal.post.mounts /\ job[p].todo \subseteq Staged
  /\ pc[p] = "excludes" /\ job[p].rec # None => journal # None /\ ~Publishing
  /\ pc[p] = "clear" => journal # None /\ job[p].rec # None

Protocol ==
  /\ TypeOK
  /\ OneHolder
  /\ \A p \in Procs : Named(p) /\ Prepared(p) /\ Journalled(p)
  /\ Publishing => Pending
  /\ config.edit >= kept
-----------------------------------------------------------------------------
(***************************************************************************)
(* The rows.                                                               *)
(***************************************************************************)
Bring(rec) == rec.new # None /\ rec.new # rec.old

\* An add that may still be rolled back.
Fresh(p) ==
  /\ pc[p] \in {"config", "replay"} /\ journal.op = "add"
  /\ ~job[p].recovering /\ ~job[p].landed

\* As long as nothing has landed, there is nothing below the new target.
Untouched(p) ==
  /\ pc[p] \in Preparing /\ Bring(job[p].rec) => Vacant(job[p].rec.new)
  /\ Fresh(p) => Vacant(journal.new)
  /\ pc[p] = "clear" /\ Publishing =>
       /\ journal.op = "add" /\ config.mounts = journal.pre.mounts
       /\ Vacant(journal.new)

Progress(p) ==
  /\ pc[p] = "config" /\ journal.old # None => Vacant(journal.old)
  /\ pc[p] = "replay" =>
       /\ \A r \in Staged \ job[p].todo : rows[r[1]] = r[2]
       /\ journal.old # None =>
            \A x \in Under(journal.old) : rows[x] # None => \E r \in Staged : r[1] = x

Whole(r, t, v) == \A x \in Under(t) : r[x] = IF x[2] \in Content[v] THEN v ELSE None

Promise(mo, r) ==
  /\ \A n \in Names : mo[n] # None => Whole(r, mo[n][1], mo[n][2])
  /\ \A n, k \in Names : mo[n] # None /\ mo[k] # None /\ n # k => mo[n][1] # mo[k][1]

RowsKept == \A p \in Procs : Untouched(p) /\ Progress(p)

MountsPromised == Promise(PromisedMounts, PromisedRows)
-----------------------------------------------------------------------------
(***************************************************************************)
(* What follows the rows, where neither gat add nor gat rm interferes.     *)
(***************************************************************************)
Follows(p) ==
  /\ pc[p] \in {"config", "replay", "clear"} => claims \subseteq Present
  /\ pc[p] = "clear" => excludes = Present
  /\ Fresh(p) => excludes = Present

Following ==
  /\ ~Publishing => claims \subseteq Present
  /\ Publishing => claims \subseteq Present \cup Under(journal.old)
  /\ journal = None => excludes = Present
  /\ \A p \in Procs : Follows(p)
-----------------------------------------------------------------------------
(***************************************************************************)
(* The data.                                                               *)
(***************************************************************************)
\* What the assumptions say of the constants.
LEMMA Constants ==
  /\ NoProc \notin Procs
  /\ \A v \in Versions : Content[v] \subseteq Leaves
  /\ IsFiniteSet(Leaves) /\ Cardinality(Leaves) \in Nat
  /\ None \notin Targets /\ None \notin Versions /\ Root \notin Versions /\ None # Root
  /\ None \notin Records /\ None \notin Targets \X Versions
  /\ Kinds \subseteq {"mount", "config", "sync", "add", "rm"}
  /\ MaxEdits \in Nat /\ MaxFaults \in Nat /\ Window \in Nat \ {0}
<1>1. IsFiniteSet(Leaves) BY ConstantsAssumption
<1>2. Cardinality(Leaves) \in Nat BY <1>1, FS_CardinalityType
<1> QED BY <1>1, <1>2, ConstantsAssumption, NoneAssumption

\* An edit of one mount leaves a configuration, and the rest of it as it was.
LEMMA ConfigEdit ==
  ASSUME NEW c \in Configs, NEW n \in Names, NEW mount \in {None} \cup (Targets \X Versions)
  PROVE  /\ [c EXCEPT !.mounts[n] = mount] \in Configs
         /\ [c EXCEPT !.mounts[n] = mount].mounts = [c.mounts EXCEPT ![n] = mount]
         /\ [c EXCEPT !.mounts[n] = mount].edit = c.edit
  BY DEF Configs, Mounts

\* The rows of a snapshot below a target: finitely many, one for each of its
\* leaves.
LEMMA ImportedRows ==
  ASSUME NEW t \in Targets, NEW v \in Versions
  PROVE  /\ Imported(t, v) \subseteq StagedRows
         /\ \A r \in Imported(t, v) : r[1] \in Under(t) /\ r[2] = v
         /\ \A x \in Under(t) : x[2] \in Content[v] => <<x, v>> \in Imported(t, v)
         /\ \A r \in Imported(t, v) : r[1][2] \in Content[v]
         /\ IsFiniteSet(Imported(t, v))
         /\ Cardinality(Imported(t, v)) <= Cardinality(Leaves)
<1>1. Content[v] \subseteq Leaves /\ IsFiniteSet(Leaves)
  BY Constants
<1>2. IsFiniteSet(Content[v]) /\ Cardinality(Content[v]) <= Cardinality(Leaves)
  BY <1>1, FS_Subset
<1>3. /\ IsFiniteSet({<<<<t, l>>, v>> : l \in Content[v]})
      /\ Cardinality({<<<<t, l>>, v>> : l \in Content[v]}) <= Cardinality(Content[v])
  <2> DEFINE f == [l \in Content[v] |-> <<<<t, l>>, v>>]
  <2>1. f \in Surjection(Content[v], {<<<<t, l>>, v>> : l \in Content[v]})
    BY DEF Surjection
  <2> QED BY <2>1, <1>2, FS_Surjection
<1>4. IsFiniteSet(Imported(t, v)) /\ Cardinality(Imported(t, v)) <= Cardinality(Content[v])
  BY <1>3 DEF Imported
<1>5. Cardinality(Imported(t, v)) <= Cardinality(Leaves)
  <2>1. /\ Cardinality(Imported(t, v)) \in Nat /\ Cardinality(Content[v]) \in Nat
        /\ Cardinality(Leaves) \in Nat
    BY <1>2, <1>4, <1>1, FS_CardinalityType
  <2> QED BY <2>1, <1>2, <1>4
<1>6. /\ Imported(t, v) \subseteq StagedRows
      /\ \A r \in Imported(t, v) : r[1] \in Under(t) /\ r[2] = v
      /\ \A x \in Under(t) : x[2] \in Content[v] => <<x, v>> \in Imported(t, v)
      /\ \A r \in Imported(t, v) : r[1][2] \in Content[v]
  BY <1>1 DEF Imported, StagedRows, Paths, Under
<1> QED BY <1>4, <1>5, <1>6

\* What a record holds.
LEMMA RecordType ==
  ASSUME NEW rec \in Records
  PROVE  /\ rec.op \in {"add", "update", "remove"} /\ rec.name \in Names
         /\ rec.old \in Targets \cup {None} /\ rec.new \in Targets \cup {None}
         /\ rec.pre \in Configs /\ rec.post \in Configs
         /\ rec.windows \in 0 .. Cardinality(Leaves)
         /\ rec.phase \in {"publish", "regenerate"}
         /\ rec # None
  BY Constants DEF Records

\* What a configuration holds.
LEMMA ConfigType ==
  ASSUME NEW c \in Configs
  PROVE  /\ c.mounts \in Mounts /\ c.edit \in 0 .. MaxEdits
         /\ \A n \in Names : c.mounts[n] \in {None} \cup (Targets \X Versions)
         /\ \A n \in Names : c.mounts[n] # None =>
              c.mounts[n][1] \in Targets /\ c.mounts[n][2] \in Versions
  BY DEF Configs, Mounts

\* What a command remembers.
LEMMA JobType ==
  ASSUME NEW j \in Jobs
  PROVE  /\ j.kind \in Kinds \cup {"none"} /\ j.rec \in Records \cup {None}
         /\ j.recovering \in BOOLEAN /\ j.todo \subseteq StagedRows
         /\ j.landed \in BOOLEAN /\ j.path \in Paths \cup {None}
         /\ j.seen \in Snapshots \cup {None}
  BY DEF Jobs

\* The rows a sound record brings are the import of the mount it writes.
LEMMA SnapshotRows ==
  ASSUME NEW rec \in Records, Sound(rec)
  PROVE  /\ Snapshot(rec) \subseteq StagedRows
         /\ IsFiniteSet(Snapshot(rec))
         /\ Cardinality(Snapshot(rec)) <= Cardinality(Leaves)
         /\ rec.new # None =>
              /\ rec.new \in Targets /\ rec.name \in Names
              /\ rec.post.mounts[rec.name] # None
              /\ rec.post.mounts[rec.name][1] = rec.new
              /\ rec.post.mounts[rec.name][2] \in Versions
              /\ Snapshot(rec) = Imported(rec.new, rec.post.mounts[rec.name][2])
         /\ rec.new = None => Snapshot(rec) = {}
<1>1. CASE rec.new = None
  <2>1. Snapshot(rec) = {}
    BY <1>1 DEF Snapshot
  <2>2. IsFiniteSet({}) /\ Cardinality({}) = 0
    BY FS_EmptySet
  <2> QED BY <1>1, <2>1, <2>2, Constants
<1>2. CASE rec.new # None
  <2>1. rec.new \in Targets /\ rec.name \in Names /\ rec.pre.mounts \in Mounts
    BY <1>2, RecordType, ConfigType
  <2>2. PICK v \in Versions : rec.post.mounts = [rec.pre.mounts EXCEPT ![rec.name] = <<rec.new, v>>]
    BY <1>2 DEF Sound
  <2>3. rec.post.mounts[rec.name] = <<rec.new, v>>
    BY <2>1, <2>2 DEF Mounts
  <2>4. rec.post.mounts[rec.name] # None
    BY <2>1, <2>3, Constants
  <2>5. Snapshot(rec) = Imported(rec.new, v) /\ rec.post.mounts[rec.name][2] = v
    BY <1>2, <2>3 DEF Snapshot
  <2> QED BY <1>2, <2>1, <2>3, <2>4, <2>5, ImportedRows
<1> QED BY <1>1, <1>2
-----------------------------------------------------------------------------
(***************************************************************************)
(* Frames.                                                                 *)
(***************************************************************************)
Local(p) == Named(p) /\ Prepared(p) /\ Journalled(p)

\* One more window holds what it holds, and the others stay.
LEMMA StagedAppend ==
  ASSUME staged \in Seq(SUBSET StagedRows), NEW S \in SUBSET StagedRows,
         staged' = Append(staged, S)
  PROVE  /\ staged' \in Seq(SUBSET StagedRows)
         /\ Len(staged') = Len(staged) + 1 /\ Len(staged) \in Nat
         /\ Staged' = Staged \cup S
         /\ S # {} /\ (\A i \in 1 .. Len(staged) : staged[i] # {})
              => \A i \in 1 .. Len(staged') : staged'[i] # {}
<1>1. /\ staged' \in Seq(SUBSET StagedRows)
      /\ Len(staged') = Len(staged) + 1 /\ Len(staged) \in Nat
      /\ \A i \in 1 .. Len(staged) : staged'[i] = staged[i]
      /\ staged'[Len(staged) + 1] = S
  BY AppendProperties, LenProperties
<1>2. Staged' = Staged \cup S
  BY <1>1 DEF Staged
<1> QED BY <1>1, <1>2

\* No windows, no rows.
LEMMA StagedEmpty ==
  ASSUME staged' = << >>
  PROVE  staged' \in Seq(SUBSET StagedRows) /\ Len(staged') = 0 /\ Staged' = {}
<1>1. << >> \in Seq(SUBSET StagedRows) /\ Len(<< >>) = 0
  BY EmptySeq
<1> QED BY <1>1 DEF Staged

\* A process without the lock has nothing to lose by a step; one with it
\* loses nothing where journal, windows and mounts stay.
LEMMA Bystander ==
  ASSUME NEW q \in Procs, Local(q), pc'[q] = pc[q], job'[q] = job[q],
         \/ pc[q] \in Unlocked
         \/ journal' = journal /\ staged' = staged /\ config'.mounts = config.mounts
  PROVE  Local(q)'
<1>1. Named(q)'
  BY DEF Local, Named
<1>2. CASE pc[q] \in Unlocked
  <2>1. Prepared(q)' /\ Journalled(q)'
    BY <1>2 DEF Prepared, Journalled, Preparing, Rolling, Unlocked
  <2> QED BY <1>1, <2>1 DEF Local
<1>3. CASE journal' = journal /\ staged' = staged /\ config'.mounts = config.mounts
  <2>1. Prepared(q)'
    BY <1>3 DEF Local, Prepared, Staged
  <2>2. Journalled(q)'
    BY <1>3 DEF Local, Journalled, Staged, Publishing
  <2> QED BY <1>1, <2>1, <2>2 DEF Local
<1> QED BY <1>2, <1>3

\* A step that the holder of the lock makes, or one that takes it.
LEMMA ByHolder ==
  ASSUME Protocol, NEW p \in Procs, TypeOK',
         \A q \in Procs \ {p} : pc'[q] = pc[q] /\ job'[q] = job[q],
         pc[p] \notin Unlocked \/ owner = NoProc,
         owner' = IF pc'[p] \in Unlocked THEN NoProc ELSE p,
         Local(p)', Publishing' => Pending', config'.edit >= kept'
  PROVE  Protocol'
<1>1. \A q \in Procs \ {p} : pc[q] \in Unlocked
  BY Constants DEF Protocol, OneHolder
<1>2. OneHolder'
  BY <1>1, Constants DEF OneHolder
<1>3. \A q \in Procs \ {p} : Local(q)'
  BY <1>1, Bystander DEF Protocol, Local
<1> QED BY <1>2, <1>3 DEF Protocol, Local

\* A journal and its windows that stay are as complete as they were.
LEMMA PendingKept ==
  ASSUME Protocol, journal' = journal, staged' = staged, kept' = kept
  PROVE  Publishing' => Pending'
  BY DEF Protocol, Pending, Publishing, Staged

\* How the local operators move the process.
LEMMA Moved ==
  ASSUME TypeOK, NEW p \in Procs
  PROVE  /\ \A label \in Labels : Goto(p, label) =>
              /\ pc' \in [Procs -> Labels] /\ pc'[p] = label /\ job' = job /\ owner' = owner
              /\ \A q \in Procs \ {p} : pc'[q] = pc[q]
         /\ \A label \in Labels, j \in Jobs : Step(p, label, j) =>
              /\ pc' \in [Procs -> Labels] /\ pc'[p] = label /\ owner' = owner
              /\ job' \in [Procs -> Jobs] /\ job'[p] = j
              /\ \A q \in Procs \ {p} : pc'[q] = pc[q] /\ job'[q] = job[q]
         /\ Release(p) =>
              /\ pc' \in [Procs -> Labels] /\ pc'[p] = "idle" /\ owner' = NoProc
              /\ job' \in [Procs -> Jobs] /\ job'[p] = NoJob
              /\ \A q \in Procs \ {p} : pc'[q] = pc[q] /\ job'[q] = job[q]
<1>1. NoJob \in Jobs
  BY DEF NoJob, Jobs
<1>2. "idle" \in Labels
  BY DEF Labels
<1> QED BY <1>1, <1>2 DEF TypeOK, Goto, Step, Release

\* An idle process claims nothing.
LEMMA IdleLocal ==
  ASSUME NEW p \in Procs, pc'[p] = "idle", job'[p] = NoJob
  PROVE  Local(p)'
<1>1. Named(p)'
  BY DEF Named, NoJob
<1>2. Prepared(p)' /\ Journalled(p)'
  BY DEF Prepared, Journalled, Preparing, Rolling
<1> QED BY <1>1, <1>2 DEF Local

\* A command that gives up, or ends.
LEMMA Released ==
  ASSUME Protocol, NEW p \in Procs, Release(p), TypeOK',
         pc[p] \notin Unlocked \/ owner = NoProc,
         Publishing' => Pending', config'.edit >= kept'
  PROVE  Protocol'
<1>1. /\ pc'[p] = "idle" /\ owner' = NoProc /\ job'[p] = NoJob
      /\ \A q \in Procs \ {p} : pc'[q] = pc[q] /\ job'[q] = job[q]
  BY Moved DEF Protocol
<1>2. Local(p)'
  BY <1>1, IdleLocal
<1> QED BY <1>1, <1>2, ByHolder DEF Unlocked
-----------------------------------------------------------------------------
(***************************************************************************)
(* Protocol: lock and recovery.                                            *)
(***************************************************************************)
\* A command takes the RepoLock (protocol).
LEMMA AcquireProtocol ==
  ASSUME Protocol, NEW p \in Procs, NEW k \in Kinds, Acquire(p, k)
  PROVE  Protocol'
<1> DEFINE j == [NoJob EXCEPT !.kind = k]
<1>1. j \in Jobs /\ j.kind = k /\ j.rec = None /\ ~j.recovering /\ ~j.landed
  BY DEF Jobs, NoJob
<1>2. /\ pc[p] = "idle" /\ owner = NoProc /\ owner' = p
      /\ UNCHANGED <<config, rows, claims, excludes, journal, staged, kept, faults>>
  BY DEF Acquire, At, files, Aside
<1>3. pc' = [pc EXCEPT ![p] = "read"] /\ job' = [job EXCEPT ![p] = j]
  BY DEF Acquire
<1> HIDE DEF j
<1>4. /\ pc' \in [Procs -> Labels] /\ pc'[p] = "read" /\ job' \in [Procs -> Jobs] /\ job'[p] = j
      /\ \A q \in Procs \ {p} : pc'[q] = pc[q] /\ job'[q] = job[q]
  BY <1>1, <1>3 DEF Protocol, TypeOK, Labels
<1>5. TypeOK'
  BY <1>2, <1>4 DEF Protocol, TypeOK, Records, Configs, Mounts, Snapshots
<1>6. Local(p)'
  BY <1>1, <1>4 DEF Local, Named, Prepared, Journalled, Preparing, Rolling, Others
<1>7. (Publishing' => Pending') /\ config'.edit >= kept'
  BY <1>2, PendingKept DEF Protocol
<1> QED BY <1>2, <1>4, <1>5, <1>6, <1>7, ByHolder DEF Unlocked

\* Recovery finds no journal (protocol).
LEMMA ReadNothingProtocol ==
  ASSUME Protocol, NEW p \in Procs, ReadNothing(p)
  PROVE  Protocol'
<1>1. /\ pc[p] = "read" /\ journal = None /\ Goto(p, "ready")
      /\ UNCHANGED <<config, rows, claims, excludes, journal, staged, kept, faults>>
  BY DEF ReadNothing, At, files, Aside
<1>2. /\ pc' \in [Procs -> Labels] /\ pc'[p] = "ready" /\ job' = job /\ owner' = owner
      /\ \A q \in Procs \ {p} : pc'[q] = pc[q]
  BY <1>1, Moved DEF Protocol, Labels
<1>3. owner = p
  BY <1>1 DEF Protocol, OneHolder, Unlocked
<1>4. TypeOK'
  BY <1>1, <1>2 DEF Protocol, TypeOK
<1>5. Local(p)'
  BY <1>1, <1>2 DEF Protocol, Local, Named, Prepared, Journalled, Preparing, Rolling, Others
<1>6. (Publishing' => Pending') /\ config'.edit >= kept'
  BY <1>1, PendingKept DEF Protocol
<1> QED BY <1>1, <1>2, <1>3, <1>4, <1>5, <1>6, ByHolder DEF Unlocked

\* Recovery finds a journal it can read (protocol).
LEMMA ReadJournalProtocol ==
  ASSUME Protocol, NEW p \in Procs, ReadJournal(p)
  PROVE  Protocol'
<1> DEFINE j == [job[p] EXCEPT !.rec = journal, !.recovering = TRUE]
           label == IF journal.phase = "publish" THEN AfterJournal(journal) ELSE "excludes"
<1>1. /\ pc[p] = "read" /\ journal # None /\ Step(p, label, j)
      /\ UNCHANGED <<config, rows, claims, excludes, journal, staged, kept, faults>>
  BY DEF ReadJournal, At, files, Aside
<1>2. journal \in Records /\ job[p] \in Jobs
  BY <1>1 DEF Protocol, TypeOK
<1>3. j \in Jobs /\ j.rec = journal /\ j.recovering = TRUE /\ j.kind = job[p].kind
      /\ j.landed = job[p].landed
  BY <1>2 DEF Jobs
<1>4. label \in {"delete", "config", "excludes"} /\ label \in Labels
  BY DEF AfterJournal, Labels
<1>5. /\ label = "excludes" <=> ~Publishing
      /\ label = "delete" => journal.old # None
  BY <1>1, <1>2 DEF AfterJournal, Publishing, Records
<1> HIDE DEF j, label
<1>6. /\ pc' \in [Procs -> Labels] /\ pc'[p] = label /\ owner' = owner
      /\ job' \in [Procs -> Jobs] /\ job'[p] = j
      /\ \A q \in Procs \ {p} : pc'[q] = pc[q] /\ job'[q] = job[q]
  BY <1>1, <1>3, <1>4, Moved DEF Protocol
<1>7. owner = p
  BY <1>1 DEF Protocol, OneHolder, Unlocked
<1>8. TypeOK'
  BY <1>1, <1>6, <1>7 DEF Protocol, TypeOK
<1>9. Named(p)' /\ Prepared(p)'
  BY <1>1, <1>3, <1>4, <1>6 DEF Protocol, Named, Prepared, Preparing, Others
<1>10. Journalled(p)'
  BY <1>1, <1>3, <1>4, <1>5, <1>6 DEF Journalled, Preparing, Rolling, Publishing
<1>11. (Publishing' => Pending') /\ config'.edit >= kept'
  BY <1>1, PendingKept DEF Protocol
<1> QED BY <1>1, <1>4, <1>6, <1>7, <1>8, <1>9, <1>10, <1>11, ByHolder DEF Unlocked, Local

\* A command is refused, or cancelled (protocol).
LEMMA RefuseProtocol ==
  ASSUME Protocol, NEW p \in Procs, Refuse(p)
  PROVE  Protocol'
<1>1. /\ pc[p] = "ready" /\ Release(p)
      /\ UNCHANGED <<config, rows, claims, excludes, journal, staged, kept, faults>>
  BY DEF Refuse, At, files, Aside
<1>2. TypeOK'
  BY <1>1, Moved DEF Protocol, TypeOK
<1>3. (Publishing' => Pending') /\ config'.edit >= kept'
  BY <1>1, PendingKept DEF Protocol
<1> QED BY <1>1, <1>2, <1>3, Released DEF Unlocked

\* A command fails or is killed: its lock is free, all files stay (protocol).
LEMMA FailProtocol ==
  ASSUME Protocol, NEW p \in Procs, Fail(p)
  PROVE  Protocol'
<1>1. /\ pc[p] # "idle" /\ faults < MaxFaults /\ faults' = faults + 1
      /\ owner' = IF owner = p THEN NoProc ELSE owner
      /\ UNCHANGED <<config, rows, claims, excludes, journal, staged, kept>>
  BY DEF Fail, files
<1>2. NoJob \in Jobs /\ "idle" \in Labels
  BY DEF NoJob, Jobs, Labels
<1>3. /\ pc' \in [Procs -> Labels] /\ pc'[p] = "idle"
      /\ job' \in [Procs -> Jobs] /\ job'[p] = NoJob
      /\ \A q \in Procs \ {p} : pc'[q] = pc[q] /\ job'[q] = job[q]
  BY <1>2 DEF Fail, Protocol, TypeOK
<1>4. faults' \in 0 .. MaxFaults
  BY <1>1, Constants DEF Protocol, TypeOK
<1>5. TypeOK'
  BY <1>1, <1>3, <1>4 DEF Protocol, TypeOK
<1>6. OneHolder'
  BY <1>1, <1>3, Constants DEF Protocol, OneHolder, Unlocked
<1>7. \A q \in Procs \ {p} : Local(q)'
  BY <1>1, <1>3, Bystander DEF Protocol, Local
<1>8. Local(p)'
  BY <1>3, IdleLocal
<1>9. (Publishing' => Pending') /\ config'.edit >= kept'
  BY <1>1, PendingKept DEF Protocol
<1> QED BY <1>5, <1>6, <1>7, <1>8, <1>9 DEF Protocol, Local
-----------------------------------------------------------------------------
(***************************************************************************)
(* Protocol: the mount commands, up to the journal.                        *)
(***************************************************************************)
\* A record made of a free target is sound.
LEMMA RecordMade ==
  ASSUME TypeOK, NEW op \in {"add", "update", "remove"}, NEW n \in Names,
         NEW old \in Targets \cup {None}, NEW new \in Targets \cup {None},
         NEW mount \in {None} \cup (Targets \X Versions)
  PROVE  LET rec == Record(op, n, old, new, mount) IN
         /\ rec \in Records /\ rec # None
         /\ rec.op = op /\ rec.name = n /\ rec.old = old /\ rec.new = new
         /\ rec.pre = config /\ rec.post.edit = config.edit
         /\ rec.post.mounts = [config.mounts EXCEPT ![n] = mount]
         /\ rec.phase = "publish"
<1> DEFINE post == [config EXCEPT !.mounts[n] = mount]
           rec == Record(op, n, old, new, mount)
<1>1. /\ post \in Configs /\ post.edit = config.edit
      /\ post.mounts = [config.mounts EXCEPT ![n] = mount]
  BY ConfigEdit DEF TypeOK
<1>2. rec = [op |-> op, name |-> n, old |-> old, new |-> new, pre |-> config,
             post |-> post, windows |-> 0, phase |-> "publish"]
  BY DEF Record
<1> HIDE DEF post, rec
<1>3. 0 \in 0 .. Cardinality(Leaves) /\ config \in Configs
  BY Constants DEF TypeOK
<1>4. rec \in Records
  BY <1>1, <1>2, <1>3 DEF Records
<1>5. rec # None
  BY <1>4, Constants
<1>6. /\ rec.op = op /\ rec.name = n /\ rec.old = old /\ rec.new = new
      /\ rec.pre = config /\ rec.post = post /\ rec.phase = "publish"
  BY <1>2
<1> QED BY <1>1, <1>4, <1>5, <1>6 DEF rec

\* A mount command that found its target free makes its record (protocol).
LEMMA BeginProtocol ==
  ASSUME Protocol, NEW p \in Procs, pc[p] = "ready", NEW rec \in Records, Sound(rec),
         Begin(p, rec, Snapshot(rec))
  PROVE  Protocol'
<1> DEFINE j == [job[p] EXCEPT !.rec = rec, !.todo = Snapshot(rec)]
<1>1. /\ Step(p, "reset", j)
      /\ UNCHANGED <<config, rows, claims, excludes, journal, staged, kept, faults>>
  BY DEF Begin, files, Aside
<1>2. Snapshot(rec) \subseteq StagedRows /\ job[p] \in Jobs /\ rec # None
  BY SnapshotRows, Constants DEF Protocol, TypeOK
<1>3. /\ j \in Jobs /\ j.rec = rec /\ j.todo = Snapshot(rec) /\ j.kind = job[p].kind
      /\ j.recovering = job[p].recovering /\ j.landed = job[p].landed
  BY <1>2 DEF Jobs
<1> HIDE DEF j
<1>4. /\ pc' \in [Procs -> Labels] /\ pc'[p] = "reset" /\ owner' = owner
      /\ job' \in [Procs -> Jobs] /\ job'[p] = j
      /\ \A q \in Procs \ {p} : pc'[q] = pc[q] /\ job'[q] = job[q]
  BY <1>1, <1>3, Moved DEF Protocol, Labels
<1>5. owner = p
  BY DEF Protocol, OneHolder, Unlocked
<1>6. TypeOK'
  BY <1>1, <1>4, <1>5 DEF Protocol, TypeOK
<1>7. Named(p)' /\ Journalled(p)'
  BY <1>1, <1>3, <1>4 DEF Protocol, Named, Journalled, Preparing, Rolling, Others
<1>8. Prepared(p)'
  BY <1>2, <1>3, <1>4 DEF Prepared
<1>9. (Publishing' => Pending') /\ config'.edit >= kept'
  BY <1>1, PendingKept DEF Protocol
<1> QED BY <1>4, <1>5, <1>6, <1>7, <1>8, <1>9, ByHolder DEF Unlocked, Local

\* The record a mount command begins with, and what the command has seen.
Begins(p, rec) ==
  /\ pc[p] = "ready"
  /\ rec \in Records /\ Sound(rec) /\ rec.pre = config
  /\ Bring(rec) => Vacant(rec.new)
  /\ Begin(p, rec, Snapshot(rec))

\* add, update and remove begin alike: the record is sound, and an added or
\* moved mount goes where nothing is.
LEMMA BeginsOne ==
  ASSUME Protocol, NEW p \in Procs, BeginAdd(p) \/ BeginUpdate(p) \/ BeginRemove(p)
  PROVE  \E rec \in Records : Begins(p, rec)
<1>0. TypeOK /\ config.mounts \in Mounts /\ pc[p] = "ready"
  BY ConfigType DEF Protocol, TypeOK, BeginAdd, BeginUpdate, BeginRemove, Ready, At
<1>1. CASE BeginAdd(p)
  <2>1. PICK n \in Names, t \in Targets, v \in Versions :
          /\ config.mounts[n] = None /\ Free(n, t) /\ Vacant(t)
          /\ Begin(p, Record("add", n, None, t, <<t, v>>), Imported(t, v))
    BY <1>1 DEF BeginAdd
  <2> DEFINE rec == Record("add", n, None, t, <<t, v>>)
  <2>2. /\ rec \in Records /\ rec.op = "add" /\ rec.name = n /\ rec.old = None /\ rec.new = t
        /\ rec.pre = config /\ rec.post.edit = config.edit /\ rec.phase = "publish"
        /\ rec.post.mounts = [config.mounts EXCEPT ![n] = <<t, v>>]
    BY <1>0, RecordMade
  <2> HIDE DEF rec
  <2>3. t # None
    BY Constants
  <2>4. Sound(rec)
    BY <2>1, <2>2, <2>3 DEF Sound, Free
  <2>5. Snapshot(rec) = Imported(t, v)
    BY <1>0, <2>2, <2>3 DEF Snapshot, Mounts
  <2> QED BY <1>0, <2>1, <2>2, <2>4, <2>5 DEF Begins, rec
<1>2. CASE BeginUpdate(p)
  <2>1. PICK n \in Names, t \in Targets, v \in Versions :
          /\ config.mounts[n] # None /\ Free(n, t)
          /\ t # config.mounts[n][1] => Vacant(t)
          /\ Begin(p, Record("update", n, config.mounts[n][1], t, <<t, v>>), Imported(t, v))
    BY <1>2 DEF BeginUpdate
  <2> DEFINE old == config.mounts[n][1]
             rec == Record("update", n, old, t, <<t, v>>)
  <2>2. old \in Targets /\ old # None /\ t # None
    BY <2>1, Constants, ConfigType DEF Protocol, TypeOK
  <2>3. /\ rec \in Records /\ rec.op = "update" /\ rec.name = n /\ rec.old = old /\ rec.new = t
        /\ rec.pre = config /\ rec.post.edit = config.edit /\ rec.phase = "publish"
        /\ rec.post.mounts = [config.mounts EXCEPT ![n] = <<t, v>>]
    BY <1>0, <2>2, RecordMade
  <2> HIDE DEF rec
  <2>4. Sound(rec)
    BY <2>1, <2>2, <2>3 DEF Sound, Free
  <2>5. Snapshot(rec) = Imported(t, v)
    BY <1>0, <2>2, <2>3 DEF Snapshot, Mounts
  <2> QED BY <1>0, <2>1, <2>3, <2>4, <2>5 DEF Begins, Bring, rec
<1>3. CASE BeginRemove(p)
  <2>1. PICK n \in Names :
          /\ config.mounts[n] # None
          /\ Begin(p, Record("remove", n, config.mounts[n][1], None, None), {})
    BY <1>3 DEF BeginRemove
  <2> DEFINE old == config.mounts[n][1]
             rec == Record("remove", n, old, None, None)
  <2>2. old \in Targets /\ old # None
    BY <2>1, Constants, ConfigType DEF Protocol, TypeOK
  <2>a. /\ None \in {None} \cup (Targets \X Versions) /\ None \in Targets \cup {None}
        /\ old \in Targets \cup {None}
    BY <2>2
  <2>3. /\ rec \in Records /\ rec.op = "remove" /\ rec.name = n /\ rec.old = old /\ rec.new = None
        /\ rec.pre = config /\ rec.post.edit = config.edit /\ rec.phase = "publish"
        /\ rec.post.mounts = [config.mounts EXCEPT ![n] = None]
    <3> HIDE DEF old
    <3>1. \A new \in Targets \cup {None}, mount \in {None} \cup (Targets \X Versions) :
            LET r == Record("remove", n, old, new, mount) IN
            /\ r \in Records /\ r.op = "remove" /\ r.name = n /\ r.old = old /\ r.new = new
            /\ r.pre = config /\ r.post.edit = config.edit /\ r.phase = "publish"
            /\ r.post.mounts = [config.mounts EXCEPT ![n] = mount]
      BY <1>0, <2>a, RecordMade
    <3> QED BY <2>a, <3>1
  <2> HIDE DEF rec
  <2>4. Sound(rec)
    BY <2>1, <2>2, <2>3 DEF Sound
  <2>5. Snapshot(rec) = {}
    BY <2>3 DEF Snapshot
  <2> QED BY <1>0, <2>1, <2>3, <2>4, <2>5 DEF Begins, Bring, rec
<1> QED BY <1>1, <1>2, <1>3

\* detach takes the mount out of gat.yaml (protocol).
LEMMA DetachProtocol ==
  ASSUME Protocol, NEW p \in Procs, Detach(p)
  PROVE  Protocol'
<1>1. PICK n \in Names : config' = [config EXCEPT !.mounts[n] = None]
  BY DEF Detach
<1>2. /\ pc[p] = "ready" /\ Release(p)
      /\ UNCHANGED <<rows, claims, excludes, journal, staged, kept, faults>>
  BY DEF Detach, Ready, At, Aside
<1>3. config' \in Configs /\ config'.edit = config.edit
  <2>1. config \in Configs /\ None \in {None} \cup (Targets \X Versions)
    BY DEF Protocol, TypeOK
  <2> QED BY <1>1, <2>1, ConfigEdit
<1>4. TypeOK'
  BY <1>2, <1>3, Moved DEF Protocol, TypeOK
<1>5. (Publishing' => Pending') /\ config'.edit >= kept'
  BY <1>2, <1>3, PendingKept DEF Protocol
<1> QED BY <1>2, <1>4, <1>5, Released DEF Unlocked

\* The windows of an earlier transaction go (protocol).
LEMMA ResetStagedProtocol ==
  ASSUME Protocol, NEW p \in Procs, ResetStaged(p)
  PROVE  Protocol'
<1>1. /\ pc[p] = "reset" /\ staged' = << >> /\ Goto(p, "stage")
      /\ UNCHANGED <<config, rows, claims, excludes, journal, kept, faults>>
  BY DEF ResetStaged, At, Aside
<1>2. /\ pc' \in [Procs -> Labels] /\ pc'[p] = "stage" /\ job' = job /\ owner' = owner
      /\ \A q \in Procs \ {p} : pc'[q] = pc[q]
  BY <1>1, Moved DEF Protocol, Labels
<1>3. owner = p /\ journal = None /\ Named(p) /\ Prepared(p)
  BY <1>1 DEF Protocol, OneHolder, Unlocked, Journalled, Preparing
<1>4. staged' \in Seq(SUBSET StagedRows) /\ Len(staged') = 0 /\ Staged' = {}
  BY <1>1, StagedEmpty
<1>5. TypeOK'
  BY <1>1, <1>2, <1>3, <1>4 DEF Protocol, TypeOK
<1>6. Named(p)' /\ Journalled(p)'
  BY <1>1, <1>2, <1>3 DEF Named, Journalled, Preparing, Rolling, Others
<1>7. /\ job[p].rec \in Records /\ Sound(job[p].rec)
      /\ job[p].todo = Snapshot(job[p].rec) /\ job[p].rec # None
  BY <1>1, <1>3, JobType DEF Prepared, Preparing, Protocol, TypeOK
<1>8. Cardinality(job[p].todo) <= Cardinality(Leaves) /\ Cardinality(job[p].todo) \in Nat
  BY <1>7, SnapshotRows, FS_CardinalityType
<1>9. Prepared(p)'
  BY <1>2, <1>4, <1>7, <1>8 DEF Prepared
<1>10. (Publishing' => Pending') /\ config'.edit >= kept'
  BY <1>1, <1>3 DEF Protocol, Publishing
<1> QED BY <1>2, <1>3, <1>1, <1>5, <1>6, <1>9, <1>10, ByHolder DEF Unlocked, Local

\* One window of rows is staged (protocol).
LEMMA StageWindowProtocol ==
  ASSUME Protocol, NEW p \in Procs, StageWindow(p)
  PROVE  Protocol'
<1>1. PICK S \in SUBSET job[p].todo :
        /\ S # {} /\ staged' = Append(staged, S)
        /\ Step(p, "stage", [job[p] EXCEPT !.todo = @ \ S])
  BY DEF StageWindow
<1> DEFINE j == [job[p] EXCEPT !.todo = @ \ S]
<1>2. /\ pc[p] = "stage"
      /\ UNCHANGED <<config, rows, claims, excludes, journal, kept, faults>>
  BY DEF StageWindow, At, Aside
<1>3. /\ owner = p /\ journal = None /\ Named(p) /\ Prepared(p)
      /\ job[p] \in Jobs /\ job[p].todo \subseteq StagedRows
  BY <1>2, JobType DEF Protocol, OneHolder, Unlocked, Journalled, Preparing, TypeOK
<1>4. /\ j \in Jobs /\ j.rec = job[p].rec /\ j.todo = job[p].todo \ S /\ j.kind = job[p].kind
      /\ j.recovering = job[p].recovering /\ j.landed = job[p].landed
  BY <1>3 DEF Jobs
<1>5. Step(p, "stage", j)
  BY <1>1
<1> HIDE DEF j
<1>6. /\ pc' \in [Procs -> Labels] /\ pc'[p] = "stage" /\ owner' = owner
      /\ job' \in [Procs -> Jobs] /\ job'[p] = j
      /\ \A q \in Procs \ {p} : pc'[q] = pc[q] /\ job'[q] = job[q]
  BY <1>4, <1>5, Moved DEF Protocol, Labels
<1>7. /\ job[p].rec \in Records /\ job[p].rec # None /\ Sound(job[p].rec)
      /\ Staged \cup job[p].todo = Snapshot(job[p].rec)
      /\ \A i \in 1 .. Len(staged) : staged[i] # {}
      /\ Len(staged) + Cardinality(job[p].todo) <= Cardinality(Leaves)
  BY <1>2, <1>3, JobType DEF Prepared, Preparing
<1>8. /\ staged' \in Seq(SUBSET StagedRows) /\ Len(staged') = Len(staged) + 1
      /\ Len(staged) \in Nat /\ Staged' = Staged \cup S
      /\ \A i \in 1 .. Len(staged') : staged'[i] # {}
  BY <1>1, <1>3, <1>7, StagedAppend DEF Protocol, TypeOK
<1>9. TypeOK'
  BY <1>2, <1>3, <1>6, <1>8 DEF Protocol, TypeOK
<1>10. Named(p)' /\ Journalled(p)'
  BY <1>2, <1>3, <1>4, <1>6 DEF Named, Journalled, Preparing, Rolling, Others
<1>11. IsFiniteSet(job[p].todo)
  BY <1>7, SnapshotRows, FS_Subset
<1>12. /\ Cardinality(j.todo) + 1 <= Cardinality(job[p].todo)
       /\ Cardinality(j.todo) \in Nat /\ Cardinality(job[p].todo) \in Nat
  <2>1. PICK r \in S : TRUE
    BY <1>1
  <2>2. r \in job[p].todo /\ j.todo \subseteq job[p].todo \ {r}
    BY <1>1, <1>4
  <2>3. /\ IsFiniteSet(job[p].todo \ {r})
        /\ Cardinality(job[p].todo \ {r}) = Cardinality(job[p].todo) - 1
    BY <1>11, <2>2, FS_RemoveElement
  <2>4. IsFiniteSet(j.todo) /\ Cardinality(j.todo) <= Cardinality(job[p].todo \ {r})
    BY <2>2, <2>3, FS_Subset
  <2> QED BY <1>11, <2>3, <2>4, FS_CardinalityType
<1>13. Len(staged') + Cardinality(j.todo) <= Cardinality(Leaves)
  BY <1>7, <1>8, <1>12, Constants
<1>14. Staged' \cup j.todo = Snapshot(job[p].rec)
  BY <1>1, <1>4, <1>7, <1>8
<1>15. Prepared(p)'
  BY <1>4, <1>6, <1>7, <1>8, <1>13, <1>14 DEF Prepared
<1>16. (Publishing' => Pending') /\ config'.edit >= kept'
  BY <1>2, <1>3 DEF Protocol, Publishing
<1> QED BY <1>2, <1>3, <1>6, <1>9, <1>10, <1>15, <1>16, ByHolder DEF Unlocked, Local

\* The journal is the record of the process with the configuration of that
\* moment, so it asks for the same rows.
LEMMA SameTransaction ==
  ASSUME NEW rec \in Records, Sound(rec), NEW k \in 0 .. Cardinality(Leaves)
  PROVE  LET j == [rec EXCEPT !.windows = k] IN
         /\ j \in Records /\ j # None /\ Sound(j) /\ Snapshot(j) = Snapshot(rec)
         /\ j.windows = k /\ j.pre = rec.pre /\ j.post = rec.post /\ j.name = rec.name
         /\ j.op = rec.op /\ j.old = rec.old /\ j.new = rec.new /\ j.phase = "publish"
<1> DEFINE j == [rec EXCEPT !.windows = k]
<1>1. /\ j \in Records /\ j.windows = k /\ j.pre = rec.pre /\ j.post = rec.post
      /\ j.op = rec.op /\ j.old = rec.old /\ j.new = rec.new /\ j.phase = rec.phase
      /\ j.name = rec.name
  BY DEF Records
<1>2. rec.phase = "publish"
  BY DEF Sound
<1> HIDE DEF j
<1>3. Sound(j)
  BY <1>1, <1>2 DEF Sound
<1>4. Snapshot(j) = Snapshot(rec)
  BY <1>1 DEF Snapshot
<1> QED BY <1>1, <1>2, <1>3, <1>4, Constants DEF j

\* The journal is written once all windows are (protocol).
LEMMA WriteJournalProtocol ==
  ASSUME Protocol, NEW p \in Procs, WriteJournal(p)
  PROVE  /\ Protocol'
         /\ job[p].rec \in Records /\ Sound(job[p].rec) /\ Staged = Snapshot(job[p].rec)
         /\ journal' # None /\ Publishing' /\ Snapshot(journal') = Snapshot(job[p].rec)
         /\ journal'.pre = job[p].rec.pre /\ journal'.post = job[p].rec.post
         /\ journal'.op = job[p].rec.op /\ journal'.name = job[p].rec.name
         /\ journal'.old = job[p].rec.old /\ journal'.new = job[p].rec.new
         /\ Sound(journal') /\ journal' \in Records
         /\ pc'[p] = AfterJournal(journal') /\ job'[p].rec = journal'
         /\ ~job'[p].recovering /\ ~job'[p].landed
<1> DEFINE rec == job[p].rec
           jn == [rec EXCEPT !.windows = Len(staged)]
           j == [job[p] EXCEPT !.rec = jn]
<1>1. /\ pc[p] = "stage" /\ job[p].todo = {} /\ config = rec.pre
      /\ journal' = jn /\ Step(p, AfterJournal(jn), j)
      /\ UNCHANGED <<config, rows, claims, excludes, staged, kept, faults>>
  BY DEF WriteJournal, At, Unchanged, Aside
<1>2. /\ owner = p /\ journal = None /\ Named(p) /\ Prepared(p) /\ job[p] \in Jobs
      /\ staged \in Seq(SUBSET StagedRows)
  BY <1>1 DEF Protocol, OneHolder, Unlocked, Journalled, Preparing, TypeOK
<1>3. /\ rec \in Records /\ rec # None /\ Sound(rec) /\ Staged = Snapshot(rec)
      /\ \A i \in 1 .. Len(staged) : staged[i] # {}
      /\ Len(staged) + Cardinality({}) <= Cardinality(Leaves)
  BY <1>1, <1>2, JobType DEF Prepared, Preparing
<1>4. Len(staged) \in 0 .. Cardinality(Leaves)
  <2>1. Len(staged) \in Nat /\ Cardinality({}) = 0 /\ Cardinality(Leaves) \in Nat
    BY <1>2, LenProperties, FS_EmptySet, Constants
  <2> QED BY <1>3, <2>1
<1>5. /\ jn \in Records /\ jn # None /\ Sound(jn) /\ Snapshot(jn) = Snapshot(rec)
      /\ jn.windows = Len(staged) /\ jn.pre = rec.pre /\ jn.post = rec.post /\ jn.name = rec.name
      /\ jn.op = rec.op /\ jn.old = rec.old /\ jn.new = rec.new /\ jn.phase = "publish"
  BY <1>3, <1>4, SameTransaction
<1> HIDE DEF jn, rec
<1>6. /\ j \in Jobs /\ j.rec = jn /\ j.kind = job[p].kind /\ j.todo = job[p].todo
      /\ j.recovering = job[p].recovering /\ j.landed = job[p].landed
  BY <1>2, <1>5 DEF Jobs
<1>7. AfterJournal(jn) \in {"delete", "config"} /\ AfterJournal(jn) \in Labels
  BY DEF AfterJournal, Labels
<1>8. AfterJournal(jn) = "delete" => jn.old # None
  BY DEF AfterJournal
<1> HIDE DEF j
<1>9. /\ pc' \in [Procs -> Labels] /\ pc'[p] = AfterJournal(jn) /\ owner' = owner
      /\ job' \in [Procs -> Jobs] /\ job'[p] = j
      /\ \A q \in Procs \ {p} : pc'[q] = pc[q] /\ job'[q] = job[q]
  BY <1>1, <1>6, <1>7, Moved DEF Protocol
<1>10. TypeOK'
  BY <1>1, <1>2, <1>5, <1>9 DEF Protocol, TypeOK
<1>11. Named(p)' /\ Prepared(p)'
  BY <1>1, <1>2, <1>6, <1>7, <1>9 DEF Named, Prepared, Preparing, Others
<1>12. Publishing'
  BY <1>1, <1>5 DEF Publishing
<1>13. Journalled(p)'
  BY <1>1, <1>2, <1>5, <1>6, <1>7, <1>8, <1>9, <1>12 DEF Named, Journalled, Preparing, Rolling
<1>14. Pending'
  <2>1. Staged' = Staged /\ config.edit >= kept
    BY <1>1 DEF Staged, Protocol
  <2> QED BY <1>1, <1>3, <1>5, <2>1 DEF Pending
<1>15. config'.edit >= kept'
  BY <1>1 DEF Protocol
<1>16. Protocol'
  BY <1>1, <1>2, <1>7, <1>9, <1>10, <1>11, <1>13, <1>14, <1>15, ByHolder DEF Unlocked, Local
<1>17. ~j.recovering /\ ~j.landed
  BY <1>1, <1>2, <1>6 DEF Named
<1> QED BY <1>1, <1>3, <1>5, <1>6, <1>9, <1>12, <1>16, <1>17 DEF rec

\* gat.yaml has changed meanwhile (protocol).
LEMMA RefuseChangedProtocol ==
  ASSUME Protocol, NEW p \in Procs, RefuseChanged(p)
  PROVE  Protocol'
<1>1. /\ pc[p] = "stage" /\ Release(p)
      /\ UNCHANGED <<config, rows, claims, excludes, journal, staged, kept, faults>>
  BY DEF RefuseChanged, At, files, Aside
<1>2. TypeOK'
  BY <1>1, Moved DEF Protocol, TypeOK
<1>3. (Publishing' => Pending') /\ config'.edit >= kept'
  BY <1>1, PendingKept DEF Protocol
<1> QED BY <1>1, <1>2, <1>3, Released DEF Unlocked
-----------------------------------------------------------------------------
(***************************************************************************)
(* Protocol: from the journal to its end.                                  *)
(***************************************************************************)
\* One shard of the old target loses its rows (protocol).
LEMMA DeleteShardProtocol ==
  ASSUME Protocol, NEW p \in Procs, DeleteShard(p)
  PROVE  Protocol'
<1>1. PICK S \in SUBSET Doomed(p) : rows' = [x \in Paths |-> IF x \in S THEN None ELSE rows[x]]
  BY DEF DeleteShard
<1>2. /\ pc[p] = "delete" /\ Goto(p, "delete")
      /\ UNCHANGED <<config, claims, excludes, journal, staged, kept, faults>>
  BY DEF DeleteShard, At, Aside
<1>3. /\ pc' \in [Procs -> Labels] /\ pc'[p] = "delete" /\ job' = job /\ owner' = owner
      /\ \A q \in Procs \ {p} : pc'[q] = pc[q]
  BY <1>2, Moved DEF Protocol, Labels
<1>4. owner = p /\ Local(p)
  BY <1>2 DEF Protocol, OneHolder, Unlocked, Local
<1>5. rows' \in Snapshots
  BY <1>1 DEF Protocol, TypeOK, Snapshots
<1>6. TypeOK'
  BY <1>2, <1>3, <1>4, <1>5 DEF Protocol, TypeOK
<1>7. Local(p)'
  BY <1>2, <1>3, <1>4, Bystander
<1>8. (Publishing' => Pending') /\ config'.edit >= kept'
  BY <1>2, PendingKept DEF Protocol
<1> QED BY <1>2, <1>3, <1>4, <1>6, <1>7, <1>8, ByHolder DEF Unlocked

\* The claims below the old target go (protocol).
LEMMA ForgetSubtreeProtocol ==
  ASSUME Protocol, NEW p \in Procs, ForgetSubtree(p)
  PROVE  Protocol'
<1>1. /\ pc[p] = "delete" /\ Goto(p, "config")
      /\ claims' = claims \ Under(job[p].rec.old)
      /\ UNCHANGED <<config, rows, excludes, journal, staged, kept, faults>>
  BY DEF ForgetSubtree, At, Aside
<1>2. /\ pc' \in [Procs -> Labels] /\ pc'[p] = "config" /\ job' = job /\ owner' = owner
      /\ \A q \in Procs \ {p} : pc'[q] = pc[q]
  BY <1>1, Moved DEF Protocol, Labels
<1>3. owner = p /\ Named(p) /\ Journalled(p)
  BY <1>1 DEF Protocol, OneHolder, Unlocked
<1>4. TypeOK'
  BY <1>1, <1>2, <1>3 DEF Protocol, TypeOK
<1>5. (Publishing' => Pending') /\ config'.edit >= kept'
  BY <1>1, PendingKept DEF Protocol
<1>6. Named(p)' /\ Prepared(p)'
  BY <1>1, <1>2, <1>3 DEF Named, Prepared, Preparing, Others
<1>7. Journalled(p)'
  BY <1>1, <1>2, <1>3 DEF Journalled, Preparing, Rolling, Publishing
<1> QED BY <1>1, <1>2, <1>3, <1>4, <1>5, <1>6, <1>7, ByHolder DEF Unlocked, Local

\* gat.yaml is written from the record (protocol).
LEMMA SaveConfigProtocol ==
  ASSUME Protocol, NEW p \in Procs, SaveConfig(p)
  PROVE  Protocol'
<1> DEFINE j == [job[p] EXCEPT !.todo = UNION {staged[i] : i \in 1 .. job[p].rec.windows}]
<1>1. /\ pc[p] = "config" /\ Step(p, "replay", j) /\ config' = job[p].rec.post
      /\ UNCHANGED <<rows, claims, excludes, journal, staged, kept, faults>>
  BY DEF SaveConfig, At, Aside
<1>2. /\ owner = p /\ Named(p) /\ journal = job[p].rec /\ Publishing /\ job[p] \in Jobs
      /\ journal \in Records
  BY <1>1 DEF Protocol, OneHolder, Unlocked, Journalled, Rolling, TypeOK, Publishing
<1>3. Pending /\ Staged = UNION {staged[i] : i \in 1 .. job[p].rec.windows}
  BY <1>2 DEF Protocol, Pending, Staged
<1>4. Staged \subseteq StagedRows
  BY <1>2, <1>3, SnapshotRows DEF Pending
<1>5. /\ j \in Jobs /\ j.todo = Staged /\ j.rec = job[p].rec /\ j.kind = job[p].kind
      /\ j.recovering = job[p].recovering /\ j.landed = job[p].landed
  BY <1>2, <1>3, <1>4 DEF Jobs
<1> HIDE DEF j
<1>6. /\ pc' \in [Procs -> Labels] /\ pc'[p] = "replay" /\ owner' = owner
      /\ job' \in [Procs -> Jobs] /\ job'[p] = j
      /\ \A q \in Procs \ {p} : pc'[q] = pc[q] /\ job'[q] = job[q]
  BY <1>1, <1>5, Moved DEF Protocol, Labels
<1>7. config' = journal.post /\ config' \in Configs /\ config'.edit >= kept
  BY <1>1, <1>2, <1>3, RecordType DEF Pending, Sound
<1>8. TypeOK'
  BY <1>1, <1>2, <1>6, <1>7 DEF Protocol, TypeOK
<1>9. Named(p)' /\ Prepared(p)'
  BY <1>1, <1>2, <1>5, <1>6 DEF Named, Prepared, Preparing, Others
<1>10. Staged' = Staged /\ Publishing'
  BY <1>1, <1>2 DEF Staged, Publishing
<1>11. Journalled(p)'
  BY <1>1, <1>2, <1>5, <1>6, <1>7, <1>10 DEF Journalled, Preparing, Rolling
<1>12. (Publishing' => Pending') /\ config'.edit >= kept'
  BY <1>1, <1>7, PendingKept
<1> QED BY <1>1, <1>2, <1>6, <1>8, <1>9, <1>11, <1>12, ByHolder DEF Unlocked, Local

\* Rows that are replayed are rows.
LEMMA ReplayedRows ==
  ASSUME TypeOK, NEW S \in SUBSET StagedRows
  PROVE  /\ Replayed(S) \in Snapshots
         /\ \A x \in Paths :
              \/ /\ \E r \in S : r[1] = x /\ Replayed(S)[x] = r[2]
              \/ (~\E r \in S : r[1] = x) /\ Replayed(S)[x] = rows[x]
<1> DEFINE pick(x) == CHOOSE r \in S : r[1] = x
<1>1. \A x \in Paths : (\E r \in S : r[1] = x) => pick(x) \in S /\ pick(x)[1] = x
  OBVIOUS
<1>2. Replayed(S) = [x \in Paths |-> IF \E r \in S : r[1] = x THEN pick(x)[2] ELSE rows[x]]
  BY DEF Replayed
<1> HIDE DEF pick
<1>3. \A r \in S : r[2] \in Versions
  BY DEF StagedRows
<1> QED BY <1>1, <1>2, <1>3 DEF Snapshots, TypeOK

\* One shard gets its rows (protocol).
LEMMA ReplayShardProtocol ==
  ASSUME Protocol, NEW p \in Procs, ReplayShard(p)
  PROVE  Protocol'
<1>1. PICK S \in SUBSET job[p].todo :
        /\ rows' = Replayed(S)
        /\ Step(p, "replay", [job[p] EXCEPT !.todo = @ \ S, !.landed = TRUE])
  BY DEF ReplayShard
<1> DEFINE j == [job[p] EXCEPT !.todo = @ \ S, !.landed = TRUE]
<1>2. /\ pc[p] = "replay"
      /\ UNCHANGED <<config, claims, excludes, journal, staged, kept, faults>>
  BY DEF ReplayShard, At, Aside
<1>3. /\ owner = p /\ Named(p) /\ Journalled(p) /\ job[p] \in Jobs
      /\ job[p].todo \subseteq StagedRows
  BY <1>2, JobType DEF Protocol, OneHolder, Unlocked, TypeOK
<1>4. /\ j \in Jobs /\ j.todo = job[p].todo \ S /\ j.rec = job[p].rec /\ j.kind = job[p].kind
      /\ j.recovering = job[p].recovering
  BY <1>3 DEF Jobs
<1>5. Step(p, "replay", j)
  BY <1>1
<1> HIDE DEF j
<1>6. /\ pc' \in [Procs -> Labels] /\ pc'[p] = "replay" /\ owner' = owner
      /\ job' \in [Procs -> Jobs] /\ job'[p] = j
      /\ \A q \in Procs \ {p} : pc'[q] = pc[q] /\ job'[q] = job[q]
  BY <1>4, <1>5, Moved DEF Protocol, Labels
<1>7. rows' \in Snapshots
  BY <1>1, <1>3, ReplayedRows DEF Protocol
<1>8. TypeOK'
  BY <1>2, <1>3, <1>6, <1>7 DEF Protocol, TypeOK
<1>9. Named(p)' /\ Prepared(p)'
  BY <1>2, <1>3, <1>4, <1>6 DEF Named, Prepared, Preparing, Others
<1>10. Staged' = Staged /\ (Publishing' <=> Publishing)
  BY <1>2 DEF Staged, Publishing
<1>11. Journalled(p)'
  BY <1>2, <1>3, <1>4, <1>6, <1>10 DEF Journalled, Preparing, Rolling
<1>12. (Publishing' => Pending') /\ config'.edit >= kept'
  BY <1>2, PendingKept DEF Protocol
<1> QED BY <1>2, <1>3, <1>6, <1>8, <1>9, <1>11, <1>12, ByHolder DEF Unlocked, Local

\* A failed add takes gat.yaml back (protocol).
LEMMA RollBackProtocol ==
  ASSUME Protocol, NEW p \in Procs, RollBack(p)
  PROVE  Protocol'
<1>1. /\ pc[p] = "replay" /\ Goto(p, "clear") /\ config' = job[p].rec.pre
      /\ faults < MaxFaults /\ faults' = faults + 1
      /\ UNCHANGED <<rows, claims, excludes, journal, staged, kept>>
  BY DEF RollBack, At
<1>2. /\ owner = p /\ Named(p) /\ journal = job[p].rec /\ Publishing /\ Pending
      /\ journal \in Records
  BY <1>1 DEF Protocol, OneHolder, Unlocked, Journalled, Rolling, TypeOK, Publishing
<1>3. /\ pc' \in [Procs -> Labels] /\ pc'[p] = "clear" /\ job' = job /\ owner' = owner
      /\ \A q \in Procs \ {p} : pc'[q] = pc[q]
  BY <1>1, Moved DEF Protocol, Labels
<1>4. config' \in Configs /\ config'.edit >= kept
  BY <1>1, <1>2, RecordType DEF Pending
<1>5. faults' \in 0 .. MaxFaults
  BY <1>1, Constants DEF Protocol, TypeOK
<1>6. TypeOK'
  BY <1>1, <1>2, <1>3, <1>4, <1>5 DEF Protocol, TypeOK
<1>7. Named(p)' /\ Prepared(p)'
  BY <1>1, <1>2, <1>3 DEF Named, Prepared, Preparing, Others
<1>8. Journalled(p)'
  BY <1>1, <1>2, <1>3, RecordType DEF Journalled, Preparing, Rolling
<1>9. (Publishing' => Pending') /\ config'.edit >= kept'
  BY <1>1, <1>4, PendingKept
<1> QED BY <1>1, <1>2, <1>3, <1>6, <1>7, <1>8, <1>9, ByHolder DEF Unlocked, Local

\* The journal says that the rows are there (protocol).
LEMMA MarkPublishedProtocol ==
  ASSUME Protocol, NEW p \in Procs, MarkPublished(p)
  PROVE  Protocol' /\ ~Publishing'
<1> DEFINE jn == [job[p].rec EXCEPT !.phase = "regenerate"]
<1>1. /\ pc[p] = "replay" /\ Goto(p, "excludes") /\ journal' = jn
      /\ UNCHANGED <<config, rows, claims, excludes, staged, kept, faults>>
  BY DEF MarkPublished, At, Aside
<1>2. /\ owner = p /\ Named(p) /\ job[p].rec \in Records
  BY <1>1 DEF Protocol, OneHolder, Unlocked, Journalled, Rolling, TypeOK, Publishing
<1>3. jn \in Records /\ jn.phase = "regenerate"
  BY <1>2 DEF Records
<1> HIDE DEF jn
<1>4. /\ pc' \in [Procs -> Labels] /\ pc'[p] = "excludes" /\ job' = job /\ owner' = owner
      /\ \A q \in Procs \ {p} : pc'[q] = pc[q]
  BY <1>1, Moved DEF Protocol, Labels
<1>5. TypeOK'
  BY <1>1, <1>2, <1>3, <1>4 DEF Protocol, TypeOK
<1>6. Named(p)' /\ Prepared(p)'
  BY <1>1, <1>2, <1>4 DEF Named, Prepared, Preparing, Others
<1>7. ~Publishing' /\ journal' # None
  BY <1>1, <1>3, Constants DEF Publishing
<1>8. Journalled(p)'
  BY <1>4, <1>7 DEF Journalled, Preparing, Rolling
<1>9. config'.edit >= kept'
  BY <1>1 DEF Protocol
<1> QED BY <1>1, <1>2, <1>4, <1>5, <1>6, <1>7, <1>8, <1>9, ByHolder DEF Unlocked, Local

\* The excludes are regenerated (protocol).
LEMMA SyncExcludesProtocol ==
  ASSUME Protocol, NEW p \in Procs, SyncExcludes(p)
  PROVE  Protocol'
<1>1. /\ pc[p] = "excludes" /\ excludes' = Present
      /\ UNCHANGED <<config, rows, claims, journal, staged, kept, faults>>
      /\ IF job[p].rec # None THEN Goto(p, "clear") ELSE Release(p)
  BY DEF SyncExcludes, At, Aside
<1>2. owner = p /\ Named(p) /\ Journalled(p) /\ Present \subseteq Paths
  BY <1>1 DEF Protocol, OneHolder, Unlocked, Present
<1>3. (Publishing' => Pending') /\ config'.edit >= kept'
  BY <1>1, PendingKept DEF Protocol
<1>4. CASE job[p].rec = None
  <2>1. TypeOK'
    BY <1>1, <1>2, <1>4, Moved DEF Protocol, TypeOK
  <2> QED BY <1>1, <1>3, <1>4, <2>1, Released DEF Unlocked
<1>5. CASE job[p].rec # None
  <2>1. /\ pc' \in [Procs -> Labels] /\ pc'[p] = "clear" /\ job' = job /\ owner' = owner
        /\ \A q \in Procs \ {p} : pc'[q] = pc[q]
    BY <1>1, <1>5, Moved DEF Protocol, Labels
  <2>2. TypeOK'
    BY <1>1, <1>2, <2>1 DEF Protocol, TypeOK
  <2>3. Local(p)'
    BY <1>1, <1>2, <1>5, <2>1
       DEF Local, Named, Prepared, Journalled, Preparing, Rolling, Others
  <2> QED BY <1>1, <1>2, <1>3, <2>1, <2>2, <2>3, ByHolder DEF Unlocked
<1> QED BY <1>4, <1>5

\* The journal goes (protocol).
LEMMA RemoveJournalProtocol ==
  ASSUME Protocol, NEW p \in Procs, RemoveJournal(p)
  PROVE  Protocol'
<1>1. /\ pc[p] = "clear" /\ journal' = None /\ Goto(p, "sweep")
      /\ UNCHANGED <<config, rows, claims, excludes, staged, kept, faults>>
  BY DEF RemoveJournal, At, Aside
<1>2. owner = p /\ Named(p)
  BY <1>1 DEF Protocol, OneHolder, Unlocked
<1>3. /\ pc' \in [Procs -> Labels] /\ pc'[p] = "sweep" /\ job' = job /\ owner' = owner
      /\ \A q \in Procs \ {p} : pc'[q] = pc[q]
  BY <1>1, Moved DEF Protocol, Labels
<1>4. TypeOK'
  BY <1>1, <1>2, <1>3 DEF Protocol, TypeOK
<1>5. Local(p)'
  BY <1>1, <1>2, <1>3
     DEF Local, Named, Prepared, Journalled, Preparing, Rolling, Others
<1>6. ~Publishing' /\ config'.edit >= kept'
  BY <1>1 DEF Publishing, Protocol
<1> QED BY <1>1, <1>2, <1>3, <1>4, <1>5, <1>6, ByHolder DEF Unlocked

\* The staged windows go after it (protocol).
LEMMA RemoveStagedProtocol ==
  ASSUME Protocol, NEW p \in Procs, RemoveStaged(p)
  PROVE  Protocol'
<1> DEFINE j == [NoJob EXCEPT !.kind = job[p].kind]
<1>1. /\ pc[p] = "sweep" /\ staged' = << >>
      /\ IF job[p].recovering THEN Step(p, "ready", j) ELSE Release(p)
      /\ UNCHANGED <<config, rows, claims, excludes, journal, kept, faults>>
  BY DEF RemoveStaged, At, Aside
<1>2. owner = p /\ Named(p) /\ journal = None /\ job[p] \in Jobs
  BY <1>1 DEF Protocol, OneHolder, Unlocked, Journalled, TypeOK
<1>3. staged' \in Seq(SUBSET StagedRows)
  BY <1>1, StagedEmpty
<1>4. ~Publishing' /\ config'.edit >= kept'
  BY <1>1, <1>2 DEF Publishing, Protocol
<1>5. CASE ~job[p].recovering
  <2>1. TypeOK'
    BY <1>1, <1>3, <1>5, Moved DEF Protocol, TypeOK
  <2> QED BY <1>1, <1>4, <1>5, <2>1, Released DEF Unlocked
<1>6. CASE job[p].recovering
  <2>1. /\ j \in Jobs /\ j.kind = job[p].kind /\ j.rec = None /\ ~j.recovering /\ ~j.landed
    BY <1>2 DEF NoJob, Jobs
  <2> HIDE DEF j
  <2>2. /\ pc' \in [Procs -> Labels] /\ pc'[p] = "ready" /\ owner' = owner
        /\ job' \in [Procs -> Jobs] /\ job'[p] = j
        /\ \A q \in Procs \ {p} : pc'[q] = pc[q] /\ job'[q] = job[q]
    BY <1>1, <1>6, <2>1, Moved DEF Protocol, Labels
  <2>3. TypeOK'
    BY <1>1, <1>2, <1>3, <2>2 DEF Protocol, TypeOK
  <2>4. Local(p)'
    BY <1>1, <1>2, <2>1, <2>2
       DEF Local, Named, Prepared, Journalled, Preparing, Rolling, Others
  <2> QED BY <1>1, <1>2, <1>4, <2>2, <2>3, <2>4, ByHolder DEF Unlocked
<1> QED BY <1>5, <1>6
-----------------------------------------------------------------------------
(***************************************************************************)
(* Protocol: the other commands, and editors.                              *)
(***************************************************************************)
\* Another command edits gat.yaml (protocol).
LEMMA EditConfigProtocol ==
  ASSUME Protocol, NEW p \in Procs, EditConfig(p)
  PROVE  Protocol' /\ ~Publishing /\ ~Publishing' /\ config'.mounts = config.mounts
<1>1. /\ pc[p] = "ready" /\ config.edit < MaxEdits /\ Release(p)
      /\ config' = [config EXCEPT !.edit = @ + 1] /\ kept' = config.edit + 1
      /\ UNCHANGED <<rows, claims, excludes, journal, staged, faults>>
  BY DEF EditConfig, Ready, At
<1>2. journal = None
  BY <1>1 DEF Protocol, Journalled
<1>3. /\ config.edit \in 0 .. MaxEdits /\ config \in Configs /\ MaxEdits \in Nat
  BY ConfigType, Constants DEF Protocol, TypeOK
<1>4. /\ config' \in Configs /\ config'.edit = config.edit + 1
      /\ config'.mounts = config.mounts /\ kept' \in 0 .. MaxEdits
  BY <1>1, <1>3 DEF Configs
<1>5. TypeOK'
  BY <1>1, <1>4, Moved DEF Protocol, TypeOK
<1>6. ~Publishing /\ ~Publishing'
  BY <1>1, <1>2 DEF Publishing
<1>7. config'.edit >= kept'
  BY <1>1, <1>3, <1>4
<1>8. Protocol'
  BY <1>1, <1>5, <1>6, <1>7, Released DEF Unlocked
<1> QED BY <1>4, <1>6, <1>8

\* An editor or git edits gat.yaml (protocol).
LEMMA HandEditProtocol ==
  ASSUME Protocol, HandEdit
  PROVE  Protocol' /\ config'.mounts = config.mounts
<1>1. /\ config.edit < MaxEdits /\ config' = [config EXCEPT !.edit = @ + 1]
      /\ kept' = IF Publishing THEN kept ELSE config.edit + 1
      /\ UNCHANGED <<rows, claims, excludes, journal, staged, owner, pc, job, faults>>
  BY DEF HandEdit
<1>2. /\ config.edit \in 0 .. MaxEdits /\ config \in Configs /\ MaxEdits \in Nat
      /\ kept \in 0 .. MaxEdits /\ config.edit >= kept
  BY ConfigType, Constants DEF Protocol, TypeOK
<1>3. /\ config' \in Configs /\ config'.edit = config.edit + 1
      /\ config'.mounts = config.mounts /\ kept' \in 0 .. MaxEdits /\ config'.edit >= kept'
  BY <1>1, <1>2 DEF Configs
<1>4. TypeOK'
  BY <1>1, <1>3 DEF Protocol, TypeOK
<1>5. OneHolder'
  BY <1>1 DEF Protocol, OneHolder
<1>6. \A q \in Procs : Local(q)'
  BY <1>1, <1>3, Bystander DEF Protocol, Local
<1>7. Publishing' => Pending'
  BY <1>1, PendingKept DEF Publishing
<1> QED BY <1>3, <1>4, <1>5, <1>6, <1>7 DEF Protocol, Local

\* gat add or gat sync pins what it works from (protocol).
LEMMA CaptureProtocol ==
  ASSUME Protocol, NEW p \in Procs, Capture(p)
  PROVE  Protocol'
<1>1. /\ pc[p] = "ready" /\ pc' = [pc EXCEPT ![p] = "prepare"] /\ owner' = NoProc
      /\ UNCHANGED <<config, rows, claims, excludes, journal, staged, kept, faults>>
  BY DEF Capture, At, files, Aside
<1>2. /\ owner = p /\ Named(p) /\ job[p] \in Jobs /\ rows \in Snapshots
      /\ job \in [Procs -> Jobs]
  BY <1>1 DEF Protocol, OneHolder, Unlocked, TypeOK
<1>3. /\ job' \in [Procs -> Jobs]
      /\ \A q \in Procs \ {p} : job'[q] = job[q]
      /\ job'[p].kind = job[p].kind /\ job'[p].rec = job[p].rec
      /\ job'[p].kind \in {"add", "sync"}
      /\ job'[p].kind = "add" => job'[p].path \in Paths
  <2>1. CASE job[p].kind = "add" /\ \E x \in Paths : job' = [job EXCEPT ![p].seen = rows, ![p].path = x]
    <3>1. PICK x \in Paths : job' = [job EXCEPT ![p].seen = rows, ![p].path = x]
      BY <2>1
    <3> DEFINE j == [job[p] EXCEPT !.seen = rows, !.path = x]
    <3>2. j \in Jobs /\ j.kind = job[p].kind /\ j.rec = job[p].rec /\ j.path = x
      BY <1>2 DEF Jobs
    <3>3. job' = [job EXCEPT ![p] = j]
      BY <3>1, <1>2 DEF Jobs
    <3> HIDE DEF j
    <3> QED BY <1>2, <2>1, <3>2, <3>3
  <2>2. CASE job[p].kind = "sync" /\ job' = [job EXCEPT ![p].seen = rows]
    <3> DEFINE j == [job[p] EXCEPT !.seen = rows]
    <3>1. j \in Jobs /\ j.kind = job[p].kind /\ j.rec = job[p].rec
      BY <1>2 DEF Jobs
    <3>2. job' = [job EXCEPT ![p] = j]
      BY <2>2
    <3> HIDE DEF j
    <3> QED BY <1>2, <2>2, <3>1, <3>2
  <2> QED BY <2>1, <2>2 DEF Capture
<1>4. /\ pc' \in [Procs -> Labels] /\ pc'[p] = "prepare"
      /\ \A q \in Procs \ {p} : pc'[q] = pc[q]
  BY <1>1 DEF Protocol, TypeOK, Labels
<1>5. TypeOK'
  BY <1>1, <1>3, <1>4 DEF Protocol, TypeOK
<1>6. Named(p)'
  BY <1>1, <1>2, <1>3, <1>4 DEF Named, Others
<1>7. Prepared(p)' /\ Journalled(p)'
  BY <1>4 DEF Prepared, Journalled, Preparing, Rolling
<1>8. (Publishing' => Pending') /\ config'.edit >= kept'
  BY <1>1, PendingKept DEF Protocol
<1> QED BY <1>1, <1>2, <1>3, <1>4, <1>5, <1>6, <1>7, <1>8, ByHolder DEF Unlocked, Local

\* gat add or gat sync takes the RepoLock again (protocol).
LEMMA ReacquireProtocol ==
  ASSUME Protocol, NEW p \in Procs, Reacquire(p)
  PROVE  Protocol'
<1> DEFINE j == [job[p] EXCEPT !.seen = None]
<1>1. /\ pc[p] = "prepare" /\ owner = NoProc /\ owner' = p
      /\ pc' = [pc EXCEPT ![p] = job[p].kind] /\ job' = [job EXCEPT ![p].seen = None]
      /\ UNCHANGED <<config, rows, claims, excludes, journal, staged, kept, faults>>
  BY DEF Reacquire, At, files, Aside
<1>2. Named(p) /\ job[p] \in Jobs
  BY DEF Protocol, TypeOK
<1>3. j \in Jobs /\ j.kind = job[p].kind /\ j.rec = job[p].rec /\ j.path = job[p].path
  BY <1>2 DEF Jobs
<1>4. job' = [job EXCEPT ![p] = j]
  BY <1>1
<1> HIDE DEF j
<1>5. job[p].kind \in {"add", "sync"} /\ job[p].kind \in Kinds /\ job[p].kind \in Labels
  BY <1>1, <1>2 DEF Named, Labels
<1>6. /\ pc' \in [Procs -> Labels] /\ pc'[p] = job[p].kind
      /\ job' \in [Procs -> Jobs] /\ job'[p] = j
      /\ \A q \in Procs \ {p} : pc'[q] = pc[q] /\ job'[q] = job[q]
  BY <1>1, <1>3, <1>4, <1>5 DEF Protocol, TypeOK
<1>7. TypeOK'
  BY <1>1, <1>6 DEF Protocol, TypeOK
<1>8. Named(p)'
  BY <1>1, <1>2, <1>3, <1>5, <1>6 DEF Named, Others
<1>9. Prepared(p)' /\ Journalled(p)'
  BY <1>5, <1>6 DEF Prepared, Journalled, Preparing, Rolling
<1>10. (Publishing' => Pending') /\ config'.edit >= kept'
  BY <1>1, PendingKept DEF Protocol
<1> QED BY <1>1, <1>5, <1>6, <1>7, <1>8, <1>9, <1>10, ByHolder DEF Unlocked, Local

\* What was pinned is stale (protocol).
LEMMA StaleProtocol ==
  ASSUME Protocol, NEW p \in Procs, Stale(p)
  PROVE  Protocol'
<1>1. /\ pc[p] = "prepare" /\ owner = NoProc /\ Release(p)
      /\ UNCHANGED <<config, rows, claims, excludes, journal, staged, kept, faults>>
  BY DEF Stale, At, files, Aside
<1>2. TypeOK'
  BY <1>1, Moved DEF Protocol, TypeOK
<1>3. (Publishing' => Pending') /\ config'.edit >= kept'
  BY <1>1, PendingKept DEF Protocol
<1> QED BY <1>1, <1>2, <1>3, Released

\* gat add publishes its row (protocol).
LEMMA TrackProtocol ==
  ASSUME Protocol, NEW p \in Procs, Track(p)
  PROVE  Protocol' /\ job[p].path \in Paths /\ "add" \in Kinds
<1>1. /\ pc[p] = "add" /\ Goto(p, "note") /\ rows' = [rows EXCEPT ![job[p].path] = Root]
      /\ UNCHANGED <<config, claims, excludes, journal, staged, kept, faults>>
  BY DEF Track, At, Aside
<1>2. owner = p /\ Named(p)
  BY <1>1 DEF Protocol, OneHolder, Unlocked
<1>3. /\ pc' \in [Procs -> Labels] /\ pc'[p] = "note" /\ job' = job /\ owner' = owner
      /\ \A q \in Procs \ {p} : pc'[q] = pc[q]
  BY <1>1, Moved DEF Protocol, Labels
<1>4. rows' \in Snapshots
  BY <1>1 DEF Protocol, TypeOK, Snapshots
<1>5. TypeOK'
  BY <1>1, <1>2, <1>3, <1>4 DEF Protocol, TypeOK
<1>6. Local(p)'
  BY <1>1, <1>2, <1>3
     DEF Local, Named, Prepared, Journalled, Preparing, Rolling, Others
<1>7. (Publishing' => Pending') /\ config'.edit >= kept'
  BY <1>1, PendingKept DEF Protocol
<1>8. Protocol'
  BY <1>1, <1>2, <1>3, <1>5, <1>6, <1>7, ByHolder DEF Unlocked
<1> QED BY <1>1, <1>2, <1>8 DEF Named

\* gat rm takes out a row (protocol).
LEMMA UntrackProtocol ==
  ASSUME Protocol, NEW p \in Procs, Untrack(p)
  PROVE  /\ Protocol' /\ "rm" \in Kinds /\ journal = None
         /\ \E x \in Present : ~Owned(config.mounts, x) /\ rows' = [rows EXCEPT ![x] = None]
<1>1. PICK x \in Present :
        /\ ~Owned(config.mounts, x) /\ rows' = [rows EXCEPT ![x] = None]
        /\ Step(p, "note", [job[p] EXCEPT !.path = x])
  BY DEF Untrack
<1>2. /\ pc[p] = "ready" /\ job[p].kind = "rm"
      /\ UNCHANGED <<config, claims, excludes, journal, staged, kept, faults>>
  BY DEF Untrack, Ready, At, Aside
<1> DEFINE j == [job[p] EXCEPT !.path = x]
<1>3. /\ owner = p /\ Named(p) /\ journal = None /\ job[p] \in Jobs /\ x \in Paths
  BY <1>2 DEF Protocol, OneHolder, Unlocked, Journalled, TypeOK, Present
<1>4. j \in Jobs /\ j.kind = job[p].kind /\ j.rec = job[p].rec /\ j.path = x
  BY <1>3 DEF Jobs
<1>5. Step(p, "note", j)
  BY <1>1
<1> HIDE DEF j
<1>6. /\ pc' \in [Procs -> Labels] /\ pc'[p] = "note" /\ owner' = owner
      /\ job' \in [Procs -> Jobs] /\ job'[p] = j
      /\ \A q \in Procs \ {p} : pc'[q] = pc[q] /\ job'[q] = job[q]
  BY <1>4, <1>5, Moved DEF Protocol, Labels
<1>7. rows' \in Snapshots
  BY <1>1 DEF Protocol, TypeOK, Snapshots
<1>8. TypeOK'
  BY <1>2, <1>3, <1>6, <1>7 DEF Protocol, TypeOK
<1>9. Local(p)'
  BY <1>2, <1>3, <1>4, <1>6
     DEF Local, Named, Prepared, Journalled, Preparing, Rolling, Others
<1>10. (Publishing' => Pending') /\ config'.edit >= kept'
  BY <1>2, PendingKept DEF Protocol
<1>11. Protocol'
  BY <1>2, <1>3, <1>6, <1>8, <1>9, <1>10, ByHolder DEF Unlocked
<1> QED BY <1>1, <1>2, <1>3, <1>11 DEF Named

\* gat add or gat rm notes what it did in the ledger (protocol).
LEMMA NoteProtocol ==
  ASSUME Protocol, NEW p \in Procs, Note(p)
  PROVE  Protocol'
<1>1. /\ pc[p] = "note" /\ Goto(p, "excludes")
      /\ claims' = IF job[p].kind = "add" THEN claims \cup {job[p].path}
                   ELSE claims \ {job[p].path}
      /\ UNCHANGED <<config, rows, excludes, journal, staged, kept, faults>>
  BY DEF Note, At, Aside
<1>2. owner = p /\ Named(p)
  BY <1>1 DEF Protocol, OneHolder, Unlocked
<1>3. /\ pc' \in [Procs -> Labels] /\ pc'[p] = "excludes" /\ job' = job /\ owner' = owner
      /\ \A q \in Procs \ {p} : pc'[q] = pc[q]
  BY <1>1, Moved DEF Protocol, Labels
<1>4. claims' \subseteq Paths
  BY <1>1, <1>2 DEF Protocol, TypeOK, Named
<1>5. TypeOK'
  BY <1>1, <1>2, <1>3, <1>4 DEF Protocol, TypeOK
<1>6. Local(p)'
  BY <1>1, <1>2, <1>3
     DEF Local, Named, Prepared, Journalled, Preparing, Rolling, Others
<1>7. (Publishing' => Pending') /\ config'.edit >= kept'
  BY <1>1, PendingKept DEF Protocol
<1> QED BY <1>1, <1>2, <1>3, <1>5, <1>6, <1>7, ByHolder DEF Unlocked

\* gat sync claims what it placed (protocol).
LEMMA ReconcileProtocol ==
  ASSUME Protocol, NEW p \in Procs, Reconcile(p)
  PROVE  Protocol'
<1>1. /\ pc[p] = "sync" /\ Goto(p, "excludes") /\ claims' = Present
      /\ UNCHANGED <<config, rows, excludes, journal, staged, kept, faults>>
  BY DEF Reconcile, At, Aside
<1>2. owner = p /\ Named(p)
  BY <1>1 DEF Protocol, OneHolder, Unlocked
<1>3. /\ pc' \in [Procs -> Labels] /\ pc'[p] = "excludes" /\ job' = job /\ owner' = owner
      /\ \A q \in Procs \ {p} : pc'[q] = pc[q]
  BY <1>1, Moved DEF Protocol, Labels
<1>4. TypeOK'
  BY <1>1, <1>2, <1>3 DEF Protocol, TypeOK, Present
<1>5. Local(p)'
  BY <1>1, <1>2, <1>3
     DEF Local, Named, Prepared, Journalled, Preparing, Rolling, Others
<1>6. (Publishing' => Pending') /\ config'.edit >= kept'
  BY <1>1, PendingKept DEF Protocol
<1> QED BY <1>1, <1>2, <1>3, <1>4, <1>5, <1>6, ByHolder DEF Unlocked

\* Nothing happens (protocol).
LEMMA StutterProtocol ==
  ASSUME Protocol, UNCHANGED vars
  PROVE  Protocol'
<1>1. UNCHANGED <<config, rows, claims, excludes, journal, staged, owner, pc, job, kept, faults>>
  BY DEF vars
<1>2. TypeOK' /\ OneHolder'
  BY <1>1 DEF Protocol, TypeOK, OneHolder
<1>3. \A q \in Procs : Local(q)'
  BY <1>1, Bystander DEF Protocol, Local
<1>4. Publishing' => Pending'
  BY <1>1, PendingKept
<1> QED BY <1>1, <1>2, <1>3, <1>4 DEF Protocol, Local

\* A repository without a journal.
LEMMA InitProtocol ==
  ASSUME Init
  PROVE  Protocol
<1>1. /\ config = [mounts |-> [n \in Names |-> None], edit |-> 0]
      /\ rows = [x \in Paths |-> None]
      /\ claims = Present /\ excludes = Present /\ journal = None /\ staged = << >>
      /\ owner = NoProc /\ pc = [p \in Procs |-> "idle"] /\ job = [p \in Procs |-> NoJob]
      /\ kept = 0 /\ faults = 0
  BY DEF Init
<1>2. 0 \in 0 .. MaxEdits /\ 0 \in 0 .. MaxFaults
  BY Constants
<1>3. config \in Configs /\ config.edit = 0
  BY <1>1, <1>2 DEF Configs, Mounts
<1>4. rows \in Snapshots /\ NoJob \in Jobs /\ staged \in Seq(SUBSET StagedRows)
  BY <1>1, EmptySeq DEF Snapshots, NoJob, Jobs
<1>5. TypeOK
  BY <1>1, <1>2, <1>3, <1>4 DEF TypeOK, Present, Labels
<1>6. OneHolder
  BY <1>1, Constants DEF OneHolder, Unlocked
<1>7. \A p \in Procs : Named(p)
  BY <1>1 DEF Named, NoJob
<1>8. \A p \in Procs : Prepared(p) /\ Journalled(p)
  BY <1>1 DEF Prepared, Journalled, Preparing, Rolling
<1> QED BY <1>1, <1>3, <1>5, <1>6, <1>7, <1>8 DEF Protocol, Publishing

\* Every step keeps the protocol.
LEMMA NextProtocol ==
  ASSUME Protocol, [Next]_vars
  PROVE  Protocol'
<1>1. CASE HandEdit
  BY <1>1, HandEditProtocol
<1>2. ASSUME NEW p \in Procs, Command(p)
      PROVE  Protocol'
  <2>1. CASE \/ \E k \in Kinds : Acquire(p, k)
             \/ ReadNothing(p) \/ ReadJournal(p) \/ Refuse(p) \/ Detach(p)
             \/ ResetStaged(p) \/ StageWindow(p) \/ WriteJournal(p) \/ RefuseChanged(p)
    BY <2>1, AcquireProtocol, ReadNothingProtocol, ReadJournalProtocol, RefuseProtocol,
       DetachProtocol, ResetStagedProtocol, StageWindowProtocol, WriteJournalProtocol,
       RefuseChangedProtocol
  <2>2. CASE BeginAdd(p) \/ BeginUpdate(p) \/ BeginRemove(p)
    BY <2>2, BeginsOne, BeginProtocol DEF Begins
  <2>3. CASE \/ DeleteShard(p) \/ ForgetSubtree(p) \/ SaveConfig(p) \/ ReplayShard(p)
             \/ MarkPublished(p) \/ SyncExcludes(p) \/ RemoveJournal(p) \/ RemoveStaged(p)
    BY <2>3, DeleteShardProtocol, ForgetSubtreeProtocol, SaveConfigProtocol,
       ReplayShardProtocol, MarkPublishedProtocol, SyncExcludesProtocol,
       RemoveJournalProtocol, RemoveStagedProtocol
  <2>4. CASE \/ EditConfig(p) \/ Capture(p) \/ Reacquire(p) \/ Stale(p)
             \/ Track(p) \/ Untrack(p) \/ Note(p) \/ Reconcile(p)
    BY <2>4, EditConfigProtocol, CaptureProtocol, ReacquireProtocol, StaleProtocol,
       TrackProtocol, UntrackProtocol, NoteProtocol, ReconcileProtocol
  <2> QED BY <1>2, <2>1, <2>2, <2>3, <2>4 DEF Command
<1>3. ASSUME NEW p \in Procs, Fault(p)
      PROVE  Protocol'
  BY <1>3, FailProtocol, RollBackProtocol DEF Fault
<1>4. CASE UNCHANGED vars
  BY <1>4, StutterProtocol
<1> QED BY <1>1, <1>2, <1>3, <1>4 DEF Next
-----------------------------------------------------------------------------
(***************************************************************************)
(* RowsKept.                                                               *)
(***************************************************************************)
\* A step of one process moves no other.
LEMMA OthersStay ==
  ASSUME Protocol, NEW p \in Procs, Command(p) \/ Fault(p)
  PROVE  \A q \in Procs \ {p} : pc'[q] = pc[q] /\ job'[q] = job[q]
<1>0. pc \in [Procs -> Labels] /\ job \in [Procs -> Jobs]
  BY DEF Protocol, TypeOK
<1>1. CASE (\E k \in Kinds : Acquire(p, k)) \/ Reacquire(p) \/ Capture(p) \/ Fail(p)
  BY <1>0, <1>1 DEF Acquire, Reacquire, Capture, Fail
<1>2. CASE Refuse(p) \/ Detach(p) \/ RefuseChanged(p) \/ EditConfig(p) \/ Stale(p)
  BY <1>0, <1>2 DEF Refuse, Detach, RefuseChanged, EditConfig, Stale, Release
<1>3. CASE \/ ReadNothing(p) \/ ResetStaged(p) \/ DeleteShard(p) \/ ForgetSubtree(p)
           \/ MarkPublished(p) \/ RemoveJournal(p) \/ Track(p) \/ Note(p) \/ Reconcile(p)
           \/ RollBack(p)
  BY <1>0, <1>3 DEF ReadNothing, ResetStaged, DeleteShard, ForgetSubtree, MarkPublished,
     RemoveJournal, Track, Note, Reconcile, RollBack, Goto
<1>4. CASE BeginAdd(p) \/ BeginUpdate(p) \/ BeginRemove(p)
  BY <1>0, <1>4 DEF BeginAdd, BeginUpdate, BeginRemove, Begin, Step
<1>5. CASE \/ ReadJournal(p) \/ StageWindow(p) \/ WriteJournal(p) \/ SaveConfig(p)
           \/ ReplayShard(p) \/ Untrack(p)
  BY <1>0, <1>5 DEF ReadJournal, StageWindow, WriteJournal, SaveConfig, ReplayShard, Untrack,
     Step
<1>6. CASE SyncExcludes(p)
  BY <1>0, <1>6 DEF SyncExcludes, Goto, Release
<1>7. CASE RemoveStaged(p)
  BY <1>0, <1>7 DEF RemoveStaged, Step, Release
<1> QED BY <1>1, <1>2, <1>3, <1>4, <1>5, <1>6, <1>7 DEF Command, Fault

\* It is a step of the one that holds the lock, or of one that finds it free.
LEMMA HolderActs ==
  ASSUME Protocol, NEW p \in Procs, Command(p) \/ RollBack(p)
  PROVE  pc[p] \notin Unlocked \/ owner = NoProc
<1>1. CASE (\E k \in Kinds : Acquire(p, k)) \/ Reacquire(p) \/ Stale(p)
  BY <1>1 DEF Acquire, Reacquire, Stale
<1>2. CASE \/ ReadNothing(p) \/ ReadJournal(p) \/ Refuse(p) \/ BeginAdd(p) \/ BeginUpdate(p)
           \/ BeginRemove(p) \/ Detach(p) \/ EditConfig(p) \/ Capture(p) \/ Track(p)
           \/ Untrack(p) \/ Note(p) \/ Reconcile(p)
  BY <1>2 DEF ReadNothing, ReadJournal, Refuse, BeginAdd, BeginUpdate, BeginRemove, Detach,
     EditConfig, Capture, Track, Untrack, Note, Reconcile, At, Ready, Unlocked
<1>3. CASE \/ ResetStaged(p) \/ StageWindow(p) \/ WriteJournal(p) \/ RefuseChanged(p)
           \/ DeleteShard(p) \/ ForgetSubtree(p) \/ SaveConfig(p) \/ ReplayShard(p)
           \/ MarkPublished(p) \/ SyncExcludes(p) \/ RemoveJournal(p) \/ RemoveStaged(p)
           \/ RollBack(p)
  BY <1>3 DEF ResetStaged, StageWindow, WriteJournal, RefuseChanged, DeleteShard,
     ForgetSubtree, SaveConfig, ReplayShard, MarkPublished, SyncExcludes, RemoveJournal,
     RemoveStaged, RollBack, At, Unlocked
<1> QED BY <1>1, <1>2, <1>3 DEF Command

\* The labels at which RowsKept and Following say something of a process.
Watched == {"reset", "stage", "config", "replay", "clear"}

\* A process without the lock says nothing of the rows; one with it keeps
\* what it says where nothing it speaks of changes.
LEMMA RowsBystander ==
  ASSUME NEW q \in Procs, Untouched(q), Progress(q), pc'[q] = pc[q], job'[q] = job[q],
         \/ pc[q] \in Unlocked
         \/ /\ journal' = journal /\ staged' = staged /\ rows' = rows
            /\ config'.mounts = config.mounts
  PROVE  Untouched(q)' /\ Progress(q)'
<1>1. CASE pc[q] \in Unlocked
  BY <1>1 DEF Untouched, Progress, Fresh, Preparing, Unlocked
<1>2. CASE /\ journal' = journal /\ staged' = staged /\ rows' = rows
           /\ config'.mounts = config.mounts
  <2>1. /\ (Publishing' <=> Publishing) /\ Staged' = Staged /\ (Fresh(q)' <=> Fresh(q))
        /\ Present' = Present
    BY <1>2 DEF Publishing, Staged, Fresh, Present
  <2>2. Untouched(q)'
    BY <1>2, <2>1 DEF Untouched, Vacant
  <2>3. Progress(q)'
    BY <1>2, <2>1 DEF Progress, Vacant
  <2> QED BY <2>2, <2>3
<1> QED BY <1>1, <1>2

\* At the other labels RowsKept says nothing.
LEMMA Unwatched ==
  ASSUME NEW p \in Procs, pc'[p] \notin Watched
  PROVE  Untouched(p)' /\ Progress(p)'
  BY DEF Untouched, Progress, Fresh, Preparing, Watched

\* It is enough to look at the process that steps.
LEMMA RowsByHolder ==
  ASSUME Protocol, RowsKept, NEW p \in Procs, Command(p) \/ RollBack(p),
         Untouched(p)' /\ Progress(p)'
  PROVE  RowsKept'
<1>1. \A q \in Procs \ {p} : pc'[q] = pc[q] /\ job'[q] = job[q]
  BY OthersStay DEF Fault
<1>2. \A q \in Procs \ {p} : pc[q] \in Unlocked
  BY HolderActs, Constants DEF Protocol, OneHolder
<1>3. \A q \in Procs \ {p} : Untouched(q)' /\ Progress(q)'
  BY <1>1, <1>2, RowsBystander DEF RowsKept
<1> QED BY <1>3 DEF RowsKept

\* Steps to a place of which RowsKept says nothing.
Passing(p) ==
  \/ \E k \in Kinds : Acquire(p, k)
  \/ ReadNothing(p) \/ Refuse(p) \/ Detach(p) \/ RefuseChanged(p) \/ DeleteShard(p)
  \/ MarkPublished(p) \/ RemoveJournal(p) \/ RemoveStaged(p)
  \/ EditConfig(p) \/ Capture(p) \/ Reacquire(p) \/ Stale(p)
  \/ Track(p) \/ Untrack(p) \/ Note(p) \/ Reconcile(p)

\* Those steps end at such labels.
LEMMA PassingBy ==
  ASSUME Protocol, NEW p \in Procs, Passing(p)
  PROVE  pc'[p] \notin Watched /\ Command(p)
<1>0. pc \in [Procs -> Labels] /\ Named(p)
  BY DEF Protocol, TypeOK
<1>1. CASE (\E k \in Kinds : Acquire(p, k)) \/ Capture(p)
  BY <1>0, <1>1 DEF Acquire, Capture, Watched, Command
<1>2. CASE Reacquire(p)
  BY <1>0, <1>2 DEF Reacquire, Named, Watched, Command, At
<1>3. CASE Refuse(p) \/ Detach(p) \/ RefuseChanged(p) \/ EditConfig(p) \/ Stale(p)
  BY <1>0, <1>3 DEF Refuse, Detach, RefuseChanged, EditConfig, Stale, Release, Watched, Command
<1>4. CASE \/ ReadNothing(p) \/ DeleteShard(p) \/ MarkPublished(p) \/ RemoveJournal(p)
           \/ Track(p) \/ Note(p) \/ Reconcile(p)
  BY <1>0, <1>4 DEF ReadNothing, DeleteShard, MarkPublished, RemoveJournal, Track, Note,
     Reconcile, Goto, Watched, Command
<1>5. CASE Untrack(p) \/ RemoveStaged(p)
  BY <1>0, <1>5 DEF Untrack, RemoveStaged, Step, Release, Watched, Command
<1> QED BY <1>1, <1>2, <1>3, <1>4, <1>5 DEF Passing

\* All rows that are staged come from one snapshot, and go below one target.
LEMMA StagedRowsAgree ==
  ASSUME TypeOK, Publishing, Pending
  PROVE  /\ Staged = Snapshot(journal) /\ Staged \subseteq StagedRows
         /\ \A r, s \in Staged : r[2] = s[2]
         /\ \A r \in Staged : r[1] \in Under(journal.new) /\ r[2] # None
<1>1. journal \in Records /\ Sound(journal) /\ Staged = Snapshot(journal)
  BY DEF TypeOK, Publishing, Pending
<1>2. CASE journal.new = None
  BY <1>1, <1>2, SnapshotRows
<1>3. CASE journal.new # None
  BY <1>1, <1>3, SnapshotRows, ImportedRows, Constants
<1> QED BY <1>2, <1>3

\* A mount command begins: nothing lies below a target that is new to it.
LEMMA BeginsRows ==
  ASSUME Protocol, RowsKept, NEW p \in Procs, BeginAdd(p) \/ BeginUpdate(p) \/ BeginRemove(p)
  PROVE  RowsKept'
<1>1. PICK rec \in Records : Begins(p, rec)
  BY BeginsOne
<1> DEFINE j == [job[p] EXCEPT !.rec = rec, !.todo = Snapshot(rec)]
<1>2. job[p] \in Jobs /\ Snapshot(rec) \subseteq StagedRows
  BY <1>1, SnapshotRows DEF Begins, Protocol, TypeOK
<1>3. j \in Jobs /\ j.rec = rec
  BY <1>2 DEF Jobs
<1>4. Step(p, "reset", j) /\ rows' = rows
  BY <1>1 DEF Begins, Begin, files
<1> HIDE DEF j
<1>5. pc'[p] = "reset" /\ job'[p] = j
  BY <1>3, <1>4, Moved DEF Protocol, Labels
<1>6. Present' = Present
  BY <1>4 DEF Present
<1>7. Untouched(p)' /\ Progress(p)'
  BY <1>1, <1>3, <1>5, <1>6 DEF Begins, Untouched, Progress, Fresh, Vacant, Preparing
<1> QED BY <1>7, RowsByHolder DEF Command

\* Staging touches no rows.
LEMMA StagingRows ==
  ASSUME Protocol, RowsKept, NEW p \in Procs, ResetStaged(p) \/ StageWindow(p)
  PROVE  RowsKept'
<1>0. pc \in [Procs -> Labels] /\ job \in [Procs -> Jobs]
  BY DEF Protocol, TypeOK
<1>1. pc'[p] = "stage" /\ pc[p] \in Preparing /\ rows' = rows
  <2>1. CASE ResetStaged(p)
    BY <1>0, <2>1 DEF ResetStaged, Goto, At, Preparing
  <2>2. CASE StageWindow(p)
    BY <1>0, <2>2 DEF StageWindow, Step, At, Preparing
  <2> QED BY <2>1, <2>2
<1>2. job'[p].rec = job[p].rec
  <2>1. CASE ResetStaged(p)
    BY <2>1 DEF ResetStaged, Goto
  <2>2. CASE StageWindow(p)
    <3>1. PICK S : job' = [job EXCEPT ![p] = [job[p] EXCEPT !.todo = @ \ S]]
      BY <2>2 DEF StageWindow, Step
    <3> DEFINE j == [job[p] EXCEPT !.todo = @ \ S]
    <3>2. j.rec = job[p].rec
      BY <1>0 DEF Jobs
    <3>3. job'[p] = j
      BY <1>0, <3>1
    <3> QED BY <3>2, <3>3
  <2> QED BY <2>1, <2>2
<1>3. Present' = Present
  BY <1>1 DEF Present
<1>4. Untouched(p)' /\ Progress(p)'
  BY <1>1, <1>2, <1>3 DEF RowsKept, Untouched, Progress, Fresh, Vacant, Preparing
<1> QED BY <1>4, RowsByHolder DEF Command

\* The journal is written once all windows are (rows).
LEMMA WriteJournalRows ==
  ASSUME Protocol, RowsKept, NEW p \in Procs, WriteJournal(p)
  PROVE  RowsKept'
<1>1. pc[p] = "stage" /\ rows' = rows
  BY DEF WriteJournal, At
<1>2. /\ job[p].rec \in Records /\ Sound(job[p].rec)
      /\ journal'.op = job[p].rec.op
      /\ journal'.old = job[p].rec.old /\ journal'.new = job[p].rec.new
      /\ pc'[p] = AfterJournal(journal')
  BY WriteJournalProtocol
<1>3. Present' = Present
  BY <1>1 DEF Present
<1>4. Bring(job[p].rec) => Present' \cap Under(job[p].rec.new) = {}
  BY <1>1, <1>3 DEF RowsKept, Untouched, Preparing, Vacant
<1>5. journal'.op = "add" => Bring(job[p].rec)
  BY <1>2 DEF Sound, Bring
<1>6. pc'[p] \in {"delete", "config"} /\ (pc'[p] = "config" => journal'.old = None)
  BY <1>2 DEF AfterJournal
<1>7. Untouched(p)'
  BY <1>2, <1>4, <1>5, <1>6 DEF Untouched, Fresh, Preparing, Vacant
<1>8. Progress(p)'
  BY <1>6 DEF Progress
<1> QED BY <1>7, <1>8, RowsByHolder DEF Command

\* Recovery finds a journal it can read (rows).
LEMMA ReadJournalRows ==
  ASSUME Protocol, RowsKept, NEW p \in Procs, ReadJournal(p)
  PROVE  RowsKept'
<1> DEFINE j == [job[p] EXCEPT !.rec = journal, !.recovering = TRUE]
           label == IF journal.phase = "publish" THEN AfterJournal(journal) ELSE "excludes"
<1>0. job \in [Procs -> Jobs] /\ pc \in [Procs -> Labels]
  BY DEF Protocol, TypeOK
<1>1. /\ pc' = [pc EXCEPT ![p] = label] /\ job' = [job EXCEPT ![p] = j]
      /\ journal' = journal
  BY DEF ReadJournal, Step, files
<1>2. j.recovering
  BY <1>0 DEF Jobs
<1>3. label \in {"delete", "config", "excludes"} /\ (label = "config" => journal.old = None)
  BY DEF AfterJournal
<1> HIDE DEF j, label
<1>4. pc'[p] = label /\ job'[p] = j
  BY <1>0, <1>1
<1>5. Untouched(p)' /\ Progress(p)'
  BY <1>1, <1>2, <1>3, <1>4 DEF Untouched, Progress, Fresh, Preparing
<1> QED BY <1>5, RowsByHolder DEF Command

\* The claims below the old target go (rows).
LEMMA ForgetSubtreeRows ==
  ASSUME Protocol, RowsKept, NEW p \in Procs, ForgetSubtree(p)
  PROVE  RowsKept'
<1>0. pc \in [Procs -> Labels]
  BY DEF Protocol, TypeOK
<1>1. /\ pc[p] = "delete" /\ pc'[p] = "config" /\ Present \cap Under(job[p].rec.old) = {}
      /\ UNCHANGED <<rows, journal>>
  BY <1>0 DEF ForgetSubtree, At, Goto, Doomed
<1>2. Journalled(p) /\ journal = job[p].rec /\ journal.old # None /\ Sound(journal)
  BY <1>1 DEF Protocol, Journalled, Rolling, Pending
<1>3. Present' = Present
  BY <1>1 DEF Present
<1>4. Untouched(p)' /\ Progress(p)'
  BY <1>1, <1>2, <1>3 DEF Untouched, Progress, Fresh, Preparing, Vacant, Sound
<1> QED BY <1>4, RowsByHolder DEF Command

\* gat.yaml is written from the record (rows).
LEMMA SaveConfigRows ==
  ASSUME Protocol, RowsKept, NEW p \in Procs, SaveConfig(p)
  PROVE  RowsKept'
<1> DEFINE j == [job[p] EXCEPT !.todo = UNION {staged[i] : i \in 1 .. job[p].rec.windows}]
<1>0. pc \in [Procs -> Labels] /\ job \in [Procs -> Jobs] /\ rows \in Snapshots
  BY DEF Protocol, TypeOK
<1>1. /\ pc[p] = "config" /\ pc'[p] = "replay" /\ job' = [job EXCEPT ![p] = j]
      /\ UNCHANGED <<rows, journal, staged>>
  BY <1>0 DEF SaveConfig, At, Step
<1>2. journal = job[p].rec /\ Pending /\ Publishing
  BY <1>1 DEF Protocol, Journalled, Rolling
<1>3. /\ j.todo = Staged /\ j.recovering = job[p].recovering /\ j.landed = job[p].landed
  BY <1>0, <1>2 DEF Jobs, Pending, Staged
<1> HIDE DEF j
<1>4. job'[p] = j /\ Staged' = Staged /\ Present' = Present
  BY <1>0, <1>1 DEF Staged, Present
<1>5. Fresh(p)' => Fresh(p)
  BY <1>1, <1>3, <1>4 DEF Fresh
<1>6. Untouched(p)'
  BY <1>1, <1>4, <1>5 DEF RowsKept, Untouched, Vacant, Preparing
<1>7. journal.old # None => \A x \in Under(journal.old) : rows[x] = None
  BY <1>1 DEF RowsKept, Progress, Vacant, Present, Under
<1>8. Progress(p)'
  BY <1>1, <1>3, <1>4, <1>7 DEF Progress
<1> QED BY <1>6, <1>8, RowsByHolder DEF Command

\* One shard gets its rows (rows).
LEMMA ReplayShardRows ==
  ASSUME Protocol, RowsKept, NEW p \in Procs, ReplayShard(p)
  PROVE  RowsKept'
<1>0. /\ pc \in [Procs -> Labels] /\ job \in [Procs -> Jobs] /\ rows \in Snapshots
      /\ job[p].todo \subseteq StagedRows
  BY JobType DEF Protocol, TypeOK
<1>1. PICK S \in SUBSET job[p].todo :
        /\ rows' = Replayed(S)
        /\ Step(p, "replay", [job[p] EXCEPT !.todo = @ \ S, !.landed = TRUE])
  BY DEF ReplayShard
<1> DEFINE j == [job[p] EXCEPT !.todo = @ \ S, !.landed = TRUE]
<1>2. /\ pc[p] = "replay" /\ pc'[p] = "replay" /\ job' = [job EXCEPT ![p] = j]
      /\ UNCHANGED <<journal, staged>>
  BY <1>0, <1>1 DEF ReplayShard, At, Step
<1>3. Publishing /\ Pending /\ job[p].todo \subseteq Staged
  BY <1>2 DEF Protocol, Journalled, Rolling
<1>4. j.todo = job[p].todo \ S /\ j.landed
  BY <1>0 DEF Jobs
<1> HIDE DEF j
<1>5. job'[p] = j /\ Staged' = Staged
  BY <1>0, <1>2 DEF Staged
<1>6. /\ Staged \subseteq StagedRows /\ \A r, s \in Staged : r[2] = s[2]
  BY <1>3, StagedRowsAgree DEF Protocol
<1>7. \A x \in Paths :
        \/ \E r \in S : r[1] = x /\ rows'[x] = r[2]
        \/ (~\E r \in S : r[1] = x) /\ rows'[x] = rows[x]
  BY <1>0, <1>1, ReplayedRows DEF Protocol
<1>8. \A r \in Staged \ j.todo : rows'[r[1]] = r[2]
  <2> TAKE r \in Staged \ j.todo
  <2>1. r[1] \in Paths
    BY <1>6 DEF StagedRows
  <2>2. CASE \E s \in S : s[1] = r[1] /\ rows'[r[1]] = s[2]
    BY <1>3, <1>6, <2>2
  <2>3. CASE (~\E s \in S : s[1] = r[1]) /\ rows'[r[1]] = rows[r[1]]
    <3>1. r \in Staged \ job[p].todo
      BY <1>4, <2>3
    <3>2. rows[r[1]] = r[2]
      BY <1>2, <3>1 DEF RowsKept, Progress
    <3> QED BY <2>3, <3>2
  <2> QED BY <1>7, <2>1, <2>2, <2>3
<1>9. ASSUME journal.old # None, NEW x \in Under(journal.old), rows'[x] # None
      PROVE  \E r \in Staged : r[1] = x
  <2>1. x \in Paths
    BY <1>9 DEF Under
  <2>2. CASE \E r \in S : r[1] = x
    BY <1>3, <2>2
  <2>3. CASE rows'[x] = rows[x]
    BY <1>2, <1>9, <2>3 DEF RowsKept, Progress
  <2> QED BY <1>7, <2>1, <2>2, <2>3
<1>10. Progress(p)'
  BY <1>2, <1>5, <1>8, <1>9 DEF Progress
<1>11. Untouched(p)'
  BY <1>2, <1>4, <1>5 DEF Untouched, Fresh, Preparing
<1> QED BY <1>10, <1>11, RowsByHolder DEF Command

\* A failed add takes gat.yaml back (rows).
LEMMA RollBackRows ==
  ASSUME Protocol, RowsKept, NEW p \in Procs, RollBack(p)
  PROVE  RowsKept'
<1>0. pc \in [Procs -> Labels]
  BY DEF Protocol, TypeOK
<1>1. /\ pc[p] = "replay" /\ pc'[p] = "clear" /\ job[p].rec.op = "add"
      /\ ~job[p].recovering /\ ~job[p].landed /\ config' = job[p].rec.pre
      /\ UNCHANGED <<rows, journal>>
  BY <1>0 DEF RollBack, At, Goto
<1>2. journal = job[p].rec
  BY <1>1 DEF Protocol, Journalled, Rolling
<1>3. Vacant(journal.new) /\ Present' = Present
  BY <1>1, <1>2 DEF RowsKept, Untouched, Fresh, Present
<1>4. Untouched(p)' /\ Progress(p)'
  BY <1>1, <1>2, <1>3 DEF Untouched, Progress, Fresh, Preparing, Vacant
<1> QED BY <1>4, RowsByHolder

\* The excludes are regenerated (rows).
LEMMA SyncExcludesRows ==
  ASSUME Protocol, RowsKept, NEW p \in Procs, SyncExcludes(p)
  PROVE  RowsKept'
<1>0. pc \in [Procs -> Labels]
  BY DEF Protocol, TypeOK
<1>1. /\ pc[p] = "excludes" /\ journal' = journal
      /\ pc'[p] = IF job[p].rec # None THEN "clear" ELSE "idle"
  BY <1>0 DEF SyncExcludes, At, Goto, Release
<1>2. job[p].rec # None => ~Publishing
  BY <1>1 DEF Protocol, Journalled
<1>3. Untouched(p)' /\ Progress(p)'
  BY <1>1, <1>2 DEF Untouched, Progress, Fresh, Preparing, Publishing
<1> QED BY <1>3, RowsByHolder DEF Command

\* Every step keeps the account of the rows.
LEMMA NextRows ==
  ASSUME Protocol, RowsKept, [Next]_vars
  PROVE  RowsKept'
<1>1. CASE HandEdit
  <2>1. UNCHANGED <<rows, journal, staged, pc, job>> /\ config'.mounts = config.mounts
    BY <1>1, HandEditProtocol DEF HandEdit
  <2> QED BY <2>1, RowsBystander DEF RowsKept
<1>2. ASSUME NEW p \in Procs, Command(p)
      PROVE  RowsKept'
  <2>1. CASE Passing(p)
    BY <2>1, PassingBy, Unwatched, RowsByHolder
  <2>2. CASE \/ ReadJournal(p) \/ ResetStaged(p) \/ StageWindow(p) \/ WriteJournal(p)
             \/ BeginAdd(p) \/ BeginUpdate(p) \/ BeginRemove(p)
    BY <2>2, ReadJournalRows, StagingRows, WriteJournalRows, BeginsRows
  <2>3. CASE ForgetSubtree(p) \/ SaveConfig(p) \/ ReplayShard(p) \/ SyncExcludes(p)
    BY <2>3, ForgetSubtreeRows, SaveConfigRows, ReplayShardRows, SyncExcludesRows
  <2> QED BY <1>2, <2>1, <2>2, <2>3 DEF Command, Passing
<1>3. ASSUME NEW p \in Procs, Fail(p)
      PROVE  RowsKept'
  <2>1. \A q \in Procs \ {p} : pc'[q] = pc[q] /\ job'[q] = job[q]
    BY <1>3, OthersStay DEF Fault
  <2>2. /\ pc'[p] = "idle"
        /\ UNCHANGED <<rows, journal, staged, config>>
    BY <1>3 DEF Fail, files, Protocol, TypeOK
  <2>3. \A q \in Procs \ {p} : Untouched(q)' /\ Progress(q)'
    BY <2>1, <2>2, RowsBystander DEF RowsKept
  <2>4. Untouched(p)' /\ Progress(p)'
    BY <2>2, Unwatched DEF Watched
  <2> QED BY <2>3, <2>4 DEF RowsKept
<1>4. CASE UNCHANGED vars
  <2>1. UNCHANGED <<rows, journal, staged, pc, job, config>>
    BY <1>4 DEF vars
  <2> QED BY <2>1, RowsBystander DEF RowsKept
<1> QED BY <1>1, <1>2, <1>3, <1>4, RollBackRows DEF Next, Fault
-----------------------------------------------------------------------------
(***************************************************************************)
(* MountRegistry, step by step.                                            *)
(***************************************************************************)
promised == <<PromisedMounts, PromisedRows>>

\* The rows r once the transaction of the record is over.
Brings(rec, x) ==
  /\ rec.new # None /\ x[1] = rec.new
  /\ x[2] \in Content[rec.post.mounts[rec.name][2]]
Brought(rec, r) ==
  [x \in Paths |->
     IF Brings(rec, x) THEN rec.post.mounts[rec.name][2]
     ELSE IF x[1] = rec.old THEN None ELSE r[x]]

\* What a record brings is what its snapshot holds.
LEMMA Snapshots1 ==
  ASSUME NEW rec \in Records, Sound(rec)
  PROVE  /\ \A x \in Paths : Brings(rec, x)
              <=> \E r \in Snapshot(rec) : r[1] = x
         /\ \A r \in Snapshot(rec) :
              /\ r[1] \in Paths /\ Brings(rec, r[1])
              /\ r[2] = rec.post.mounts[rec.name][2]
<1>1. CASE rec.new = None
  BY <1>1, SnapshotRows DEF Brings
<1>2. CASE rec.new # None
  <2> DEFINE v == rec.post.mounts[rec.name][2]
  <2>1. rec.new \in Targets /\ v \in Versions /\ Snapshot(rec) = Imported(rec.new, v)
    BY <1>2, SnapshotRows
  <2> HIDE DEF v
  <2>2. /\ \A r \in Snapshot(rec) : r[1] \in Under(rec.new) /\ r[2] = v /\ r[1][2] \in Content[v]
        /\ \A x \in Under(rec.new) : x[2] \in Content[v] => <<x, v>> \in Snapshot(rec)
    BY <2>1, ImportedRows
  <2>3. \A r \in Snapshot(rec) : r[1] \in Paths /\ r[1][1] = rec.new
    BY <2>2 DEF Under
  <2>4. \A x \in Paths : Brings(rec, x) => <<x, v>> \in Snapshot(rec)
    BY <2>2 DEF Brings, Under, v
  <2>5. \A r \in Snapshot(rec) : Brings(rec, r[1])
    BY <1>2, <2>2, <2>3 DEF Brings, v
  <2>6. \A x \in Paths : Brings(rec, x) => \E r \in Snapshot(rec) : r[1] = x
    BY <2>4
  <2> QED BY <2>2, <2>3, <2>5, <2>6 DEF v
<1> QED BY <1>1, <1>2

\* Replaying a sound record over the rows is Brought.
LEMMA Shape ==
  ASSUME NEW rec \in Records, Sound(rec), NEW r
  PROVE  [x \in Paths |->
            IF \E s \in Snapshot(rec) : s[1] = x
              THEN (CHOOSE s \in Snapshot(rec) : s[1] = x)[2]
              ELSE IF x[1] = rec.old THEN None ELSE r[x]] = Brought(rec, r)
<1> DEFINE pick(x) == CHOOSE s \in Snapshot(rec) : s[1] = x
<1>1. \A x \in Paths : (\E s \in Snapshot(rec) : s[1] = x) => pick(x) \in Snapshot(rec)
  OBVIOUS
<1> HIDE DEF pick
<1>2. \A x \in Paths : (\E s \in Snapshot(rec) : s[1] = x)
        => pick(x)[2] = rec.post.mounts[rec.name][2]
  BY <1>1, Snapshots1
<1>3. [x \in Paths |->
         IF \E s \in Snapshot(rec) : s[1] = x THEN pick(x)[2]
         ELSE IF x[1] = rec.old THEN None ELSE r[x]] = Brought(rec, r)
  BY <1>2, Snapshots1 DEF Brought
<1> QED BY <1>3 DEF pick

\* What the registry sees, now ...
LEMMA PromisedShape ==
  ASSUME Protocol
  PROVE  /\ PromisedMounts = IF Publishing THEN journal.post.mounts ELSE config.mounts
         /\ PromisedRows = IF Publishing THEN Brought(journal, rows) ELSE rows
<1>1. CASE ~Publishing
  BY <1>1 DEF PromisedMounts, PromisedRows
<1>2. CASE Publishing
  <2>1. journal \in Records /\ Sound(journal) /\ Staged = Snapshot(journal)
    BY <1>2 DEF Protocol, TypeOK, Publishing, Pending
  <2>2. PromisedRows = [x \in Paths |->
            IF \E s \in Staged : s[1] = x
              THEN (CHOOSE s \in Staged : s[1] = x)[2]
              ELSE IF x[1] = journal.old THEN None ELSE rows[x]]
    BY <1>2 DEF PromisedRows, Staged
  <2>3. PromisedRows = Brought(journal, rows)
    BY <2>1, <2>2, Shape
  <2> QED BY <1>2, <2>3 DEF PromisedMounts
<1> QED BY <1>1, <1>2

\* ... and after a step.
LEMMA PromisedShapeNext ==
  ASSUME Protocol'
  PROVE  /\ PromisedMounts' = IF Publishing' THEN journal'.post.mounts ELSE config'.mounts
         /\ PromisedRows' = IF Publishing' THEN Brought(journal', rows') ELSE rows'
<1>1. CASE ~Publishing'
  BY <1>1 DEF PromisedMounts, PromisedRows
<1>2. CASE Publishing'
  <2>1. journal' \in Records /\ Sound(journal') /\ Staged' = Snapshot(journal')
    BY <1>2 DEF Protocol, TypeOK, Publishing, Pending
  <2>2. PromisedRows' = [x \in Paths |->
            IF \E s \in Staged' : s[1] = x
              THEN (CHOOSE s \in Staged' : s[1] = x)[2]
              ELSE IF x[1] = journal'.old THEN None ELSE rows'[x]]
    BY <1>2 DEF PromisedRows, Staged
  <2>3. PromisedRows' = Brought(journal', rows')
    BY <2>1, <2>2, Shape
  <2> QED BY <1>2, <2>3 DEF PromisedMounts
<1> QED BY <1>1, <1>2

\* Steps of which the registry sees nothing, because nothing it sees changes.
LEMMA QuietStep ==
  ASSUME Protocol, Protocol', journal' = journal, rows' = rows,
         IF Publishing THEN staged' = staged ELSE config'.mounts = config.mounts
  PROVE  UNCHANGED promised
<1>1. Publishing' <=> Publishing
  BY DEF Publishing
<1> QED BY <1>1, PromisedShape, PromisedShapeNext DEF promised

\* detach is the registry's Detach.
LEMMA DetachStep ==
  ASSUME Protocol, Protocol', NEW p \in Procs, Detach(p)
  PROVE  \E n \in Names : Registry!Detach(n)
<1>1. PICK n \in Names : config.mounts[n] # None /\ config' = [config EXCEPT !.mounts[n] = None]
  BY DEF Detach
<1>2. pc[p] = "ready" /\ UNCHANGED <<rows, journal>>
  BY DEF Detach, Ready, At
<1>3. ~Publishing /\ ~Publishing'
  BY <1>2 DEF Protocol, Journalled, Publishing
<1>4. config'.mounts = [config.mounts EXCEPT ![n] = None]
  <2>1. config \in Configs /\ None \in {None} \cup (Targets \X Versions)
    BY DEF Protocol, TypeOK
  <2> QED BY <1>1, <2>1, ConfigEdit
<1>5. /\ PromisedMounts = config.mounts /\ PromisedMounts' = config'.mounts
      /\ PromisedRows = rows /\ PromisedRows' = rows'
  BY <1>3, PromisedShape, PromisedShapeNext
<1> QED BY <1>1, <1>2, <1>4, <1>5 DEF Registry!Detach

\* Writing the journal is the moment at which a mount command happens.
LEMMA WriteJournalStep ==
  ASSUME Protocol, RowsKept, Protocol', NEW p \in Procs, WriteJournal(p)
  PROVE  \/ \E n \in Names, t \in Targets, v \in Versions :
              Registry!Add(n, t, v) \/ Registry!Update(n, t, v)
         \/ \E n \in Names : Registry!Remove(n)
<1> DEFINE rec == journal'
           n == rec.name
           t == rec.new
           v == rec.post.mounts[rec.name][2]
<1>1. /\ pc[p] = "stage" /\ rows' = rows /\ config' = config /\ config = job[p].rec.pre
  BY DEF WriteJournal, At, Unchanged
<1>2. journal = None /\ ~Publishing
  BY <1>1 DEF Protocol, Journalled, Preparing, Publishing
<1>3. /\ rec \in Records /\ Sound(rec) /\ Publishing' /\ rec.pre = config
      /\ rec.new = job[p].rec.new /\ rec.old = job[p].rec.old
  BY <1>1, WriteJournalProtocol
<1>4. /\ PromisedMounts = config.mounts /\ PromisedMounts' = rec.post.mounts
      /\ PromisedRows = rows /\ PromisedRows' = Brought(rec, rows)
  BY <1>1, <1>2, <1>3, PromisedShape, PromisedShapeNext
<1>5. t # None /\ t # rec.old => \A x \in Under(t) : rows[x] = None
  BY <1>1, <1>3 DEF RowsKept, Untouched, Bring, Vacant, Present, Preparing, Under
<1>6. n \in Names /\ rec.old \in Targets \cup {None} /\ config \in Configs
  BY <1>3, RecordType DEF Protocol, TypeOK
<1>7. CASE rec.op = "remove"
  <2>1. /\ t = None /\ config.mounts[n] # None /\ rec.old = config.mounts[n][1]
        /\ rec.post.mounts = [config.mounts EXCEPT ![n] = None]
    BY <1>3, <1>7 DEF Sound
  <2>2. PromisedRows' = [x \in Paths |-> IF x[1] = rec.old THEN None ELSE rows[x]]
    BY <1>4, <2>1 DEF Brought, Brings
  <2>3. Registry!Remove(n)
    BY <1>4, <2>1, <2>2 DEF Registry!Remove, Registry!Without, Registry!Paths, Paths
  <2> QED BY <1>6, <2>3
<1>8. CASE rec.op # "remove"
  <2>1. /\ t \in Targets /\ v \in Versions /\ t # None /\ rec.post.mounts[n] = <<t, v>>
        /\ rec.post.mounts = [config.mounts EXCEPT ![n] = <<t, v>>]
        /\ \A m \in Names \ {n} : config.mounts[m] # None => config.mounts[m][1] # t
    <3>1. t # None /\ t \in Targets /\ v \in Versions
      BY <1>3, <1>8, SnapshotRows DEF Sound
    <3>2. PICK w \in Versions : rec.post.mounts = [config.mounts EXCEPT ![n] = <<t, w>>]
      BY <1>3, <1>8 DEF Sound
    <3>3. rec.post.mounts[n] = <<t, w>>
      BY <1>6, <3>2 DEF Configs, Mounts
    <3>4. \A m \in Names \ {n} : config.mounts[m] # None => config.mounts[m][1] # t
      BY <1>3, <1>8 DEF Sound
    <3> QED BY <3>1, <3>2, <3>3, <3>4
  <2>2. PromisedRows' = [x \in Paths |->
          IF x[1] = t /\ x[2] \in Content[v] THEN v ELSE IF x[1] = rec.old THEN None ELSE rows[x]]
    BY <1>4, <2>1 DEF Brought, Brings
  <2> HIDE DEF t, v, n
  <2>3. CASE rec.op = "add"
    <3>1. config.mounts[n] = None /\ rec.old = None
      BY <1>3, <2>3 DEF Sound, n
    <3>2. \A x \in Paths : x[1] # rec.old
      BY <3>1, Constants DEF Paths
    <3>3. PromisedRows' = [x \in Paths |-> IF x[1] = t /\ x[2] \in Content[v] THEN v ELSE rows[x]]
      BY <2>2, <3>2
    <3>4. \A x \in Under(t) : rows[x] = None
      BY <1>5, <2>1, <3>1 DEF t
    <3>5. Registry!Free(n, t) /\ Registry!Vacant(t)
      BY <1>4, <2>1, <3>4 DEF Registry!Free, Registry!Vacant, Registry!Under, Registry!Paths,
         Under, Paths
    <3>6. Registry!Add(n, t, v)
      BY <1>4, <2>1, <3>1, <3>3, <3>5 DEF Registry!Add, Registry!Import, Registry!Paths, Paths, n
    <3> QED BY <1>6, <2>1, <3>6 DEF n
  <2>4. CASE rec.op # "add"
    <3>1. config.mounts[n] # None /\ rec.old = config.mounts[n][1]
      BY <1>3, <2>4 DEF Sound, n
    <3>2. PromisedRows' = Registry!Import(Registry!Without(rows, rec.old), t, v)
      <4>1. Registry!Without(rows, rec.old)
              = [x \in Paths |-> IF x[1] = rec.old THEN None ELSE rows[x]]
        BY DEF Registry!Without, Registry!Paths, Paths
      <4> QED BY <2>2, <4>1 DEF Registry!Import, Registry!Paths, Paths
    <3>3. Registry!Free(n, t)
      BY <1>4, <2>1 DEF Registry!Free
    <3>4. t # config.mounts[n][1] => Registry!Vacant(t)
      BY <1>4, <1>5, <2>1, <3>1 DEF Registry!Vacant, Registry!Under, Registry!Paths,
         Under, Paths, t
    <3>5. Registry!Update(n, t, v)
      BY <1>4, <2>1, <3>1, <3>2, <3>3, <3>4 DEF Registry!Update, n
    <3> QED BY <1>6, <2>1, <3>5 DEF n
  <2> QED BY <2>3, <2>4
<1> QED BY <1>7, <1>8

\* Deletions and replayed shards are already promised.
LEMMA PublicationStep ==
  ASSUME Protocol, RowsKept, Protocol', NEW p \in Procs, DeleteShard(p) \/ ReplayShard(p)
  PROVE  UNCHANGED promised
<1>1. pc[p] \in Rolling /\ UNCHANGED <<config, journal, staged>>
  BY DEF DeleteShard, ReplayShard, At, Rolling
<1>2. /\ Publishing /\ Pending /\ journal = job[p].rec /\ journal \in Records /\ Sound(journal)
      /\ job[p].todo \subseteq StagedRows
  BY <1>1, JobType DEF Protocol, Journalled, Pending, TypeOK, Publishing
<1>3. Publishing'
  BY <1>1, <1>2 DEF Publishing
<1>4. \A x \in Paths : ~Brings(journal, x) /\ x[1] # journal.old => rows'[x] = rows[x]
  <2>1. CASE DeleteShard(p)
    <3>1. PICK S \in SUBSET Doomed(p) : rows' = [x \in Paths |-> IF x \in S THEN None ELSE rows[x]]
      BY <2>1 DEF DeleteShard
    <3> QED BY <1>2, <3>1 DEF Doomed, Under
  <2>2. CASE ReplayShard(p)
    <3>1. PICK S \in SUBSET job[p].todo : rows' = Replayed(S)
      BY <2>2 DEF ReplayShard
    <3>2. S \subseteq Snapshot(journal) /\ S \subseteq StagedRows
      BY <1>2, <2>2, <3>1 DEF Protocol, Journalled, ReplayShard, At, Pending
    <3>3. \A x \in Paths : (~\E r \in S : r[1] = x) => rows'[x] = rows[x]
      BY <3>1, <3>2, ReplayedRows DEF Protocol
    <3> QED BY <1>2, <3>2, <3>3, Snapshots1
  <2> QED BY <2>1, <2>2
<1>5. Brought(journal, rows') = Brought(journal, rows)
  BY <1>4 DEF Brought
<1> QED BY <1>1, <1>2, <1>3, <1>5, PromisedShape, PromisedShapeNext DEF promised

\* Once all windows are replayed, the rows are what was promised.
LEMMA MarkPublishedStep ==
  ASSUME Protocol, RowsKept, Protocol', NEW p \in Procs, MarkPublished(p)
  PROVE  UNCHANGED promised
<1>1. pc[p] = "replay" /\ job[p].todo = {} /\ UNCHANGED <<config, rows>>
  BY DEF MarkPublished, At
<1>2. /\ Publishing /\ Pending /\ journal \in Records /\ Sound(journal) /\ rows \in Snapshots
      /\ config.mounts = journal.post.mounts /\ Staged = Snapshot(journal)
  BY <1>1 DEF Protocol, Journalled, Rolling, Pending, TypeOK, Publishing
<1>3. ~Publishing'
  BY MarkPublishedProtocol
<1>4. /\ \A r \in Snapshot(journal) : rows[r[1]] = r[2]
      /\ journal.old # None =>
           \A x \in Under(journal.old) : rows[x] # None => \E r \in Snapshot(journal) : r[1] = x
  BY <1>1, <1>2 DEF RowsKept, Progress
<1>5. \A x \in Paths : Brings(journal, x) => rows[x] = journal.post.mounts[journal.name][2]
  BY <1>2, <1>4, Snapshots1
<1>6. \A x \in Paths : ~Brings(journal, x) /\ x[1] = journal.old => rows[x] = None
  <2> TAKE x \in Paths
  <2> HAVE ~Brings(journal, x) /\ x[1] = journal.old
  <2>1. journal.old # None /\ x \in Under(journal.old)
    BY Constants DEF Under, Paths
  <2>2. ~\E r \in Snapshot(journal) : r[1] = x
    BY <1>2, Snapshots1
  <2> QED BY <1>4, <2>1, <2>2
<1>7. Brought(journal, rows) = [x \in Paths |-> rows[x]]
  BY <1>5, <1>6 DEF Brought
<1>8. Brought(journal, rows) = rows
  BY <1>2, <1>7 DEF Snapshots
<1> QED BY <1>1, <1>2, <1>3, <1>8, PromisedShape, PromisedShapeNext DEF promised

\* Dropping the journal of a failed add undoes it as a whole; any other
\* journal has served.
LEMMA RemoveJournalStep ==
  ASSUME Protocol, RowsKept, Protocol', NEW p \in Procs, RemoveJournal(p)
  PROVE  UNCHANGED promised \/ \E n \in Names : Registry!Remove(n)
<1>1. pc[p] = "clear" /\ journal' = None /\ UNCHANGED <<config, rows>>
  BY DEF RemoveJournal, At
<1>2. ~Publishing'
  BY <1>1 DEF Publishing
<1>3. CASE ~Publishing
  BY <1>1, <1>2, <1>3, PromisedShape, PromisedShapeNext DEF promised
<1>4. CASE Publishing
  <2> DEFINE n == journal.name
             t == journal.new
  <2>1. /\ journal \in Records /\ Sound(journal) /\ journal.op = "add"
        /\ config.mounts = journal.pre.mounts /\ Vacant(t) /\ rows \in Snapshots
    BY <1>1, <1>4 DEF RowsKept, Untouched, Protocol, Pending, TypeOK, Publishing
  <2>2. /\ n \in Names /\ t \in Targets /\ t # None /\ journal.old = None
        /\ journal.pre.mounts[n] = None /\ journal.pre.mounts \in Mounts
        /\ journal.post.mounts[n] # None /\ journal.post.mounts[n][1] = t
    BY <2>1, SnapshotRows, RecordType, ConfigType DEF Sound
  <2>3. config.mounts = [journal.post.mounts EXCEPT ![n] = None]
    <3>1. PICK v \in Versions : journal.post.mounts = [journal.pre.mounts EXCEPT ![n] = <<t, v>>]
      BY <2>1 DEF Sound
    <3>2. [journal.post.mounts EXCEPT ![n] = None] = journal.pre.mounts
      BY <2>2, <3>1 DEF Mounts
    <3> QED BY <2>1, <3>2
  <2>4. Registry!Without(Brought(journal, rows), t) = rows
    <3>1. \A x \in Paths : x[1] = t => rows[x] = None
      BY <2>1 DEF Vacant, Present, Under
    <3>2. \A x \in Paths : x[1] # journal.old
      BY <2>2, Constants DEF Paths
    <3>3. \A x \in Paths : x[1] # t => Brought(journal, rows)[x] = rows[x]
      BY <3>2 DEF Brought, Brings
    <3>4. Registry!Without(Brought(journal, rows), t) = [x \in Paths |-> rows[x]]
      BY <3>1, <3>3 DEF Registry!Without, Registry!Paths, Paths
    <3> QED BY <2>1, <3>4 DEF Snapshots
  <2>5. Registry!Remove(n)
    BY <1>1, <1>2, <1>4, <2>2, <2>3, <2>4, PromisedShape, PromisedShapeNext DEF Registry!Remove
  <2> QED BY <2>2, <2>5
<1> QED BY <1>3, <1>4

\* gat add is the registry's Track.
LEMMA TrackStep ==
  ASSUME Protocol, Protocol', NEW p \in Procs, Track(p)
  PROVE  UNCHANGED promised \/ \E x \in Paths : Registry!Track(x)
<1> DEFINE x == job[p].path
<1>1. rows' = [rows EXCEPT ![x] = Root] /\ UNCHANGED <<config, journal, staged>>
  BY DEF Track
<1>2. x \in Paths /\ rows \in Snapshots
  BY TrackProtocol DEF Protocol, TypeOK
<1>3. Publishing' <=> Publishing
  BY <1>1 DEF Publishing
<1> HIDE DEF x
<1>4. CASE ~Publishing
  <2>1. Registry!Track(x)
    BY <1>1, <1>3, <1>4, PromisedShape, PromisedShapeNext DEF Registry!Track
  <2> QED BY <1>2, <2>1
<1>5. CASE Publishing /\ (Brings(journal, x) \/ x[1] = journal.old)
  <2>1. Brought(journal, rows') = Brought(journal, rows)
    BY <1>1, <1>2, <1>5 DEF Brought, Snapshots
  <2> QED BY <1>1, <1>3, <1>5, <2>1, PromisedShape, PromisedShapeNext DEF promised
<1>6. CASE Publishing /\ ~Brings(journal, x) /\ x[1] # journal.old
  <2>1. Brought(journal, rows') = [Brought(journal, rows) EXCEPT ![x] = Root]
    BY <1>1, <1>2, <1>6 DEF Brought, Snapshots
  <2>2. Registry!Track(x)
    BY <1>1, <1>3, <1>6, <2>1, PromisedShape, PromisedShapeNext DEF Registry!Track
  <2> QED BY <1>2, <2>2
<1> QED BY <1>4, <1>5, <1>6

\* gat rm is the registry's Untrack.
LEMMA UntrackStep ==
  ASSUME Protocol, Protocol', NEW p \in Procs, Untrack(p)
  PROVE  \E x \in Paths : Registry!Untrack(x)
<1>1. PICK x \in Present : ~Owned(config.mounts, x) /\ rows' = [rows EXCEPT ![x] = None]
  BY UntrackProtocol
<1>2. journal = None /\ UNCHANGED <<config, journal>>
  BY UntrackProtocol DEF Untrack
<1>3. ~Publishing /\ ~Publishing'
  BY <1>2 DEF Publishing
<1>4. Registry!Untrack(x)
  BY <1>1, <1>2, <1>3, PromisedShape, PromisedShapeNext DEF Registry!Untrack, Registry!Owned, Owned
<1> QED BY <1>1, <1>4 DEF Present

\* What a step is to the registry, gat add's aside.
RegistryStep ==
  \/ \E n \in Names, t \in Targets, v \in Versions :
       Registry!Add(n, t, v) \/ Registry!Update(n, t, v)
  \/ \E n \in Names : Registry!Remove(n) \/ Registry!Detach(n)
  \/ \E x \in Paths : Registry!Untrack(x)

\* Every step is one of the registry, or nothing to it.
LEMMA StepMaps ==
  ASSUME Protocol, RowsKept, [Next]_vars
  PROVE  \/ UNCHANGED promised
         \/ RegistryStep
         \/ "add" \in Kinds /\ \E x \in Paths : Registry!Track(x)
<1>0. Protocol'
  BY NextProtocol
<1>1. CASE HandEdit \/ UNCHANGED vars
  <2>1. UNCHANGED <<journal, rows, staged>> /\ config'.mounts = config.mounts
    BY <1>1, HandEditProtocol DEF HandEdit, vars
  <2> QED BY <1>0, <2>1, QuietStep
<1>2. ASSUME NEW p \in Procs, Command(p)
      PROVE  \/ UNCHANGED promised
             \/ RegistryStep
             \/ "add" \in Kinds /\ \E x \in Paths : Registry!Track(x)
  <2>1. CASE \/ \E k \in Kinds : Acquire(p, k)
             \/ ReadNothing(p) \/ ReadJournal(p) \/ Refuse(p)
             \/ BeginAdd(p) \/ BeginUpdate(p) \/ BeginRemove(p) \/ RefuseChanged(p)
             \/ ForgetSubtree(p) \/ SyncExcludes(p) \/ Capture(p) \/ Reacquire(p)
             \/ Stale(p) \/ Note(p) \/ Reconcile(p)
    <3>1. UNCHANGED <<journal, rows, staged, config>>
      BY <2>1 DEF Acquire, ReadNothing, ReadJournal, Refuse, BeginAdd, BeginUpdate,
         BeginRemove, Begin, RefuseChanged, ForgetSubtree, SyncExcludes, Capture, Reacquire,
         Stale, Note, Reconcile, files
    <3> QED BY <1>0, <3>1, QuietStep
  <2>2. CASE ResetStaged(p) \/ StageWindow(p) \/ RemoveStaged(p)
    <3>1. pc[p] \in {"reset", "stage", "sweep"} /\ UNCHANGED <<journal, rows, config>>
      BY <2>2 DEF ResetStaged, StageWindow, RemoveStaged, At
    <3>2. ~Publishing
      BY <3>1 DEF Protocol, Journalled, Preparing, Publishing
    <3> QED BY <1>0, <3>1, <3>2, QuietStep
  <2>3. CASE SaveConfig(p)
    <3>1. pc[p] = "config" /\ UNCHANGED <<journal, rows, staged>>
      BY <2>3 DEF SaveConfig, At
    <3>2. Publishing
      BY <3>1 DEF Protocol, Journalled, Rolling
    <3> QED BY <1>0, <3>1, <3>2, QuietStep
  <2>4. CASE EditConfig(p)
    <3>1. UNCHANGED <<journal, rows, staged>> /\ config'.mounts = config.mounts
      BY <2>4, EditConfigProtocol DEF EditConfig
    <3> QED BY <1>0, <3>1, QuietStep
  <2>5. CASE Detach(p) \/ WriteJournal(p)
    BY <1>0, <2>5, DetachStep, WriteJournalStep DEF RegistryStep
  <2>6. CASE DeleteShard(p) \/ ReplayShard(p) \/ MarkPublished(p)
    BY <1>0, <2>6, PublicationStep, MarkPublishedStep
  <2>7. CASE RemoveJournal(p) \/ Untrack(p)
    BY <1>0, <2>7, RemoveJournalStep, UntrackStep DEF RegistryStep
  <2>8. CASE Track(p)
    BY <1>0, <2>8, TrackStep, TrackProtocol
  <2> QED BY <1>2, <2>1, <2>2, <2>3, <2>4, <2>5, <2>6, <2>7, <2>8 DEF Command
<1>3. ASSUME NEW p \in Procs, Fault(p)
      PROVE  UNCHANGED promised
  <2>1. CASE Fail(p)
    <3>1. UNCHANGED <<journal, rows, staged, config>>
      BY <2>1 DEF Fail, files
    <3> QED BY <1>0, <3>1, QuietStep
  <2>2. CASE RollBack(p)
    <3>1. pc[p] = "replay" /\ UNCHANGED <<journal, rows, staged>>
      BY <2>2 DEF RollBack, At
    <3>2. Publishing
      BY <3>1 DEF Protocol, Journalled, Rolling
    <3> QED BY <1>0, <3>1, <3>2, QuietStep
  <2> QED BY <1>3, <2>1, <2>2 DEF Fault
<1> QED BY <1>1, <1>2, <1>3 DEF Next

-----------------------------------------------------------------------------
(***************************************************************************)
(* MountsPromised and Following.                                           *)
(***************************************************************************)
\* A mount at a target of its own: no two mounts share one.
LEMMA ImportPromise ==
  ASSUME NEW mo \in Mounts, NEW n \in Names, NEW t \in Targets, NEW v \in Versions,
         \A m, k \in Names : mo[m] # None /\ mo[k] # None /\ m # k => mo[m][1] # mo[k][1],
         \A m \in Names \ {n} : mo[m] # None => mo[m][1] # t
  PROVE  LET mn == [mo EXCEPT ![n] = <<t, v>>] IN
         /\ mn[n] = <<t, v>> /\ \A m \in Names \ {n} : mn[m] = mo[m]
         /\ \A m, k \in Names : mn[m] # None /\ mn[k] # None /\ m # k => mn[m][1] # mn[k][1]
  BY DEF Mounts

\* An import completes its own target and leaves the others.
LEMMA ImportWhole ==
  ASSUME NEW base, NEW rn, NEW t, NEW v,
         \A x \in Paths : rn[x] = IF x[1] = t /\ x[2] \in Content[v] THEN v ELSE base[x]
  PROVE  /\ (\A x \in Under(t) : base[x] = None) => Whole(rn, t, v)
         /\ \A s, w : s # t /\ Whole(base, s, w) => Whole(rn, s, w)
  BY DEF Whole, Under

\* Every step of the registry but gat add keeps the promise.
LEMMA PromiseStep ==
  ASSUME Protocol, MountsPromised, Protocol', UNCHANGED promised \/ RegistryStep
  PROVE  MountsPromised'
<1> DEFINE mo == PromisedMounts
           r == PromisedRows
           mn == PromisedMounts'
           rn == PromisedRows'
<1>1. mo \in Mounts
  <2>1. Publishing => journal.post \in Configs
    BY RecordType DEF Protocol, TypeOK, Publishing
  <2> QED BY <2>1, PromisedShape, ConfigType DEF Protocol, TypeOK
<1>2. \A n \in Names : mo[n] # None => mo[n][1] \in Targets
  BY <1>1, Constants DEF Mounts
<1>3. r = [x \in Paths |-> r[x]]
  BY PromisedShape DEF Brought, Protocol, TypeOK, Snapshots
<1>4. /\ \A n \in Names : mo[n] # None => Whole(r, mo[n][1], mo[n][2])
      /\ \A n, k \in Names : mo[n] # None /\ mo[k] # None /\ n # k => mo[n][1] # mo[k][1]
  BY DEF MountsPromised, Promise
<1>5. SUFFICES Promise(mn, rn)
  BY DEF MountsPromised
<1>6. CASE UNCHANGED promised
  BY <1>4, <1>6 DEF promised, Promise
<1>7. ASSUME NEW n \in Names, NEW t \in Targets, NEW v \in Versions, Registry!Add(n, t, v)
      PROVE  Promise(mn, rn)
  <2>1. /\ \A m \in Names \ {n} : mo[m] # None => mo[m][1] # t
        /\ \A x \in Under(t) : r[x] = None
        /\ mn = [mo EXCEPT ![n] = <<t, v>>] /\ rn = Registry!Import(r, t, v)
    BY <1>7 DEF Registry!Add, Registry!Free, Registry!Vacant, Registry!Under, Registry!Paths,
       Under, Paths
  <2>2. \A x \in Paths : rn[x] = IF x[1] = t /\ x[2] \in Content[v] THEN v ELSE r[x]
    BY <2>1 DEF Registry!Import, Registry!Paths, Paths
  <2>3. /\ mn[n] = <<t, v>> /\ \A m \in Names \ {n} : mn[m] = mo[m]
        /\ \A m, k \in Names : mn[m] # None /\ mn[k] # None /\ m # k => mn[m][1] # mn[k][1]
    BY <1>1, <1>4, <2>1, ImportPromise
  <2> HIDE DEF mo, r, mn, rn
  <2>4. /\ Whole(rn, t, v)
        /\ \A s, w : s # t /\ Whole(r, s, w) => Whole(rn, s, w)
    <3>1. \A x \in Under(t) : r[x] = None
      BY <2>1
    <3>2. Whole(rn, t, v)
      BY <2>2, <3>1 DEF Whole, Under
    <3>3. \A s, w : s # t /\ Whole(r, s, w) => Whole(rn, s, w)
      BY <2>2 DEF Whole, Under
    <3> QED BY <3>2, <3>3
  <2> QED BY <1>4, <2>1, <2>3, <2>4 DEF Promise
<1>8. ASSUME NEW n \in Names, mo[n] # None
      PROVE  /\ \A x \in Paths : Registry!Without(r, mo[n][1])[x]
                                   = IF x[1] = mo[n][1] THEN None ELSE r[x]
             /\ \A m \in Names \ {n} : mo[m] # None
                  => Whole(Registry!Without(r, mo[n][1]), mo[m][1], mo[m][2])
  <2>1. \A x \in Paths : Registry!Without(r, mo[n][1])[x]
                           = IF x[1] = mo[n][1] THEN None ELSE r[x]
    BY DEF Registry!Without, Registry!Paths, Paths
  <2> QED BY <1>4, <1>8, <2>1 DEF Whole, Under
<1>9. ASSUME NEW n \in Names, NEW t \in Targets, NEW v \in Versions, Registry!Update(n, t, v)
      PROVE  Promise(mn, rn)
  <2>1. /\ \A m \in Names \ {n} : mo[m] # None => mo[m][1] # t
        /\ mo[n] # None /\ (t # mo[n][1] => \A x \in Under(t) : r[x] = None)
        /\ mn = [mo EXCEPT ![n] = <<t, v>>]
        /\ rn = Registry!Import(Registry!Without(r, mo[n][1]), t, v)
    BY <1>9 DEF Registry!Update, Registry!Free, Registry!Vacant, Registry!Under,
       Registry!Paths, Under, Paths
  <2>2. \A x \in Under(t) : Registry!Without(r, mo[n][1])[x] = None
    BY <1>8, <2>1 DEF Under
  <2> DEFINE base == Registry!Without(r, mo[n][1])
  <2>3. /\ \A x \in Paths : rn[x] = IF x[1] = t /\ x[2] \in Content[v] THEN v ELSE base[x]
        /\ \A x \in Under(t) : base[x] = None
    BY <2>1, <2>2 DEF Registry!Import, Registry!Paths, Paths
  <2>4. \A m \in Names \ {n} : mo[m] # None => Whole(base, mo[m][1], mo[m][2])
    BY <1>8, <2>1
  <2>5. /\ mn[n] = <<t, v>> /\ \A m \in Names \ {n} : mn[m] = mo[m]
        /\ \A m, k \in Names : mn[m] # None /\ mn[k] # None /\ m # k => mn[m][1] # mn[k][1]
    BY <1>1, <1>4, <2>1, ImportPromise
  <2> HIDE DEF mo, r, mn, rn, base
  <2>6. /\ Whole(rn, t, v)
        /\ \A s, w : s # t /\ Whole(base, s, w) => Whole(rn, s, w)
    BY <2>3, ImportWhole
  <2> QED BY <2>1, <2>4, <2>5, <2>6 DEF Promise
<1>10. ASSUME NEW n \in Names, Registry!Remove(n)
      PROVE  Promise(mn, rn)
  <2>1. /\ mo[n] # None /\ mn = [mo EXCEPT ![n] = None]
        /\ rn = Registry!Without(r, mo[n][1])
    BY <1>10 DEF Registry!Remove
  <2>2. mn[n] = None /\ \A m \in Names \ {n} : mn[m] = mo[m]
    BY <1>1, <2>1 DEF Mounts
  <2> QED BY <1>4, <1>8, <2>1, <2>2 DEF Promise
<1>11. ASSUME NEW n \in Names, Registry!Detach(n)
      PROVE  Promise(mn, rn)
  <2>1. mn = [mo EXCEPT ![n] = None] /\ rn = r
    BY <1>11 DEF Registry!Detach
  <2>2. mn[n] = None /\ \A m \in Names \ {n} : mn[m] = mo[m]
    BY <1>1, <2>1 DEF Mounts
  <2> QED BY <1>4, <2>1, <2>2 DEF Promise
<1>12. ASSUME NEW x \in Paths, Registry!Untrack(x)
      PROVE  Promise(mn, rn)
  <2>1. /\ \A n \in Names : mo[n] # None => mo[n][1] # x[1]
        /\ mn = mo /\ rn = [r EXCEPT ![x] = None]
    BY <1>12 DEF Registry!Untrack, Registry!Owned
  <2>2. \A y \in Paths : y # x => rn[y] = r[y]
    BY <1>3, <2>1
  <2> QED BY <1>4, <2>1, <2>2 DEF Promise, Whole, Under
<1> QED BY <1>6, <1>7, <1>9, <1>10, <1>11, <1>12 DEF RegistryStep

\* Mount commands, other edits and syncs, and nothing else.
MountsAlone == {"add", "rm"} \cap Kinds = {}

\* What a process says of claims and excludes stays, as above.
LEMMA FollowsBystander ==
  ASSUME NEW q \in Procs, Follows(q), pc'[q] = pc[q], job'[q] = job[q],
         pc[q] \in Unlocked \/ UNCHANGED <<rows, claims, excludes, journal>>
  PROVE  Follows(q)'
<1>1. CASE pc[q] \in Unlocked
  BY <1>1 DEF Follows, Fresh, Unlocked
<1>2. CASE UNCHANGED <<rows, claims, excludes, journal>>
  BY <1>2 DEF Follows, Fresh, Present
<1> QED BY <1>1, <1>2

\* It is enough to look at the process that steps.
LEMMA FollowingByHolder ==
  ASSUME Protocol, Following, NEW p \in Procs, Command(p) \/ RollBack(p), Follows(p)',
         ~Publishing' => claims' \subseteq Present',
         Publishing' => claims' \subseteq Present' \cup Under(journal'.old),
         journal' = None => excludes' = Present'
  PROVE  Following'
<1>1. \A q \in Procs \ {p} : pc'[q] = pc[q] /\ job'[q] = job[q]
  BY OthersStay DEF Fault
<1>2. \A q \in Procs \ {p} : pc[q] \in Unlocked
  BY HolderActs, Constants DEF Protocol, OneHolder
<1>3. \A q \in Procs \ {p} : Follows(q)'
  BY <1>1, <1>2, FollowsBystander DEF Following
<1> QED BY <1>3 DEF Following

\* A step that leaves rows, claims, excludes and journal as they are.
LEMMA FollowingFrame ==
  ASSUME Following, UNCHANGED <<rows, claims, excludes, journal>>,
         \A q \in Procs : Follows(q)'
  PROVE  Following'
<1>1. (Publishing' <=> Publishing) /\ Present' = Present
  BY DEF Publishing, Present
<1> QED BY <1>1 DEF Following

\* A step on the way, far from rows, claims and excludes.
LEMMA QuietFollowing ==
  ASSUME Protocol, Following, NEW p \in Procs, Command(p),
         UNCHANGED <<rows, claims, excludes, journal>>,
         pc'[p] \in Watched => pc'[p] \in Preparing
  PROVE  Following'
<1>1. Follows(p)'
  BY DEF Follows, Fresh, Watched, Preparing
<1>2. (Publishing' <=> Publishing) /\ Present' = Present
  BY DEF Publishing, Present
<1> QED BY <1>1, <1>2, FollowingByHolder DEF Following

\* One shard of the old target loses its rows (claims and excludes).
LEMMA DeleteShardFollowing ==
  ASSUME Protocol, Following, NEW p \in Procs, DeleteShard(p)
  PROVE  Following'
<1>1. PICK S \in SUBSET Doomed(p) : rows' = [x \in Paths |-> IF x \in S THEN None ELSE rows[x]]
  BY DEF DeleteShard
<1>2. pc[p] = "delete" /\ pc'[p] = "delete" /\ UNCHANGED <<claims, excludes, journal>>
  BY DEF DeleteShard, At, Goto, Protocol, TypeOK
<1>3. Publishing /\ journal = job[p].rec
  BY <1>2 DEF Protocol, Journalled, Rolling
<1>4. Publishing' /\ journal' # None
  BY <1>2, <1>3 DEF Publishing
<1>5. Present \subseteq Present' \cup Under(journal.old)
  BY <1>1, <1>3 DEF Present, Doomed
<1>6. Follows(p)'
  BY <1>2 DEF Follows, Fresh
<1> QED BY <1>2, <1>3, <1>4, <1>5, <1>6, FollowingByHolder DEF Following, Command

\* The claims below the old target go (claims and excludes).
LEMMA ForgetSubtreeFollowing ==
  ASSUME Protocol, Following, NEW p \in Procs, ForgetSubtree(p)
  PROVE  Following'
<1>1. /\ pc[p] = "delete" /\ pc'[p] = "config" /\ claims' = claims \ Under(job[p].rec.old)
      /\ UNCHANGED <<rows, excludes, journal>>
  BY DEF ForgetSubtree, At, Goto, Protocol, TypeOK
<1>2. Publishing /\ journal = job[p].rec /\ journal.old # None /\ Sound(journal)
  BY <1>1 DEF Protocol, Journalled, Rolling, Pending
<1>3. Publishing' /\ journal' # None /\ Present' = Present
  BY <1>1, <1>2 DEF Publishing, Present
<1>4. claims' \subseteq Present
  BY <1>1, <1>2 DEF Following
<1>5. ~Fresh(p)'
  BY <1>1, <1>2 DEF Fresh, Sound
<1>6. Follows(p)'
  BY <1>1, <1>3, <1>4, <1>5 DEF Follows
<1> QED BY <1>3, <1>4, <1>6, FollowingByHolder DEF Command

\* The journal is written once all windows are (claims and excludes).
LEMMA WriteJournalFollowing ==
  ASSUME Protocol, Following, NEW p \in Procs, WriteJournal(p)
  PROVE  Following'
<1>1. pc[p] = "stage" /\ UNCHANGED <<rows, claims, excludes>>
  BY DEF WriteJournal, At
<1>2. journal = None /\ ~Publishing
  BY <1>1 DEF Protocol, Journalled, Preparing, Publishing
<1>3. Publishing' /\ journal' # None /\ Present' = Present
  BY <1>1, WriteJournalProtocol DEF Present
<1>4. claims' \subseteq Present' /\ excludes' = Present'
  BY <1>1, <1>2, <1>3 DEF Following
<1>5. Follows(p)'
  BY <1>4 DEF Follows
<1> QED BY <1>3, <1>4, <1>5, FollowingByHolder DEF Command

\* Recovery finds a journal it can read (claims and excludes).
LEMMA ReadJournalFollowing ==
  ASSUME Protocol, Following, NEW p \in Procs, ReadJournal(p)
  PROVE  Following'
<1> DEFINE j == [job[p] EXCEPT !.rec = journal, !.recovering = TRUE]
           label == IF journal.phase = "publish" THEN AfterJournal(journal) ELSE "excludes"
<1>0. job \in [Procs -> Jobs] /\ pc \in [Procs -> Labels]
  BY DEF Protocol, TypeOK
<1>1. /\ pc' = [pc EXCEPT ![p] = label] /\ job' = [job EXCEPT ![p] = j]
      /\ UNCHANGED <<rows, claims, excludes, journal>> /\ journal # None
  BY DEF ReadJournal, Step, files
<1>2. j.recovering
  BY <1>0 DEF Jobs
<1>3. /\ label \in {"delete", "config", "excludes"}
      /\ label = "config" => journal.old = None /\ journal.phase = "publish"
  BY DEF AfterJournal
<1> HIDE DEF j, label
<1>4. pc'[p] = label /\ job'[p] = j
  BY <1>0, <1>1
<1>5. (Publishing' <=> Publishing) /\ Present' = Present
  BY <1>1 DEF Publishing, Present
<1>6. label = "config" => claims \subseteq Present
  <2> HAVE label = "config"
  <2>1. Publishing /\ journal.old = None
    BY <1>1, <1>3 DEF Publishing
  <2>2. Under(journal.old) = {}
    BY <2>1, Constants DEF Under, Paths
  <2> QED BY <2>1, <2>2 DEF Following
<1>7. Follows(p)'
  BY <1>1, <1>2, <1>3, <1>4, <1>5, <1>6 DEF Follows, Fresh
<1> QED BY <1>1, <1>5, <1>7, FollowingByHolder DEF Following, Command

\* gat.yaml is written from the record (claims and excludes).
LEMMA SaveConfigFollowing ==
  ASSUME Protocol, Following, NEW p \in Procs, SaveConfig(p)
  PROVE  Following'
<1> DEFINE j == [job[p] EXCEPT !.todo = UNION {staged[i] : i \in 1 .. job[p].rec.windows}]
<1>0. pc \in [Procs -> Labels] /\ job \in [Procs -> Jobs]
  BY DEF Protocol, TypeOK
<1>1. /\ pc[p] = "config" /\ pc'[p] = "replay" /\ job' = [job EXCEPT ![p] = j]
      /\ UNCHANGED <<rows, claims, excludes, journal>>
  BY <1>0 DEF SaveConfig, At, Step
<1>2. j.recovering = job[p].recovering /\ j.landed = job[p].landed
  BY <1>0 DEF Jobs
<1> HIDE DEF j
<1>3. job'[p] = j /\ (Publishing' <=> Publishing) /\ Present' = Present
  BY <1>0, <1>1 DEF Publishing, Present
<1>4. Fresh(p)' => Fresh(p)
  BY <1>1, <1>2, <1>3 DEF Fresh
<1>5. Follows(p)'
  BY <1>1, <1>3, <1>4 DEF Following, Follows
<1> QED BY <1>1, <1>3, <1>5, FollowingByHolder DEF Following, Command

\* One shard gets its rows (claims and excludes).
LEMMA ReplayShardFollowing ==
  ASSUME Protocol, Following, NEW p \in Procs, ReplayShard(p)
  PROVE  Following'
<1>0. /\ pc \in [Procs -> Labels] /\ job \in [Procs -> Jobs] /\ rows \in Snapshots
      /\ job[p].todo \subseteq StagedRows
  BY JobType DEF Protocol, TypeOK
<1>1. PICK S \in SUBSET job[p].todo :
        /\ rows' = Replayed(S)
        /\ Step(p, "replay", [job[p] EXCEPT !.todo = @ \ S, !.landed = TRUE])
  BY DEF ReplayShard
<1> DEFINE j == [job[p] EXCEPT !.todo = @ \ S, !.landed = TRUE]
<1>2. /\ pc[p] = "replay" /\ pc'[p] = "replay" /\ job' = [job EXCEPT ![p] = j]
      /\ UNCHANGED <<claims, excludes, journal>>
  BY <1>0, <1>1 DEF ReplayShard, At, Step
<1>3. Publishing /\ Publishing' /\ journal' # None
  BY <1>2 DEF Protocol, Journalled, Rolling, Publishing
<1>4. j.landed
  BY <1>0 DEF Jobs
<1> HIDE DEF j
<1>5. job'[p] = j
  BY <1>0, <1>2
<1>6. Present \subseteq Present'
  <2>1. \A r \in S : r[2] # None
    BY <1>0, Constants DEF StagedRows
  <2> QED BY <1>0, <1>1, <2>1, ReplayedRows DEF Protocol, Present
<1>7. Follows(p)'
  BY <1>2, <1>4, <1>5, <1>6 DEF Following, Follows, Fresh
<1> QED BY <1>2, <1>3, <1>6, <1>7, FollowingByHolder DEF Following, Command

\* A failed add takes gat.yaml back (claims and excludes).
LEMMA RollBackFollowing ==
  ASSUME Protocol, Following, NEW p \in Procs, RollBack(p)
  PROVE  Following'
<1>1. /\ pc[p] = "replay" /\ pc'[p] = "clear" /\ job[p].rec.op = "add"
      /\ ~job[p].recovering /\ ~job[p].landed
      /\ UNCHANGED <<rows, claims, excludes, journal>>
  BY DEF RollBack, At, Goto, Protocol, TypeOK
<1>2. journal = job[p].rec
  BY <1>1 DEF Protocol, Journalled, Rolling
<1>3. Fresh(p) /\ (Publishing' <=> Publishing) /\ Present' = Present
  BY <1>1, <1>2 DEF Fresh, Publishing, Present
<1>4. Follows(p)'
  BY <1>1, <1>3 DEF Following, Follows, Fresh
<1> QED BY <1>1, <1>3, <1>4, FollowingByHolder DEF Following

\* The journal says that the rows are there (claims and excludes).
LEMMA MarkPublishedFollowing ==
  ASSUME Protocol, Following, NEW p \in Procs, MarkPublished(p)
  PROVE  Following'
<1>1. /\ pc[p] = "replay" /\ pc'[p] = "excludes" /\ UNCHANGED <<rows, claims, excludes>>
      /\ journal' = [job[p].rec EXCEPT !.phase = "regenerate"]
  BY DEF MarkPublished, At, Goto, Protocol, TypeOK
<1>2. job[p].rec \in Records
  BY <1>1 DEF Protocol, Journalled, Rolling, Publishing, TypeOK
<1>3. [job[p].rec EXCEPT !.phase = "regenerate"] \in Records
  BY <1>2 DEF Records
<1>4. journal' # None /\ ~Publishing' /\ Present' = Present
  BY <1>1, <1>3, MarkPublishedProtocol, Constants DEF Present
<1>5. claims' \subseteq Present'
  BY <1>1, <1>4 DEF Following, Follows
<1>6. Follows(p)'
  BY <1>1 DEF Follows, Fresh
<1> QED BY <1>4, <1>5, <1>6, FollowingByHolder DEF Command

\* The excludes are regenerated (claims and excludes).
LEMMA SyncExcludesFollowing ==
  ASSUME Protocol, Following, NEW p \in Procs, SyncExcludes(p)
  PROVE  Following'
<1>1. /\ pc[p] = "excludes" /\ excludes' = Present /\ UNCHANGED <<rows, claims, journal>>
      /\ pc'[p] = IF job[p].rec # None THEN "clear" ELSE "idle"
  BY DEF SyncExcludes, At, Goto, Release, Protocol, TypeOK
<1>2. job[p].rec # None => ~Publishing
  BY <1>1 DEF Protocol, Journalled
<1>3. (Publishing' <=> Publishing) /\ Present' = Present
  BY <1>1 DEF Publishing, Present
<1>4. Follows(p)'
  BY <1>1, <1>2, <1>3 DEF Following, Follows, Fresh
<1> QED BY <1>1, <1>3, <1>4, FollowingByHolder DEF Following, Command

\* The journal goes (claims and excludes).
LEMMA RemoveJournalFollowing ==
  ASSUME Protocol, Following, NEW p \in Procs, RemoveJournal(p)
  PROVE  Following'
<1>1. /\ pc[p] = "clear" /\ pc'[p] = "sweep" /\ journal' = None
      /\ UNCHANGED <<rows, claims, excludes>>
  BY DEF RemoveJournal, At, Goto, Protocol, TypeOK
<1>2. ~Publishing' /\ Present' = Present
  BY <1>1 DEF Publishing, Present
<1>3. claims' \subseteq Present' /\ excludes' = Present'
  BY <1>1, <1>2 DEF Following, Follows
<1>4. Follows(p)'
  BY <1>1 DEF Follows, Fresh
<1> QED BY <1>2, <1>3, <1>4, FollowingByHolder DEF Command

\* gat sync claims what it placed (claims and excludes).
LEMMA ReconcileFollowing ==
  ASSUME Protocol, Following, NEW p \in Procs, Reconcile(p)
  PROVE  Following'
<1>1. /\ pc'[p] = "excludes" /\ claims' = Present
      /\ UNCHANGED <<rows, excludes, journal>>
  BY DEF Reconcile, At, Goto, Protocol, TypeOK
<1>2. (Publishing' <=> Publishing) /\ Present' = Present
  BY <1>1 DEF Publishing, Present
<1>3. Follows(p)'
  BY <1>1 DEF Follows, Fresh
<1> QED BY <1>1, <1>2, <1>3, FollowingByHolder DEF Following, Command

\* Every step keeps claims and excludes behind the rows.
LEMMA NextFollowing ==
  ASSUME MountsAlone, Protocol, Following, [Next]_vars
  PROVE  Following'
<1>1. CASE HandEdit \/ UNCHANGED vars
  <2>1. UNCHANGED <<rows, claims, excludes, journal, pc, job>>
    BY <1>1 DEF HandEdit, vars
  <2>2. \A q \in Procs : Follows(q)'
    BY <2>1, FollowsBystander DEF Following
  <2> QED BY <2>1, <2>2, FollowingFrame
<1>2. ASSUME NEW p \in Procs, Command(p)
      PROVE  Following'
  <2>1. CASE \/ \E k \in Kinds : Acquire(p, k)
             \/ ReadNothing(p) \/ Refuse(p) \/ Detach(p) \/ RefuseChanged(p) \/ RemoveStaged(p)
             \/ EditConfig(p) \/ Capture(p) \/ Reacquire(p) \/ Stale(p)
    <3>1. UNCHANGED <<rows, claims, excludes, journal>>
      BY <2>1 DEF Acquire, ReadNothing, Refuse, Detach, RefuseChanged, RemoveStaged,
         EditConfig, Capture, Reacquire, Stale, files
    <3>2. pc'[p] \notin Watched
      BY <2>1, PassingBy DEF Passing
    <3> QED BY <1>2, <3>1, <3>2, QuietFollowing
  <2>2. CASE \/ BeginAdd(p) \/ BeginUpdate(p) \/ BeginRemove(p)
             \/ ResetStaged(p) \/ StageWindow(p)
    <3>1. UNCHANGED <<rows, claims, excludes, journal>>
      BY <2>2 DEF BeginAdd, BeginUpdate, BeginRemove, Begin, ResetStaged, StageWindow, files
    <3>2. pc'[p] \in Preparing
      BY <2>2 DEF BeginAdd, BeginUpdate, BeginRemove, Begin, ResetStaged, StageWindow, Step,
         Goto, Preparing, Protocol, TypeOK
    <3> QED BY <1>2, <3>1, <3>2, QuietFollowing
  <2>3. CASE \/ DeleteShard(p) \/ ForgetSubtree(p) \/ WriteJournal(p) \/ ReadJournal(p)
             \/ SaveConfig(p) \/ ReplayShard(p)
    BY <2>3, DeleteShardFollowing, ForgetSubtreeFollowing, WriteJournalFollowing,
       ReadJournalFollowing, SaveConfigFollowing, ReplayShardFollowing
  <2>4. CASE MarkPublished(p) \/ SyncExcludes(p) \/ RemoveJournal(p) \/ Reconcile(p)
    BY <2>4, MarkPublishedFollowing, SyncExcludesFollowing, RemoveJournalFollowing,
       ReconcileFollowing
  <2>5. ~Track(p) /\ ~Untrack(p) /\ ~Note(p)
    BY DEF MountsAlone, Protocol, Named, Track, Untrack, Note, Ready, At
  <2> QED BY <1>2, <2>1, <2>2, <2>3, <2>4, <2>5 DEF Command
<1>3. ASSUME NEW p \in Procs, Fail(p)
      PROVE  Following'
  <2>1. \A q \in Procs \ {p} : pc'[q] = pc[q] /\ job'[q] = job[q]
    BY <1>3, OthersStay DEF Fault
  <2>2. pc'[p] = "idle" /\ UNCHANGED <<rows, claims, excludes, journal>>
    BY <1>3 DEF Fail, files, Protocol, TypeOK
  <2>3. \A q \in Procs \ {p} : Follows(q)'
    BY <2>1, <2>2, FollowsBystander DEF Following
  <2>4. Follows(p)'
    BY <2>2 DEF Follows, Fresh
  <2> QED BY <2>2, <2>3, <2>4, FollowingFrame
<1> QED BY <1>1, <1>2, <1>3, RollBackFollowing DEF Next, Fault
-----------------------------------------------------------------------------
(***************************************************************************)
(* The theorems.                                                           *)
(***************************************************************************)
\* A repository without mounts.
LEMMA InitInvariants ==
  ASSUME Init
  PROVE  Protocol /\ RowsKept /\ MountsPromised /\ Following /\ Registry!Init
<1>1. Protocol
  BY InitProtocol
<1>2. /\ config.mounts = [n \in Names |-> None] /\ rows = [x \in Paths |-> None]
      /\ claims = Present /\ excludes = Present /\ journal = None
      /\ pc = [p \in Procs |-> "idle"]
  BY DEF Init
<1>3. RowsKept
  BY <1>2 DEF RowsKept, Untouched, Progress, Fresh, Preparing
<1>4. PromisedMounts = [n \in Names |-> None] /\ PromisedRows = [x \in Paths |-> None]
  BY <1>1, <1>2, PromisedShape DEF Publishing
<1>5. MountsPromised
  BY <1>4 DEF MountsPromised, Promise
<1>6. Following
  BY <1>2 DEF Following, Follows, Fresh, Publishing
<1>7. Registry!Init
  BY <1>4 DEF Registry!Init, Registry!Paths, Paths
<1> QED BY <1>1, <1>3, <1>5, <1>6, <1>7

\* Who holds the lock, what each process knows and what lies on disk is in
\* order, and the rows have come as far as the processes think.
THEOREM ProtocolHolds == Spec => [](Protocol /\ RowsKept)
<1>1. Init => Protocol /\ RowsKept
  BY InitInvariants
<1>2. Protocol /\ RowsKept /\ [Next]_vars => (Protocol /\ RowsKept)'
  BY NextProtocol, NextRows
<1> QED BY <1>1, <1>2, PTL DEF Spec

\* Every variable has its type, whatever crashes and fails.
THEOREM TypeCorrect == Spec => []TypeOK
<1>1. Protocol => TypeOK
  BY DEF Protocol
<1> QED BY <1>1, ProtocolHolds, PTL

\* The journal that a recovery finds (MountJournal::read) has every window it
\* counts, and none is empty: windows are written before the journal and go
\* after it.
THEOREM JournalIsReadable == Spec => []JournalReadable
<1>1. ASSUME Protocol
      PROVE  JournalReadable
  <2>1. SUFFICES ASSUME Publishing
                 PROVE  /\ Len(staged) = journal.windows
                        /\ \A i \in 1 .. journal.windows :
                             staged[i] # {} /\ \A r \in staged[i] : r[1] \in Under(journal.new)
    BY DEF JournalReadable, Readable, Publishing
  <2>2. Pending /\ \A r \in Staged : r[1] \in Under(journal.new)
    BY <1>1, <2>1, StagedRowsAgree DEF Protocol
  <2> QED BY <2>2 DEF Pending, Staged
<1> QED BY <1>1, ProtocolHolds, PTL

\* An edit of gat.yaml made while no publication was under way is not undone
\* (validate_config_candidate, and a record that holds the newer document).
THEOREM EditsAreKept == Spec => []EditsSurvive
<1>1. Protocol => EditsSurvive
  BY DEF Protocol, EditsSurvive
<1> QED BY <1>1, ProtocolHolds, PTL

\* The journal implements MountRegistry: a mount command is one step or none,
\* with crashes anywhere in it and in its recoveries, beside every other command.
THEOREM MountsAreAtomic == Spec => AtomicMounts
<1>1. Init => Registry!Init
  BY InitInvariants
<1>2. ASSUME Protocol, RowsKept, [Next]_vars
      PROVE  [Registry!Next]_<<PromisedMounts, PromisedRows>>
  <2>1. \/ UNCHANGED promised
        \/ RegistryStep
        \/ \E x \in Paths : Registry!Track(x)
    BY <1>2, StepMaps
  <2> QED BY <2>1 DEF RegistryStep, promised, Registry!Next, Registry!Paths, Paths
<1> QED BY <1>1, <1>2, ProtocolHolds, PTL DEF Spec, AtomicMounts, Registry!Spec

\* Outside an unfinished publication a mount has its whole snapshot and
\* nothing of an earlier one, if gat add does not interfere (it may: OwnsTarget).
THEOREM MountsAreComplete ==
  ASSUME "add" \notin Kinds
  PROVE  Spec => []MountsComplete
<1>1. Init => MountsPromised
  BY InitInvariants
<1>2. Protocol /\ RowsKept /\ MountsPromised /\ [Next]_vars => MountsPromised'
  BY NextProtocol, StepMaps, PromiseStep
<1>3. ASSUME Protocol, MountsPromised
      PROVE  MountsComplete
  BY <1>3, PromisedShape DEF MountsPromised, Promise, Whole, MountsComplete
<1> QED BY <1>1, <1>2, <1>3, ProtocolHolds, PTL DEF Spec

\* The fourth part holds throughout, beside mount commands, other edits and
\* syncs.
LEMMA FollowingHolds ==
  ASSUME MountsAlone
  PROVE  Spec => []Following
<1>1. Init => Following
  BY InitInvariants
<1>2. Protocol /\ RowsKept /\ Following /\ [Next]_vars => Following'
  BY NextFollowing
<1> QED BY <1>1, <1>2, ProtocolHolds, PTL DEF Spec

\* Once no journal is left, Git ignores exactly the rows there are (the
\* Regenerate phase), beside mount commands, other edits and gat sync.
THEOREM ExcludesAreExact ==
  ASSUME MountsAlone
  PROVE  Spec => []ExcludesExact
<1>1. Following => ExcludesExact
  BY DEF Following, ExcludesExact
<1> QED BY <1>1, FollowingHolds, PTL

\* Once no journal is left, nothing is claimed as materialized whose row a
\* mount transaction took away (delete_subtree_windowed), beside the same.
THEOREM ClaimsAreFollowed ==
  ASSUME MountsAlone
  PROVE  Spec => []ClaimsFollow
<1>1. Following => ClaimsFollow
  BY DEF Following, ClaimsFollow, Publishing
<1> QED BY <1>1, FollowingHolds, PTL
=============================================================================
