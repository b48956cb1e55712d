-------------------------- MODULE DesiredMirrorProofs --------------------------
(***************************************************************************)
(* Proofs about DesiredMirror, for every set of processes, paths, objects, *)
(* depths and shards and however often git writes.                         *)
(*                                                                         *)
(* Two inductive invariants.  Base says that everything recorded of a      *)
(* shard file is well formed and that a proof vouches for what is on disk; *)
(* it needs no assumption beyond those of the model.  Agreement says that  *)
(* the mirror holds what was recorded, and gat.lock what was mirrored; it  *)
(* needs that git brings no shard tree into a repository configured for a  *)
(* flat gat.lock (FlatHistory), as the runs assume.                        *)
(***************************************************************************)
EXTENDS DesiredMirror, TLAPS

-----------------------------------------------------------------------------
(* The first invariant: what is recorded of the shard files.               *)

Records == [Shards -> Stored \cup {None}]

\* The rows r are all of paths that belong into shard s.
Fits(r, s) == \A x \in Paths : r[x] # None => ShardOf[LevelOf[s]][x] = s

\* The record c holds no path of another shard, and its proofs that match are
\* of what the shard files f hold.
Sound(c, f) ==
  /\ c \in Records
  /\ \A s \in Shards :
       c[s] # None => /\ Fits(c[s].rows, s)
                      /\ c[s].proof => f[s] = c[s].rows

FilesPlaced == \A s \in Shards : files[s] # None => Fits(files[s], s)

MirrorPlaced ==
  \A x \in Paths : mirror[x] # None => ShardOf[LevelOf[mirror[x].shard]][x] = mirror[x].shard

\* The request a command carries, by its kind.
Asked(j) ==
  /\ j.kind = "add" => j.from = None /\ j.to \in Paths /\ j.oid \in Oids
  /\ j.kind = "rm" => j.from \in Paths /\ j.to = None
  /\ j.kind = "mv" => j.from \in Paths /\ j.to \in Paths /\ j.from # j.to

\* Which commands get where.
KindAt(l) ==
  CASE l = "idle" -> {"none"}
    [] l \in {"capture", "captured", "reconcile"} -> {"sync"}
    [] l = "pinned" -> {"add"}
    [] l = "recheck" -> {"add", "sync"}
    [] l = "refresh" -> {"add", "rm", "mv", "sync"}
    [] OTHER -> {"add", "rm", "mv"}

\* A publication that was begun: what it moves or removes is there, and it has
\* evidence only of those shards in its scope that it has done.
Underway(j) ==
  /\ j.from # None => mirror[j.from] # None
  /\ j.touched = Scope(j)
  /\ j.touched # {}
  /\ j.todo \subseteq j.touched
  /\ \A s \in Shards \ (j.touched \ j.todo) : j.now[s] = None

Onward(p) ==
  /\ Sound(job[p].seen, files)
  /\ Sound(job[p].now, files)
  /\ job[p].kind \in KindAt(pc[p])
  /\ Asked(job[p])
  /\ pc[p] = "publish" => Underway(job[p])

Base ==
  /\ TypeOK
  /\ FilesPlaced
  /\ MirrorPlaced
  /\ Sound(catalog, files)
  /\ \A p \in Procs : Onward(p)

-----------------------------------------------------------------------------
(* The operators of the model. *)

\* Nothing is of the type of whatever it stands for, and says nothing.
LEMMA Nothing ==
  /\ NoRows \in Rows /\ NoRows # None
  /\ \A f : Sound(NoShards, f)
  /\ NoShards \in [Shards -> Rows \cup {None}]
  /\ Present(NoShards) = {}
  /\ NoJob \in JobType
  /\ NoJob.seen = NoShards /\ NoJob.now = NoShards /\ NoJob.kind = "none"
<1>1. NoRows \in Rows /\ NoRows # None
  BY NoValueAssumption DEF Rows, NoRows
<1>2. NoShards \in Records /\ NoShards \in [Shards -> Rows \cup {None}] /\ Present(NoShards) = {}
  BY DEF Records, NoShards, Present
<1>3. \A f : Sound(NoShards, f)
  BY <1>2 DEF Sound, NoShards
<1>4. NoJob.seen = NoShards /\ NoJob.now = NoShards /\ NoJob.kind = "none"
  BY DEF NoJob
<1>5. NoJob \in JobType
  BY <1>2 DEF NoJob, JobType, Kinds, Records
<1> QED
  BY <1>1, <1>2, <1>3, <1>4, <1>5

\* Losing proofs loses nothing else.
LEMMA ProofsLost ==
  ASSUME NEW c \in Records, NEW S
  PROVE  /\ Unproven(c, S) \in Records
         /\ \A s \in Shards :
              /\ Unproven(c, S)[s] = None <=> c[s] = None
              /\ c[s] # None => /\ Unproven(c, S)[s].rows = c[s].rows
                                /\ Unproven(c, S)[s].proof => c[s].proof /\ s \notin S
<1> DEFINE U == Unproven(c, S)
<1>1. ASSUME NEW s \in Shards, s \in S, c[s] # None
      PROVE  /\ U[s] \in Stored /\ U[s] # None
             /\ U[s].rows = c[s].rows /\ ~U[s].proof
  <2>1. c[s] \in Stored
    BY <1>1 DEF Records
  <2>2. U[s] = [c[s] EXCEPT !.proof = FALSE]
    BY <1>1 DEF Unproven
  <2>3. U[s] = [rows |-> c[s].rows, proof |-> FALSE]
    BY <2>1, <2>2 DEF Stored
  <2>4. U[s] \in Stored
    BY <2>1, <2>3 DEF Stored
  <2>5. U[s].rows = c[s].rows /\ ~U[s].proof
    BY <2>3
  <2> QED
    BY <2>4, <2>5, NoValueAssumption
<1>2. ASSUME NEW s \in Shards, s \notin S \/ c[s] = None PROVE U[s] = c[s]
  BY <1>2 DEF Unproven
<1>3. U \in Records
  <2>1. \A s \in Shards : U[s] \in Stored \cup {None}
    BY <1>1, <1>2 DEF Records
  <2> QED
    BY <2>1 DEF Unproven, Records
<1> QED
  BY <1>1, <1>2, <1>3

\* Proofs are lost of the shard files that are rewritten, so none that is left
\* vouches for anything else than before.
LEMMA StaysSound ==
  ASSUME NEW c, NEW S, NEW f, NEW g, Sound(c, f), \A s \in Shards \ S : g[s] = f[s]
  PROVE  Sound(Unproven(c, S), g)
<1>1. c \in Records
  BY DEF Sound
<1> QED
  BY <1>1, ProofsLost DEF Sound

\* A sound record has the type of one.
LEMMA SoundRecords == \A c, f : Sound(c, f) => c \in Records
BY DEF Sound

\* The one flat file.
LEMMA FlatShard ==
  /\ 0 \in Levels
  /\ \A s, u \in Shards : LevelOf[s] = 0 /\ LevelOf[u] = 0 => s = u
  /\ \A x \in Paths, d \in Levels : ShardOf[d][x] \in Shards /\ LevelOf[ShardOf[d][x]] = d
  /\ \A s \in Shards : LevelOf[s] \in Levels
  /\ target \in Targets => target \in Levels
BY LevelsAssumption, ShardAssumption

\* A layout is made of the slices of its rows.
LEMMA LayoutFits ==
  ASSUME NEW m \in Rows, NEW d \in Levels
  PROVE  /\ Layout(m, d) \in [Shards -> Rows \cup {None}]
         /\ \A s \in Shards : Layout(m, d)[s] # None =>
              LevelOf[s] = d /\ Layout(m, d)[s] = Slice(m, s) /\ Fits(Layout(m, d)[s], s)
<1>1. \A s \in Shards : Slice(m, s) \in Rows /\ Fits(Slice(m, s), s)
  BY DEF Slice, Rows, Fits
<1>2. \A s \in Shards : Layout(m, d)[s] \in {None, Slice(m, s)}
                        /\ (Layout(m, d)[s] # None => LevelOf[s] = d)
  BY DEF Layout
<1>3. Layout(m, d) \in [Shards -> Rows \cup {None}]
  BY <1>1, <1>2 DEF Layout
<1> QED
  BY <1>1, <1>2, <1>3

-----------------------------------------------------------------------------
(* What a mutation makes of the mirror. *)

\* A mutation gives every path a row of the mirror, or one of the target's.
LEMMA AfterTyped ==
  ASSUME TypeOK, MirrorPlaced, NEW j \in JobType, Asked(j), j.kind \in {"add", "rm", "mv"},
         j.from # None => mirror[j.from] # None
  PROVE  /\ After(j) \in [Paths -> Row \cup {None}]
         /\ AfterRows(j) \in Rows
         /\ Mirrored(j) \in [Paths -> Row \cup {None}]
         /\ \A s \in Shards : ShardRows(j, s) \in Rows /\ Fits(ShardRows(j, s), s)
         /\ \A x \in Paths : Mirrored(j)[x] # None =>
              ShardOf[LevelOf[Mirrored(j)[x].shard]][x] = Mirrored(j)[x].shard
<1> DEFINE m == After(j)
           New(x, o) == [oid |-> o, shard |-> ShardOf[target][x]]
           Good(x) == m[x] # None => /\ m[x] \in Row
                                     /\ ShardOf[LevelOf[m[x].shard]][x] = m[x].shard
<1>1. \A x \in Paths, o \in Oids :
        /\ New(x, o) \in Row
        /\ ShardOf[LevelOf[New(x, o).shard]][x] = New(x, o).shard
  BY FlatShard DEF TypeOK, Row
<1>2. ASSUME NEW x \in Paths PROVE Good(x)
  <2>1. mirror[x] # None => mirror[x] \in Row /\ ShardOf[LevelOf[mirror[x].shard]][x] = mirror[x].shard
    BY DEF TypeOK, MirrorPlaced
  <2>2. CASE x = j.to /\ j.kind = "add"
    <3>1. m[x] = New(x, j.oid) /\ j.oid \in Oids
      BY <2>2, NoneAssumption DEF After, Asked
    <3> QED
      BY <3>1, <1>1
  <2>3. CASE x = j.to /\ j.kind = "mv"
    <3>1. m[x] = New(x, mirror[j.from].oid) /\ j.from \in Paths
      BY <2>3, NoneAssumption DEF After, Asked
    <3>2. mirror[j.from].oid \in Oids
      BY <3>1, NoneAssumption DEF TypeOK, Row
    <3> QED
      BY <3>1, <3>2, <1>1
  <2>4. CASE ~(x = j.to /\ j.kind \in {"add", "mv"})
    <3>1. m[x] = IF x = j.from THEN None ELSE mirror[x]
      BY <2>4 DEF After
    <3> QED
      BY <3>1, <2>1
  <2> QED
    BY <2>2, <2>3, <2>4
<1>3. m \in [Paths -> Row \cup {None}]
  <2>1. m = [x \in Paths |-> m[x]]
    BY DEF After
  <2> QED
    BY <2>1, <1>2
<1>4. \A x \in Paths : m[x] # None => m[x].oid \in Oids /\ m[x].shard \in Shards
  BY <1>3 DEF Row
<1> HIDE DEF m
<1>5. AfterRows(j) = [x \in Paths |-> IF m[x] = None THEN None ELSE m[x].oid]
  BY DEF AfterRows, m
<1>6. AfterRows(j) \in Rows
  BY <1>4, <1>5 DEF Rows
<1>7. \A s \in Shards : ShardRows(j, s) \in Rows /\ Fits(ShardRows(j, s), s)
  BY <1>2, <1>4 DEF ShardRows, Rows, Fits, m
<1>8. Mirrored(j) \in [Paths -> Row \cup {None}]
      /\ \A x \in Paths : Mirrored(j)[x] # None =>
              ShardOf[LevelOf[Mirrored(j)[x].shard]][x] = Mirrored(j)[x].shard
  <2>1. CASE j.inc
    BY <2>1, <1>2, <1>3 DEF Mirrored, m
  <2>2. CASE ~j.inc
    <3>1. \A x \in Paths : AfterRows(j)[x] \in Oids \cup {None}
      BY <1>6 DEF Rows
    <3>2. Mirrored(j) = [x \in Paths |-> IF AfterRows(j)[x] = None THEN None ELSE New(x, AfterRows(j)[x])]
      BY <2>2 DEF Mirrored
    <3> HIDE DEF New
    <3> QED
      BY <3>1, <3>2, <1>1
  <2> QED
    BY <2>1, <2>2
<1> QED
  BY <1>3, <1>6, <1>7, <1>8 DEF m

\* The scope of a publication consists of shards.
LEMMA ScopeTyped ==
  ASSUME TypeOK, NEW j \in JobType PROVE Scope(j) \subseteq Shards
<1>1. \A x \in Paths : mirror[x] # None => mirror[x].shard \in Shards
  BY DEF TypeOK, Row
<1>2. \A x \in Paths : ShardOf[target][x] \in Shards
  BY FlatShard DEF TypeOK
<1>3. TouchedBy(j) \subseteq Shards
  BY <1>1, <1>2 DEF TouchedBy
<1> QED
  BY <1>3 DEF Scope

\* What a publication is about depends on the request alone.
SameRequest(i, j) ==
  /\ i.kind = j.kind /\ i.from = j.from /\ i.to = j.to /\ i.oid = j.oid
  /\ i.reused = j.reused /\ i.inc = j.inc

\* The same request has the same scope and the same outcome.
LEMMA SameScope ==
  ASSUME NEW i, NEW j, SameRequest(i, j)
  PROVE  /\ Scope(i) = Scope(j)
         /\ After(i) = After(j)
         /\ AfterRows(i) = AfterRows(j)
         /\ Mirrored(i) = Mirrored(j)
         /\ \A s \in Shards : ShardRows(i, s) = ShardRows(j, s)
<1>1. TouchedBy(i) = TouchedBy(j)
  BY DEF TouchedBy, SameRequest
<1>2. Scope(i) = Scope(j)
  BY <1>1 DEF Scope, SameRequest
<1>3. After(i) = After(j)
  BY DEF After, SameRequest
<1>4. AfterRows(i) = AfterRows(j) /\ \A s \in Shards : ShardRows(i, s) = ShardRows(j, s)
  BY <1>3 DEF AfterRows, ShardRows
<1>5. Mirrored(i) = Mirrored(j)
  BY <1>3, <1>4 DEF Mirrored, SameRequest
<1> QED
  BY <1>2, <1>3, <1>4, <1>5

\* ... and on the mirror and the configuration.
LEMMA ScopeStays ==
  ASSUME NEW p \in Procs, NEW j, job'[p] = j, mirror' = mirror, target' = target
  PROVE  /\ Scope(job[p])' = Scope(j)
         /\ After(job[p])' = After(j)
         /\ Mirrored(job[p])' = Mirrored(j)
<1>1. TouchedBy(job[p])' = TouchedBy(j)
  BY DEF TouchedBy
<1>2. Scope(job[p])' = Scope(j)
  BY <1>1 DEF Scope
<1>3. After(job[p])' = After(j)
  BY DEF After
<1>4. AfterRows(job[p])' = AfterRows(j)
  BY <1>3 DEF AfterRows
<1>5. Mirrored(job[p])' = Mirrored(j)
  BY <1>3, <1>4 DEF Mirrored
<1> QED
  BY <1>2, <1>3, <1>5

-----------------------------------------------------------------------------
(* What a step leaves alone. *)

\* Where the lock is held.
Locked == {"refresh", "recheck", "ready", "publish", "reconcile"}

SameRecord(c, d) ==
  \A s \in Shards : (c[s] = None <=> d[s] = None) /\ (d[s] # None => c[s].rows = d[s].rows)

\* A process that somebody else steps past: it loses proofs, and it is quiet
\* only if gat.lock and the mirror stay as they are while it has the lock.
Undisturbed(q) ==
  /\ pc'[q] = pc[q]
  /\ SameRequest(job'[q], job[q])
  /\ job'[q].todo = job[q].todo /\ job'[q].touched = job[q].touched
  /\ SameRecord(job'[q].seen, job[q].seen)
  /\ SameRecord(job'[q].now, job[q].now)
  /\ job'[q].quiet /\ owner = q => job[q].quiet /\ files' = files
  /\ owner = q => mirror' = mirror
  /\ target' = target

\* A step of p that touches its own local state and no file.
Locally(p) ==
  /\ UNCHANGED <<files, mirror, catalog, moves, target>>
  /\ \E l, j : Goto(p, l, j)

\* A step of p, which has the lock, that ends a transaction of the database.
Committing(p) ==
  /\ owner = p
  /\ UNCHANGED <<files, moves, target>>
  /\ \E l, j : Goto(p, l, j)

\* A step of p, which has the lock, that rewrites shard files in S.
Rewriting(p, S) ==
  /\ owner = p
  /\ UNCHANGED <<mirror, owner, pc, moves, target>>
  /\ \E j : Rewrite(p, S, j)

\* A step that writes no shard file leaves the other processes alone.
LEMMA OthersLocal ==
  ASSUME TypeOK, NEW p \in Procs, Locally(p) \/ Committing(p), NEW q \in Procs \ {p}
  PROVE  pc'[q] = pc[q] /\ job'[q] = job[q] /\ Undisturbed(q)
<1>1. pc'[q] = pc[q] /\ job'[q] = job[q]
  BY DEF TypeOK, Locally, Committing, Goto
<1>2. files' = files /\ target' = target /\ (owner = q => mirror' = mirror)
  BY DEF Locally, Committing
<1> QED
  BY <1>1, <1>2 DEF Undisturbed, SameRequest, SameRecord

\* A rewritten shard costs the others their proofs of it, and nothing else.
LEMMA OthersRewriting ==
  ASSUME TypeOK, NEW p \in Procs, NEW S, Rewriting(p, S), NEW q \in Procs \ {p}
  PROVE  /\ job'[q] = [job[q] EXCEPT !.seen = Unproven(@, S), !.now = Unproven(@, S)]
         /\ Undisturbed(q)
<1>1. job'[q] = [job[q] EXCEPT !.seen = Unproven(@, S), !.now = Unproven(@, S)]
  BY DEF Rewriting, Rewrite
<1>2. job[q] \in JobType /\ job[q].seen \in Records /\ job[q].now \in Records
  BY DEF TypeOK, JobType, Records
<1>3. /\ SameRequest(job'[q], job[q])
      /\ job'[q].todo = job[q].todo /\ job'[q].touched = job[q].touched
      /\ job'[q].quiet = job[q].quiet
      /\ job'[q].seen = Unproven(job[q].seen, S) /\ job'[q].now = Unproven(job[q].now, S)
  BY <1>1, <1>2 DEF JobType, SameRequest
<1>4. SameRecord(job'[q].seen, job[q].seen) /\ SameRecord(job'[q].now, job[q].now)
  BY <1>2, <1>3, ProofsLost DEF SameRecord
<1> QED
  BY <1>1, <1>3, <1>4 DEF Undisturbed, Rewriting

\* So does git, and it is noticed.
LEMMA OthersGit ==
  ASSUME TypeOK, NEW new, GitWrites(new), NEW q \in Procs
  PROVE  LET S == {s \in Shards : new[s] # files[s]}
         IN  /\ job'[q].seen = Unproven(job[q].seen, S)
             /\ job'[q].now = Unproven(job[q].now, S)
             /\ job'[q] = [job[q] EXCEPT !.quiet = FALSE, !.seen = Unproven(@, S), !.now = Unproven(@, S)]
             /\ Undisturbed(q)
<1> DEFINE S == {s \in Shards : new[s] # files[s]}
<1>1. job'[q] = [job[q] EXCEPT !.quiet = FALSE, !.seen = Unproven(@, S), !.now = Unproven(@, S)]
  BY DEF GitWrites
<1> HIDE DEF S
<1>2. job[q] \in JobType /\ job[q].seen \in Records /\ job[q].now \in Records
  BY DEF TypeOK, JobType, Records
<1>3. /\ SameRequest(job'[q], job[q])
      /\ job'[q].todo = job[q].todo /\ job'[q].touched = job[q].touched
      /\ ~job'[q].quiet
      /\ job'[q].seen = Unproven(job[q].seen, S) /\ job'[q].now = Unproven(job[q].now, S)
  BY <1>1, <1>2 DEF JobType, SameRequest
<1>4. SameRecord(job'[q].seen, job[q].seen) /\ SameRecord(job'[q].now, job[q].now)
  BY <1>2, <1>3, ProofsLost DEF SameRecord
<1> QED
  BY <1>1, <1>3, <1>4 DEF Undisturbed, GitWrites, S

\* The first invariant of a process that is left alone.
LEMMA OnwardStays ==
  ASSUME TypeOK, NEW q \in Procs, Onward(q), Undisturbed(q),
         Sound(job'[q].seen, files'), Sound(job'[q].now, files')
  PROVE  Onward(q)'
<1>1. job'[q].kind \in KindAt(pc'[q])
  BY DEF Onward, Undisturbed, SameRequest
<1>2. Asked(job[q])'
  BY DEF Onward, Undisturbed, SameRequest, Asked
<1>3. ASSUME pc'[q] = "publish" PROVE Underway(job[q])'
  <2>1. Underway(job[q]) /\ owner = q
    BY <1>3 DEF Onward, Undisturbed, TypeOK
  <2>2. mirror' = mirror /\ target' = target
    BY <2>1 DEF Undisturbed
  <2>3. Scope(job[q])' = Scope(job'[q])
    BY <2>2, ScopeStays
  <2>4. Scope(job'[q]) = Scope(job[q])
    BY SameScope DEF Undisturbed
  <2>5. \A s \in Shards : job[q].now[s] = None <=> job'[q].now[s] = None
    BY DEF Undisturbed, SameRecord
  <2> QED
    BY <2>1, <2>2, <2>3, <2>4, <2>5 DEF Underway, Undisturbed, SameRequest
<1> QED
  BY <1>1, <1>2, <1>3 DEF Onward

\* What becomes of the process that steps.
Carries(p, l, j) ==
  /\ pc' = [pc EXCEPT ![p] = l]
  /\ job' = [job EXCEPT ![p] = j]
  /\ l \in PCs
  /\ j \in JobType
  /\ \/ l \in Locked /\ owner' = p /\ owner \in {None, p}
     \/ l \notin Locked /\ owner' = IF owner = p THEN None ELSE owner
  /\ Sound(j.seen, files) /\ Sound(j.now, files)
  /\ j.kind \in KindAt(l)
  /\ Asked(j)
  /\ l = "publish" => Underway(j) /\ mirror' = mirror

\* A process that moves on with a sound record leaves the first invariant
\* intact.
LEMMA Steps ==
  ASSUME Base, NEW p \in Procs, NEW l, NEW j, Carries(p, l, j),
         UNCHANGED <<files, moves, target>>
  PROVE  /\ pc'[p] = l /\ job'[p] = j
         /\ pc' \in [Procs -> PCs] /\ job' \in [Procs -> JobType]
         /\ owner' \in Procs \cup {None}
         /\ \A q \in Procs : pc'[q] \in Locked <=> owner' = q
         /\ Onward(p)'
<1>1. pc'[p] = l /\ job'[p] = j
      /\ pc' \in [Procs -> PCs] /\ job' \in [Procs -> JobType]
      /\ owner' \in Procs \cup {None}
  BY DEF Base, TypeOK, Carries
<1>2. ASSUME NEW q \in Procs PROVE pc'[q] \in Locked <=> owner' = q
  <2>1. pc[q] \in Locked <=> owner = q
    BY DEF Base, TypeOK, Locked
  <2>2. CASE q = p
    BY <2>2, <1>1, NoneAssumption DEF Carries
  <2>3. CASE q # p
    <3>1. pc'[q] = pc[q]
      BY <2>3 DEF Carries, Base, TypeOK
    <3> QED
      BY <3>1, <2>1, <2>3, NoneAssumption DEF Carries
  <2> QED
    BY <2>2, <2>3
<1>3. Sound(job'[p].seen, files') /\ Sound(job'[p].now, files')
  BY <1>1 DEF Carries
<1>4. job'[p].kind \in KindAt(pc'[p]) /\ Asked(job[p])'
  BY <1>1 DEF Carries, Asked
<1>5. ASSUME pc'[p] = "publish" PROVE Underway(job[p])'
  <2>1. Underway(j) /\ mirror' = mirror /\ target' = target
    BY <1>5, <1>1 DEF Carries
  <2>2. Scope(job[p])' = Scope(j)
    BY <2>1, <1>1, ScopeStays
  <2> QED
    BY <2>1, <2>2, <1>1 DEF Underway
<1>6. Onward(p)'
  BY <1>3, <1>4, <1>5 DEF Onward
<1> QED
  BY <1>1, <1>2, <1>6

\* The first invariant and a step that writes no file and no database.
LEMMA LocalBase ==
  ASSUME Base, NEW p \in Procs, NEW l, NEW j, Carries(p, l, j),
         UNCHANGED <<files, mirror, catalog, moves, target>>
  PROVE  Base' /\ Locally(p)
<1>1. Locally(p)
  BY DEF Locally, Carries, Goto
<1>2. TypeOK'
  BY Steps DEF Base, TypeOK, Locked
<1>3. FilesPlaced' /\ MirrorPlaced' /\ Sound(catalog', files')
  BY DEF Base, FilesPlaced, MirrorPlaced
<1>4. ASSUME NEW q \in Procs PROVE Onward(q)'
  <2>1. CASE q = p
    BY <2>1, Steps
  <2>2. CASE q # p
    <3>1. job'[q] = job[q] /\ Undisturbed(q)
      BY <2>2, <1>1, OthersLocal DEF Base
    <3>2. Sound(job'[q].seen, files') /\ Sound(job'[q].now, files')
      BY <3>1 DEF Base, Onward
    <3> QED
      BY <3>1, <3>2, OnwardStays DEF Base
  <2> QED
    BY <2>1, <2>2
<1> QED
  BY <1>1, <1>2, <1>3, <1>4 DEF Base

\* ... and a step that ends a transaction of the database.
LEMMA CommitBase ==
  ASSUME Base, NEW p \in Procs, owner = p, NEW l, NEW j, Carries(p, l, j),
         UNCHANGED <<files, moves, target>>,
         mirror' \in [Paths -> Row \cup {None}], MirrorPlaced', Sound(catalog', files)
  PROVE  Base' /\ Committing(p)
<1>1. Committing(p)
  BY DEF Committing, Carries, Goto
<1>2. catalog' \in [Shards -> Stored \cup {None}]
  BY DEF Sound, Records
<1>3. TypeOK'
  BY <1>2, Steps DEF Base, TypeOK, Locked
<1>4. FilesPlaced' /\ Sound(catalog', files')
  BY DEF Base, FilesPlaced
<1>5. ASSUME NEW q \in Procs PROVE Onward(q)'
  <2>1. CASE q = p
    BY <2>1, Steps
  <2>2. CASE q # p
    <3>1. job'[q] = job[q] /\ Undisturbed(q)
      BY <2>2, <1>1, OthersLocal DEF Base
    <3>2. Sound(job'[q].seen, files') /\ Sound(job'[q].now, files')
      BY <3>1 DEF Base, Onward
    <3> QED
      BY <3>1, <3>2, OnwardStays DEF Base
  <2> QED
    BY <2>1, <2>2
<1> QED
  BY <1>1, <1>3, <1>4, <1>5 DEF Base

\* ... and a step of a publication that writes shard files in S.
LEMMA RewriteBase ==
  ASSUME Base, NEW p \in Procs, pc[p] = "publish", NEW S, NEW j \in JobType, Rewrite(p, S, j),
         UNCHANGED <<mirror, owner, pc, moves, target>>,
         files' \in [Shards -> Rows \cup {None}], FilesPlaced',
         \A s \in Shards \ S : files'[s] = files[s],
         SameRequest(j, job[p]), j.touched = job[p].touched, j.todo \subseteq j.touched,
         j.seen = job[p].seen, Sound(j.now, files'),
         \A s \in Shards \ (j.touched \ j.todo) : j.now[s] = None
  PROVE  /\ Base' /\ Rewriting(p, S)
         /\ job'[p] = [j EXCEPT !.seen = Unproven(@, S)]
<1>1. owner = p /\ Rewriting(p, S)
  BY DEF Rewriting, Base, TypeOK
<1>2. job'[p] = [j EXCEPT !.seen = Unproven(@, S)]
  BY DEF Rewrite
<1>3. \A q \in Procs : Sound(job[q].seen, files) /\ Sound(job[q].now, files)
  BY DEF Base, Onward
<1>4. /\ SameRequest(job'[p], job[p]) /\ job'[p].seen = Unproven(job[p].seen, S)
      /\ job'[p].now = j.now /\ job'[p].todo = j.todo /\ job'[p].touched = job[p].touched
      /\ job'[p].quiet = j.quiet
  BY <1>2 DEF JobType, SameRequest
<1>5. Sound(job'[p].seen, files')
  BY <1>3, <1>4, StaysSound
<1>6. job'[p] \in JobType
  <2>1. job'[p].seen \in [Shards -> Stored \cup {None}]
    BY <1>5 DEF Sound, Records
  <2>2. [j EXCEPT !.seen = job'[p].seen] \in JobType
    BY <2>1 DEF JobType
  <2> QED
    BY <2>2, <1>2, <1>4 DEF JobType
<1>7. ASSUME NEW q \in Procs \ {p}
      PROVE  job'[q] \in JobType /\ Onward(q)'
  <2>1. job'[q] = [job[q] EXCEPT !.seen = Unproven(@, S), !.now = Unproven(@, S)]
        /\ Undisturbed(q)
    BY <1>1, OthersRewriting DEF Base
  <2>2. job[q] \in JobType
    BY DEF Base, TypeOK
  <2>3. job'[q].seen = Unproven(job[q].seen, S) /\ job'[q].now = Unproven(job[q].now, S)
    BY <2>1, <2>2 DEF JobType
  <2>4. Sound(job'[q].seen, files') /\ Sound(job'[q].now, files')
    BY <1>3, <2>3, StaysSound
  <2>5. job'[q].seen \in [Shards -> Stored \cup {None}] /\ job'[q].now \in [Shards -> Stored \cup {None}]
    BY <2>4 DEF Sound, Records
  <2>6. [job[q] EXCEPT !.seen = job'[q].seen, !.now = job'[q].now] \in JobType
    BY <2>2, <2>5 DEF JobType
  <2>7. job'[q] \in JobType
    BY <2>1, <2>2, <2>3, <2>6 DEF JobType
  <2>8. Onward(q)'
    BY <2>1, <2>4, OnwardStays DEF Base
  <2> QED
    BY <2>7, <2>8
<1>8. Onward(p)'
  <2>1. job'[p].kind \in KindAt(pc'[p]) /\ Asked(job[p])'
    BY <1>4 DEF Base, Onward, SameRequest, Asked
  <2>2. Underway(job[p])
    BY DEF Base, Onward
  <2>3. Scope(job[p])' = Scope(job'[p]) /\ Scope(job'[p]) = Scope(job[p])
    BY <1>4, ScopeStays, SameScope
  <2>4. Underway(job[p])'
    BY <1>4, <2>2, <2>3 DEF Underway, SameRequest
  <2> QED
    BY <1>4, <1>5, <2>1, <2>4 DEF Onward
<1>9. job' \in [Procs -> JobType]
  <2>1. \A q \in Procs : job'[q] \in JobType
    BY <1>6, <1>7
  <2> QED
    BY <2>1 DEF Rewrite
<1>10. Sound(catalog', files')
  <2>1. catalog' = Unproven(catalog, S)
    BY DEF Rewrite
  <2>2. Sound(catalog, files)
    BY DEF Base
  <2> QED
    BY <2>1, <2>2, StaysSound
<1>11. TypeOK'
  BY <1>9, <1>10 DEF Base, TypeOK, Sound, Records
<1>12. MirrorPlaced'
  BY DEF Base, MirrorPlaced
<1> QED
  BY <1>1, <1>2, <1>7, <1>8, <1>10, <1>11, <1>12 DEF Base

\* ... and git.
LEMMA GitBase ==
  ASSUME Base, NEW new \in [Shards -> Rows \cup {None}], GitWrites(new),
         \A s \in Shards : new[s] # None => Fits(new[s], s)
  PROVE  Base'
<1> DEFINE S == {s \in Shards : new[s] # files[s]}
<1>1. files' = new /\ (\A s \in Shards \ S : files'[s] = files[s])
      /\ catalog' = Unproven(catalog, S)
      /\ moves' = moves + 1 /\ moves < GitMoves
      /\ UNCHANGED <<mirror, owner, pc, target>>
  BY DEF GitWrites
<1>2. ASSUME NEW q \in Procs
      PROVE  job'[q] \in JobType /\ Onward(q)'
  <2>1. /\ job'[q].seen = Unproven(job[q].seen, S)
        /\ job'[q].now = Unproven(job[q].now, S)
        /\ job'[q] = [job[q] EXCEPT !.quiet = FALSE, !.seen = Unproven(@, S), !.now = Unproven(@, S)]
        /\ Undisturbed(q)
    BY OthersGit DEF Base
  <2> HIDE DEF S
  <2>2. job[q] \in JobType /\ Sound(job[q].seen, files) /\ Sound(job[q].now, files)
    BY DEF Base, TypeOK, Onward
  <2>3. Sound(job'[q].seen, files') /\ Sound(job'[q].now, files')
    BY <1>1, <2>1, <2>2, StaysSound
  <2>4. job'[q].seen \in [Shards -> Stored \cup {None}] /\ job'[q].now \in [Shards -> Stored \cup {None}]
    BY <2>3 DEF Sound, Records
  <2>5. [job[q] EXCEPT !.quiet = FALSE, !.seen = job'[q].seen, !.now = job'[q].now] \in JobType
    BY <2>2, <2>4 DEF JobType
  <2>6. job'[q] \in JobType
    BY <2>1, <2>2, <2>5 DEF JobType
  <2>7. Onward(q)'
    BY <2>1, <2>3, OnwardStays DEF Base
  <2> QED
    BY <2>6, <2>7
<1>3. job' \in [Procs -> JobType]
  BY <1>2 DEF GitWrites
<1>4. Sound(catalog', files')
  <2> HIDE DEF S
  <2> QED
    BY <1>1, StaysSound DEF Base
<1>5. moves' \in 0..GitMoves
  BY <1>1, MovesAssumption DEF Base, TypeOK
<1>6. TypeOK'
  BY <1>1, <1>3, <1>4, <1>5 DEF Base, TypeOK, Sound, Records
<1>7. FilesPlaced' /\ MirrorPlaced'
  BY <1>1 DEF Base, FilesPlaced, MirrorPlaced
<1> QED
  BY <1>2, <1>4, <1>6, <1>7 DEF Base

-----------------------------------------------------------------------------
(* The second invariant: mirror, record and gat.lock agree.                *)

\* What a recorded shard, or a shard file, contributes.
RowsIn(e) == IF e = None THEN NoRows ELSE e.rows
FileRows(r) == IF r = None THEN NoRows ELSE r

\* The rows of the table m that shard s owns.
SliceOf(m, s) ==
  [x \in Paths |-> IF m[x] # None /\ m[x].shard = s THEN m[x].oid ELSE None]

Flat(c) == \A s \in Shards : LevelOf[s] # 0 => c[s] = None

\* Where the flat file is configured nobody has seen a shard tree.
OnlyFlat ==
  target = 0 => Flat(files) /\ Flat(catalog) /\ \A p \in Procs : Flat(job[p].now)

\* refresh_desired_state_inner relies on it; see MirrorMatchesCatalog.
Matched == \A s \in Shards : SliceOf(mirror, s) = RowsIn(catalog[s])

\* An observation meets the shards of one depth only ...
Uniform(p) ==
  pc[p] \in {"capture", "refresh", "recheck"} =>
    OneLevel(job[p].todo \cup Present(job[p].now))

\* ... and, if git keeps out, finds what gat.lock holds.
Exact(p) ==
  pc[p] = "refresh" /\ job[p].quiet =>
    /\ job[p].todo \cup Present(job[p].now) = Present(files)
    /\ \A s \in Present(job[p].now) : job[p].now[s].rows = files[s]

\* The evidence of the shards done is what the mirror will hold of them.
Evidence(j) ==
  /\ ~j.inc /\ j.todo # {} => j.todo = Shards
  /\ \A s \in j.touched \ j.todo : RowsIn(j.now[s]) = SliceOf(Mirrored(j), s)

Evident(p) == pc[p] = "publish" => Evidence(job[p])

\* A reconciliation has in the mirror what it saw before it had the lock.
Admitted(p) ==
  pc[p] = "reconcile" =>
    \A s \in Shards : SliceOf(mirror, s) = RowsIn(job[p].seen[s])

\* A command that refreshed has in the mirror what gat.lock holds ...
Fresh(p) ==
  /\ pc[p] \in {"ready", "reconcile"}
  /\ job[p].kind # "add"
  /\ job[p].quiet
  => \A s \in Shards : FileRows(files[s]) = SliceOf(mirror, s)

\* ... and gat.lock is ahead of it by the shards published since.
AheadBy(j) ==
  \A s \in Shards :
    FileRows(files[s]) = SliceOf(IF s \in j.touched \ j.todo THEN Mirrored(j) ELSE mirror, s)

Ahead(p) == pc[p] = "publish" /\ job[p].kind # "add" /\ job[p].quiet => AheadBy(job[p])

Agrees(p) == Uniform(p) /\ Exact(p) /\ Evident(p) /\ Admitted(p) /\ Fresh(p) /\ Ahead(p)

Agreement == OnlyFlat /\ Matched /\ \A p \in Procs : Agrees(p)

\* The same record has the same rows.
LEMMA SameRowsIn ==
  ASSUME NEW c, NEW d, SameRecord(c, d)
  PROVE  /\ Present(c) = Present(d)
         /\ \A s \in Shards : RowsIn(c[s]) = RowsIn(d[s])
         /\ Flat(d) => Flat(c)
BY DEF SameRecord, Present, RowsIn, Flat

\* The second invariant of a process that is left alone.
LEMMA AgreesStays ==
  ASSUME TypeOK, NEW q \in Procs, Agrees(q), Undisturbed(q)
  PROVE  Agrees(q)'
<1>1. /\ pc'[q] = pc[q] /\ job'[q].kind = job[q].kind /\ job'[q].inc = job[q].inc
      /\ job'[q].todo = job[q].todo /\ job'[q].touched = job[q].touched
      /\ Present(job'[q].now) = Present(job[q].now)
      /\ \A s \in Shards : RowsIn(job'[q].now[s]) = RowsIn(job[q].now[s])
      /\ \A s \in Shards : RowsIn(job'[q].seen[s]) = RowsIn(job[q].seen[s])
  BY SameRowsIn DEF Undisturbed, SameRequest
<1>2. \A s \in Shards : (job'[q].now[s] = None <=> job[q].now[s] = None)
                        /\ (job[q].now[s] # None => job'[q].now[s].rows = job[q].now[s].rows)
  BY DEF Undisturbed, SameRecord
<1>3. Uniform(q)'
  BY <1>1 DEF Agrees, Uniform, OneLevel
<1>4. CASE owner # q
  <2>1. pc'[q] \notin {"refresh", "recheck", "ready", "publish", "reconcile"}
    BY <1>1, <1>4 DEF TypeOK
  <2> QED
    BY <2>1, <1>3 DEF Agrees, Exact, Evident, Admitted, Fresh, Ahead
<1>5. CASE owner = q
  <2>1. mirror' = mirror /\ target' = target /\ (job'[q].quiet => job[q].quiet /\ files' = files)
    BY <1>5 DEF Undisturbed
  <2>2. Mirrored(job[q])' = Mirrored(job[q])
    <3>1. Mirrored(job[q])' = Mirrored(job'[q])
      BY <2>1, ScopeStays
    <3> QED
      BY <3>1, SameScope DEF Undisturbed
  <2>3. Exact(q)'
    BY <1>1, <1>2, <2>1 DEF Agrees, Exact, Present
  <2>4. Evident(q)'
    <3>1. SUFFICES ASSUME pc[q] = "publish" PROVE Evidence(job[q])'
      BY <1>1 DEF Evident
    <3>2. Evidence(job[q])
      BY <3>1 DEF Agrees, Evident
    <3>3. job[q].todo \subseteq Shards /\ job[q].touched \subseteq Shards
      BY DEF TypeOK, JobType
    <3>4. \A s \in job'[q].touched \ job'[q].todo :
            RowsIn(job'[q].now[s]) = SliceOf(Mirrored(job[q]), s)
      BY <3>2, <3>3, <1>1 DEF Evidence
    <3> QED
      BY <3>2, <3>4, <1>1, <2>2 DEF Evidence
  <2>5. Admitted(q)'
    BY <1>1, <2>1 DEF Agrees, Admitted
  <2>6. Fresh(q)'
    BY <1>1, <2>1 DEF Agrees, Fresh
  <2>7. Ahead(q)'
    BY <1>1, <2>1, <2>2 DEF Agrees, Ahead, AheadBy
  <2> QED
    BY <1>3, <2>3, <2>4, <2>5, <2>6, <2>7 DEF Agrees
<1> QED
  BY <1>4, <1>5

-----------------------------------------------------------------------------
(* What reading, refreshing and laying out make of rows. *)

\* Shard files that hold the slices of a table merge into its rows.
LEMMA MergedAt ==
  ASSUME NEW c \in [Shards -> Rows \cup {None}], NEW m \in [Paths -> Row \cup {None}],
         NEW x \in Paths, \A s \in Shards : FileRows(c[s])[x] = SliceOf(m, s)[x]
  PROVE  Merged(c)[x] = IF m[x] = None THEN None ELSE m[x].oid
<1> DEFINE Has(s) == s \in Shards /\ c[s] # None /\ c[s][x] # None
<1>1. \A s \in Shards : FileRows(c[s])[x] = IF c[s] = None THEN None ELSE c[s][x]
  BY DEF FileRows, NoRows
<1>2. \A s \in Shards : SliceOf(m, s)[x] = IF m[x] # None /\ m[x].shard = s THEN m[x].oid ELSE None
  BY DEF SliceOf
<1>3. m[x] # None => m[x].shard \in Shards /\ m[x].oid # None
  BY NoneAssumption DEF Row
<1>4. \A s \in Shards : Has(s) <=> m[x] # None /\ m[x].shard = s
  BY <1>1, <1>2, <1>3
<1>5. Merged(c)[x] = IF \E s \in Shards : c[s] # None /\ c[s][x] # None
                     THEN c[CHOOSE s \in Shards : c[s] # None /\ c[s][x] # None][x]
                     ELSE None
  BY DEF Merged
<1>6. CASE m[x] = None
  BY <1>4, <1>5, <1>6
<1>7. CASE m[x] # None
  <2>1. Has(m[x].shard)
    BY <1>3, <1>4, <1>7
  <2>2. PICK u : u = CHOOSE s \in Shards : c[s] # None /\ c[s][x] # None
    OBVIOUS
  <2>3. Has(u)
    BY <2>1, <2>2
  <2>4. u = m[x].shard
    BY <2>3, <1>4
  <2>5. c[u][x] = m[x].oid
    BY <2>3, <2>4, <1>1, <1>2, <1>7
  <2> QED
    BY <2>1, <2>2, <2>5, <1>5, <1>7
<1> QED
  BY <1>6, <1>7

\* A lock whose shards hold the slices of the mirror merges to its rows.
LEMMA SlicesMerge ==
  ASSUME NEW c \in [Shards -> Rows \cup {None}], TypeOK,
         \A s \in Shards : FileRows(c[s]) = SliceOf(mirror, s)
  PROVE  MirrorRows = Merged(c)
<1>1. mirror \in [Paths -> Row \cup {None}]
  BY DEF TypeOK
<1>2. \A x \in Paths : Merged(c)[x] = IF mirror[x] = None THEN None ELSE mirror[x].oid
  BY <1>1, MergedAt
<1>3. Merged(c) = [x \in Paths |-> Merged(c)[x]]
  BY DEF Merged
<1> QED
  BY <1>2, <1>3 DEF MirrorRows

\* What a complete publication leaves on disk is what its receipt says.
LEMMA LayoutSlices ==
  ASSUME NEW r \in Rows, NEW d \in Levels, NEW s \in Shards
  PROVE  FileRows(Layout(r, d)[s])
           = SliceOf([x \in Paths |-> IF r[x] = None THEN None
                                      ELSE [oid |-> r[x], shard |-> ShardOf[d][x]]], s)
<1> DEFINE m == [x \in Paths |-> IF r[x] = None THEN None
                                 ELSE [oid |-> r[x], shard |-> ShardOf[d][x]]]
<1>1. \A x \in Paths : r[x] # None => [oid |-> r[x], shard |-> ShardOf[d][x]] \in Row
  BY FlatShard DEF Rows, Row
<1>2. SliceOf(m, s) = [x \in Paths |-> IF r[x] # None /\ ShardOf[d][x] = s THEN r[x] ELSE None]
  BY <1>1, NoValueAssumption DEF SliceOf
<1> HIDE DEF m
<1>3. CASE LevelOf[s] = d
  <2>1. SliceOf(m, s) = Slice(r, s)
    BY <1>2, <1>3 DEF Slice, Rows
  <2>2. FileRows(Layout(r, d)[s]) = Slice(r, s)
    <3>1. Slice(r, s) # None
      BY NoValueAssumption DEF Slice, Rows
    <3>2. Layout(r, d)[s] = IF d = 0 \/ Slice(r, s) # NoRows THEN Slice(r, s) ELSE None
      BY <1>3 DEF Layout
    <3> QED
      BY <3>1, <3>2 DEF FileRows
  <2> QED
    BY <2>1, <2>2 DEF m
<1>4. CASE LevelOf[s] # d
  <2>1. \A x \in Paths : ShardOf[d][x] # s
    BY <1>4, FlatShard
  <2>2. SliceOf(m, s) = NoRows
    BY <1>2, <2>1 DEF NoRows
  <2>3. Layout(r, d)[s] = None
    BY <1>4 DEF Layout
  <2> QED
    BY <2>2, <2>3 DEF FileRows, m
<1> QED
  BY <1>3, <1>4

\* A refresh gives every path a row of the mirror, or one it found.
LEMMA RefreshedTyped ==
  ASSUME TypeOK, MirrorPlaced, NEW now, NEW f, Sound(now, f)
  PROVE  /\ Refreshed(now) \in [Paths -> Row \cup {None}]
         /\ \A x \in Paths : Refreshed(now)[x] # None =>
              ShardOf[LevelOf[Refreshed(now)[x].shard]][x] = Refreshed(now)[x].shard
<1> DEFINE m == Refreshed(now)
           Found(x) == CHOOSE u \in Changed(now) : now[u].rows[x] # None
           Fine(x) == m[x] = None \/ (/\ m[x] \in Row
                                      /\ ShardOf[LevelOf[m[x].shard]][x] = m[x].shard)
<1>1. ASSUME NEW x \in Paths PROVE Fine(x)
  <2>1. CASE \E u \in Changed(now) : now[u].rows[x] # None
    <3>1. PICK u : u = Found(x)
      OBVIOUS
    <3>2. u \in Changed(now) /\ now[u].rows[x] # None
      BY <2>1, <3>1
    <3>3. u \in Shards /\ now[u] \in Stored /\ Fits(now[u].rows, u)
      BY <3>2 DEF Changed, Sound, Records
    <3>4. now[u].rows[x] \in Oids /\ ShardOf[LevelOf[u]][x] = u
      BY <3>2, <3>3 DEF Stored, Rows, Fits
    <3>5. m[x] = [oid |-> now[u].rows[x], shard |-> u]
      BY <2>1, <3>1 DEF Refreshed, RefreshedFrom
    <3> QED
      BY <3>3, <3>4, <3>5 DEF Row
  <2>2. CASE ~ \E u \in Changed(now) : now[u].rows[x] # None
    <3>1. m[x] \in {None, mirror[x]}
      BY <2>2 DEF Refreshed, RefreshedFrom
    <3> QED
      BY <3>1 DEF TypeOK, MirrorPlaced
  <2> QED
    BY <2>1, <2>2
<1>2. m = [x \in Paths |-> m[x]]
  BY DEF Refreshed, RefreshedFrom
<1> HIDE DEF m
<1>3. m \in [Paths -> Row \cup {None}]
  BY <1>1, <1>2
<1> QED
  BY <1>1, <1>3 DEF m

\* apply_shard_refresh_tx keeps the mirror in step with the record it writes,
\* although it never looks at the rows of a shard whose identity is the same.
LEMMA RefreshedMatches ==
  ASSUME TypeOK, Matched, NEW now, NEW f, Sound(now, f), OneLevel(Present(now)),
         NEW s \in Shards
  PROVE  SliceOf(Refreshed(now), s) = RowsIn(now[s])
<1> DEFINE m == Refreshed(now)
           Found(x) == CHOOSE u \in Changed(now) : now[u].rows[x] # None
<1>1. ASSUME NEW x \in Paths PROVE SliceOf(m, s)[x] = RowsIn(now[s])[x]
  <2>1. /\ SliceOf(m, s)[x] = IF m[x] # None /\ m[x].shard = s THEN m[x].oid ELSE None
        /\ RowsIn(now[s])[x] = IF now[s] = None THEN None ELSE now[s].rows[x]
    BY DEF SliceOf, RowsIn, NoRows
  <2>2. /\ RowsIn(catalog[s])[x] = IF catalog[s] = None THEN None ELSE catalog[s].rows[x]
        /\ RowsIn(catalog[s])[x]
             = IF mirror[x] # None /\ mirror[x].shard = s THEN mirror[x].oid ELSE None
    <3>1. RowsIn(catalog[s])[x] = IF catalog[s] = None THEN None ELSE catalog[s].rows[x]
      BY DEF RowsIn, NoRows
    <3>2. SliceOf(mirror, s)[x]
             = IF mirror[x] # None /\ mirror[x].shard = s THEN mirror[x].oid ELSE None
      BY DEF SliceOf
    <3>3. SliceOf(mirror, s) = RowsIn(catalog[s])
      BY DEF Matched
    <3> QED
      BY <3>1, <3>2, <3>3
  <2>3. mirror[x] # None => mirror[x].oid # None
    BY NoneAssumption DEF TypeOK, Row
  <2>4. CASE \E u \in Changed(now) : now[u].rows[x] # None
    <3>1. PICK u : u = Found(x)
      OBVIOUS
    <3>2. u \in Changed(now) /\ now[u].rows[x] # None
      BY <2>4, <3>1
    <3>3. u \in Shards /\ u \in Present(now) /\ Fits(now[u].rows, u) /\ now[u] \in Stored
      BY <3>2 DEF Changed, Sound, Present, Records
    <3>4. m[x] = [oid |-> now[u].rows[x], shard |-> u]
      BY <2>4, <3>1 DEF Refreshed, RefreshedFrom
    <3>5. m[x] # None
      BY <3>2, <3>3, <3>4, NoValueAssumption DEF Stored, Rows, Row
    <3>6. CASE s = u
      BY <2>1, <3>3, <3>4, <3>5, <3>6 DEF Present
    <3>7. CASE s # u
      <4>1. now[s] # None => now[s].rows[x] = None
        <5> HAVE now[s] # None
        <5>1. LevelOf[s] = LevelOf[u]
          BY <3>3 DEF OneLevel, Present
        <5>2. Fits(now[s].rows, s)
          BY DEF Sound
        <5> QED
          BY <5>1, <5>2, <3>2, <3>3, <3>7 DEF Fits
      <4> QED
        BY <2>1, <3>4, <3>7, <4>1
    <3> QED
      BY <3>6, <3>7
  <2>5. CASE ~ \E u \in Changed(now) : now[u].rows[x] # None
    <3>1. m[x] = IF mirror[x] # None /\ mirror[x].shard \in Removed(now) \cup Changed(now)
                 THEN None ELSE mirror[x]
      BY <2>5 DEF Refreshed, RefreshedFrom
    <3>2. CASE s \in Changed(now)
      BY <2>1, <2>5, <3>1, <3>2
    <3>3. CASE s \in Removed(now)
      BY <2>1, <3>1, <3>3 DEF Removed
    <3>4. CASE s \notin Changed(now) \cup Removed(now)
      <4>1. /\ now[s] = None <=> catalog[s] = None
            /\ now[s] # None => now[s].rows = catalog[s].rows
        BY <3>4 DEF Changed, Removed
      <4> QED
        BY <2>1, <2>2, <2>3, <3>1, <3>4, <4>1
    <3> QED
      BY <3>2, <3>3, <3>4
  <2> QED
    BY <2>4, <2>5
<1>2. SliceOf(m, s) = [x \in Paths |-> SliceOf(m, s)[x]]
  BY DEF SliceOf
<1>3. RowsIn(now[s]) = [x \in Paths |-> RowsIn(now[s])[x]]
  BY DEF RowsIn, NoRows, Sound, Records, Stored, Rows
<1> QED
  BY <1>1, <1>2, <1>3

\* Where only the flat file is known, all rows of the mirror are its.
LEMMA MirrorFlat ==
  ASSUME TypeOK, Matched, OnlyFlat, target = 0, NEW x \in Paths, mirror[x] # None
  PROVE  LevelOf[mirror[x].shard] = 0
<1> DEFINE s == mirror[x].shard
<1>1. s \in Shards /\ mirror[x].oid # None
  BY NoneAssumption DEF TypeOK, Row
<1>2. SliceOf(mirror, s)[x] = mirror[x].oid
  BY <1>1 DEF SliceOf
<1>3. RowsIn(catalog[s])[x] # None
  BY <1>1, <1>2 DEF Matched
<1>4. catalog[s] # None
  BY <1>3 DEF RowsIn, NoRows
<1> QED
  BY <1>1, <1>4 DEF OnlyFlat, Flat

\* A mutation changes the rows of the paths it names only ...
LEMMA AfterOthers ==
  ASSUME NEW j, NEW x \in Paths, x # j.from, x # j.to
  PROVE  After(j)[x] = mirror[x]
BY DEF After

\* ... and they are in shards it touches, before and after.
LEMMA AfterTouched ==
  ASSUME TypeOK, NEW j \in JobType, Asked(j), j.kind \in {"add", "rm", "mv"},
         TouchedBy(j) # {}, NEW x \in Paths, x = j.from \/ x = j.to
  PROVE  /\ mirror[x] # None => mirror[x].shard \in TouchedBy(j)
         /\ After(j)[x] # None => After(j)[x].shard \in TouchedBy(j)
                                  /\ After(j)[x].shard = ShardOf[target][x]
<1>1. TouchedBy(j) = {mirror[y].shard : y \in {z \in {j.from, j.to} \cap Paths : mirror[z] # None}}
                     \cup {ShardOf[target][y] : y \in {j.to} \cap Paths}
  BY DEF TouchedBy
<1>2. mirror[x] # None => mirror[x].shard \in TouchedBy(j)
  BY <1>1
<1>3. CASE x = j.to
  <2>1. j.kind \in {"add", "mv"}
    BY <1>3, NoneAssumption DEF Asked
  <2>2. ShardOf[target][x] \in TouchedBy(j)
    BY <1>1, <1>3
  <2>3. After(j)[x].shard = ShardOf[target][x]
    <3>1. x # j.from
      BY <1>3, <2>1, NoneAssumption DEF Asked
    <3>2. CASE j.kind = "add"
      BY <1>3, <3>1, <3>2 DEF After
    <3>3. CASE j.kind = "mv"
      BY <1>3, <3>1, <3>3 DEF After
    <3> QED
      BY <2>1, <3>2, <3>3
  <2> QED
    BY <1>2, <2>2, <2>3
<1>4. CASE x # j.to
  <2>1. x = j.from
    BY <1>4
  <2>2. After(j)[x] = None
    BY <1>4, <2>1 DEF After
  <2> QED
    BY <1>2, <2>2
<1> QED
  BY <1>3, <1>4

\* The shards a mutation does not touch keep their rows.
LEMMA Untouched ==
  ASSUME TypeOK, NEW j \in JobType, Asked(j), j.kind \in {"add", "rm", "mv"},
         TouchedBy(j) # {}, NEW s \in Shards \ TouchedBy(j)
  PROVE  SliceOf(After(j), s) = SliceOf(mirror, s)
<1>1. ASSUME NEW x \in Paths
      PROVE  (After(j)[x] # None /\ After(j)[x].shard = s) <=> (mirror[x] # None /\ mirror[x].shard = s)
  BY AfterOthers, AfterTouched
<1>2. ASSUME NEW x \in Paths, mirror[x] # None, mirror[x].shard = s PROVE After(j)[x] = mirror[x]
  BY <1>2, AfterOthers, AfterTouched
<1> QED
  BY <1>1, <1>2 DEF SliceOf

\* In a repository of flat files a mutation makes the one flat file.
LEMMA FlatAfter ==
  ASSUME TypeOK, Matched, OnlyFlat, target = 0,
         NEW j \in JobType, Asked(j), j.kind \in {"add", "rm", "mv"}, TouchedBy(j) # {},
         AfterRows(j) \in Rows, NEW s \in Shards
  PROVE  SliceOf(After(j), s) = IF LevelOf[s] = 0 THEN AfterRows(j) ELSE NoRows
<1>1. ASSUME NEW x \in Paths, After(j)[x] # None
      PROVE  LevelOf[After(j)[x].shard] = 0 /\ After(j)[x].shard \in Shards
  <2>1. CASE x = j.from \/ x = j.to
    <3>1. After(j)[x].shard = ShardOf[target][x]
      BY <1>1, <2>1, AfterTouched
    <3> QED
      BY <3>1, FlatShard
  <2>2. CASE ~(x = j.from \/ x = j.to)
    <3>1. After(j)[x] = mirror[x]
      BY <2>2, AfterOthers
    <3> QED
      BY <1>1, <3>1, MirrorFlat DEF TypeOK, Row
  <2> QED
    BY <2>1, <2>2
<1>2. CASE LevelOf[s] = 0
  <2>1. \A x \in Paths : After(j)[x] # None => After(j)[x].shard = s
    BY <1>1, <1>2, FlatShard
  <2> QED
    BY <2>1, <1>2 DEF SliceOf, AfterRows
<1>3. CASE LevelOf[s] # 0
  <2>1. \A x \in Paths : After(j)[x] # None => After(j)[x].shard # s
    BY <1>1, <1>3
  <2> QED
    BY <2>1, <1>3 DEF SliceOf, NoRows
<1> QED
  BY <1>2, <1>3

-----------------------------------------------------------------------------
(* Steps, one by one: each keeps the first invariant, and the second.      *)

\* The second invariant, and a step that leaves everybody but p alone.
LEMMA AgreementStays ==
  ASSUME Base, Agreement, NEW p \in Procs, \A q \in Procs \ {p} : Undisturbed(q),
         target' = target, Matched', Agrees(p)',
         target = 0 => Flat(files') /\ Flat(catalog') /\ Flat(job'[p].now)
  PROVE  Agreement'
<1>1. ASSUME NEW q \in Procs, q # p PROVE Agrees(q)'
  BY <1>1, AgreesStays DEF Base, Agreement
<1>2. ASSUME NEW q \in Procs, q # p, target = 0 PROVE Flat(job'[q].now)
  <2>1. Flat(job[q].now)
    BY <1>2 DEF Agreement, OnlyFlat
  <2>2. SameRecord(job'[q].now, job[q].now)
    BY <1>2 DEF Undisturbed
  <2> QED
    BY <2>1, <2>2, SameRowsIn
<1>3. OnlyFlat'
  BY <1>2 DEF OnlyFlat
<1> QED
  BY <1>1, <1>3 DEF Agreement

\* Outside of what the second invariant speaks of.
LEMMA Elsewhere ==
  ASSUME NEW p \in Procs,
         pc'[p] \notin {"capture", "refresh", "recheck", "ready", "publish", "reconcile"}
  PROVE  Agrees(p)'
BY DEF Agrees, Uniform, Exact, Evident, Admitted, Fresh, Ahead

\* Both invariants, and a step that writes no file and no database.
LEMMA LocalStep ==
  ASSUME Base, NEW p \in Procs, NEW l, NEW j, Carries(p, l, j),
         UNCHANGED <<files, mirror, catalog, moves, target>>
  PROVE  /\ Base'
         /\ Agreement /\ Agrees(p)' /\ (target = 0 => Flat(j.now)) => Agreement'
<1>1. Base' /\ Locally(p)
  BY LocalBase
<1>2. ASSUME Agreement, Agrees(p)', target = 0 => Flat(j.now) PROVE Agreement'
  <2>1. \A q \in Procs \ {p} : Undisturbed(q)
    BY <1>1, OthersLocal DEF Base
  <2>2. job'[p] = j
    BY Steps
  <2>3. Matched'
    BY <1>2 DEF Agreement, Matched
  <2>4. target = 0 => Flat(files') /\ Flat(catalog')
    BY <1>2 DEF Agreement, OnlyFlat
  <2> QED
    BY <1>2, <2>1, <2>2, <2>3, <2>4, AgreementStays
<1> QED
  BY <1>1, <1>2

\* An observation begins.
LEMMA Listing ==
  ASSUME Base, NEW p \in Procs, NEW l \in {"capture", "refresh", "recheck"}, NEW j,
         Carries(p, l, j), UNCHANGED <<files, mirror, catalog, moves, target>>,
         Listable, j.todo = Present(files), j.now = NoShards
  PROVE  Base' /\ (Agreement => Agreement')
<1>1. Base' /\ (Agreement /\ Agrees(p)' /\ (target = 0 => Flat(j.now)) => Agreement')
  BY LocalStep
<1>2. pc'[p] = l /\ job'[p] = j
  BY Steps
<1>3. Uniform(p)'
  BY <1>2, Nothing DEF Uniform, Listable
<1>4. Exact(p)'
  BY <1>2, Nothing DEF Exact
<1>5. Agrees(p)'
  BY <1>2, <1>3, <1>4 DEF Agrees, Evident, Admitted, Fresh, Ahead
<1>6. Flat(j.now)
  BY DEF Flat, NoShards
<1> QED
  BY <1>1, <1>5, <1>6

\* A command ends without a transaction.
LEMMA Leaving ==
  ASSUME Base, NEW p \in Procs,
         pc' = [pc EXCEPT ![p] = "idle"], job' = [job EXCEPT ![p] = NoJob],
         owner' = IF owner = p THEN None ELSE owner,
         UNCHANGED <<files, mirror, catalog, moves, target>>
  PROVE  Base' /\ (Agreement => Agreement')
<1>1. Carries(p, "idle", NoJob)
  BY Nothing DEF Carries, PCs, Locked, KindAt, Asked
<1>2. Base' /\ (Agreement /\ Agrees(p)' /\ (target = 0 => Flat(NoJob.now)) => Agreement')
  BY <1>1, LocalStep
<1>3. Agrees(p)'
  BY <1>1, Steps, Elsewhere
<1>4. Flat(NoJob.now)
  BY Nothing DEF Flat, NoShards
<1> QED
  BY <1>2, <1>3, <1>4

\* Who is at work with the lock has it; nobody else has.
LEMMA Owning ==
  ASSUME TypeOK, NEW p \in Procs
  PROVE  /\ pc[p] \in Locked <=> owner = p
         /\ owner = None => \A q \in Procs : owner # q
         /\ job[p] \in JobType /\ pc[p] \in PCs
BY NoneAssumption DEF TypeOK, Locked

\* A command gives up.
LEMMA AbortStep ==
  ASSUME Base, NEW p \in Procs, Abort(p) PROVE Base' /\ (Agreement => Agreement')
BY Leaving DEF Abort, Goto

\* A sync ends.
LEMMA EndReconcileStep ==
  ASSUME Base, NEW p \in Procs, EndReconcile(p) PROVE Base' /\ (Agreement => Agreement')
<1>1. owner = p
  BY Owning DEF Base, EndReconcile, Locked
<1> QED
  BY <1>1, Leaving DEF EndReconcile, Release

\* An edit finds nothing to change.
LEMMA NothingToDoStep ==
  ASSUME Base, NEW p \in Procs, NothingToDo(p) PROVE Base' /\ (Agreement => Agreement')
<1>1. owner = p
  BY Owning DEF Base, NothingToDo, Locked
<1> QED
  BY <1>1, Leaving DEF NothingToDo, Release

\* gat add pins the revision it starts from.
LEMMA OpenAddStep ==
  ASSUME Base, NEW p \in Procs, NEW x \in Paths, NEW o \in Oids, OpenAdd(p, x, o)
  PROVE  Base' /\ (Agreement => Agreement')
<1> DEFINE k == [NoJob EXCEPT !.kind = "add", !.to = x, !.oid = o]
           j == [Listed(k) EXCEPT !.quiet = TRUE]
<1>1. k \in JobType /\ k.kind = "add" /\ k.from = None /\ k.to = x /\ k.oid = o /\ k.seen = NoShards
  BY Nothing DEF JobType, Kinds, NoJob
<1> HIDE DEF k
<1>2. /\ j \in JobType /\ SameRequest(j, k) /\ j.seen = NoShards
      /\ j.todo = Present(files) /\ j.now = NoShards
  BY <1>1, Nothing DEF JobType, Listed, Present, SameRequest, Sound, Records
<1>3. pc' = [pc EXCEPT ![p] = "refresh"] /\ job' = [job EXCEPT ![p] = j]
      /\ owner = None /\ owner' = p /\ Listable
      /\ UNCHANGED <<files, mirror, catalog, moves, target>>
  BY DEF OpenAdd, Lock, k
<1> HIDE DEF j
<1>4. Carries(p, "refresh", j)
  BY <1>1, <1>2, <1>3, Nothing DEF Carries, PCs, Locked, KindAt, Asked, SameRequest
<1> QED
  BY <1>2, <1>3, <1>4, Listing

\* gat rm or gat mv takes the lock.
LEMMA OpenEditStep ==
  ASSUME Base, NEW p \in Procs, NEW x \in Paths, NEW y \in Paths \cup {None}, OpenEdit(p, x, y)
  PROVE  Base' /\ (Agreement => Agreement')
<1> DEFINE kind == IF y = None THEN "rm" ELSE "mv"
           k == [NoJob EXCEPT !.kind = kind, !.from = x, !.to = y, !.inc = (Shape(files) = target)]
           j == [Listed(k) EXCEPT !.quiet = TRUE]
<1>1. k \in JobType /\ k.kind = kind /\ k.from = x /\ k.to = y /\ k.seen = NoShards
  BY Nothing DEF JobType, Kinds, NoJob
<1>2. pc' = [pc EXCEPT ![p] = "refresh"] /\ job' = [job EXCEPT ![p] = j]
      /\ owner = None /\ owner' = p /\ Listable /\ x # y
      /\ UNCHANGED <<files, mirror, catalog, moves, target>>
  BY DEF OpenEdit, Lock
<1> HIDE DEF k
<1>3. /\ j \in JobType /\ SameRequest(j, k) /\ j.seen = NoShards
      /\ j.todo = Present(files) /\ j.now = NoShards
  BY <1>1, Nothing DEF JobType, Listed, Present, SameRequest, Sound, Records
<1> HIDE DEF j
<1>4. Carries(p, "refresh", j)
  BY <1>1, <1>2, <1>3, Nothing DEF Carries, PCs, Locked, KindAt, Asked, SameRequest
<1> QED
  BY <1>2, <1>3, <1>4, Listing

\* gat sync starts its capture.
LEMMA OpenSyncStep ==
  ASSUME Base, NEW p \in Procs, OpenSync(p)
  PROVE  Base' /\ (Agreement => Agreement')
<1> DEFINE k == [NoJob EXCEPT !.kind = "sync"]
           j == Listed(k)
<1>1. k \in JobType /\ k.kind = "sync" /\ k.from = None /\ k.to = None /\ k.seen = NoShards
  BY Nothing DEF JobType, Kinds, NoJob
<1>2. pc' = [pc EXCEPT ![p] = "capture"] /\ job' = [job EXCEPT ![p] = j]
      /\ owner' = owner /\ Listable /\ pc[p] = "idle"
      /\ UNCHANGED <<files, mirror, catalog, moves, target>>
  BY DEF OpenSync, Goto
<1> HIDE DEF k
<1>3. /\ j \in JobType /\ SameRequest(j, k) /\ j.seen = NoShards
      /\ j.todo = Present(files) /\ j.now = NoShards
  BY <1>1, Nothing DEF JobType, Listed, Present, SameRequest, Sound, Records
<1> HIDE DEF j
<1>4. owner # p
  BY <1>2, Owning DEF Base, Locked
<1>5. Carries(p, "capture", j)
  BY <1>1, <1>2, <1>3, <1>4, Nothing DEF Carries, PCs, Locked, KindAt, Asked, SameRequest
<1> QED
  BY <1>2, <1>3, <1>5, Listing

\* gat sync revalidates its capture under the lock.
LEMMA RevalidateStep ==
  ASSUME Base, NEW p \in Procs, Revalidate(p)
  PROVE  Base' /\ (Agreement => Agreement')
<1> DEFINE k == job[p]
           j == [Listed(k) EXCEPT !.quiet = TRUE]
<1>1. k \in JobType /\ k.kind = "sync" /\ Asked(k) /\ Sound(k.seen, files)
  BY DEF Base, TypeOK, Onward, Revalidate, KindAt
<1>2. pc' = [pc EXCEPT ![p] = "recheck"] /\ job' = [job EXCEPT ![p] = j]
      /\ owner = None /\ owner' = p /\ Listable
      /\ UNCHANGED <<files, mirror, catalog, moves, target>>
  BY DEF Revalidate, Lock
<1> HIDE DEF k
<1>3. /\ j \in JobType /\ SameRequest(j, k) /\ j.seen = k.seen
      /\ j.todo = Present(files) /\ j.now = NoShards
  BY <1>1, Nothing DEF JobType, Listed, Present, SameRequest, Sound, Records
<1> HIDE DEF j
<1>4. Carries(p, "recheck", j)
  BY <1>1, <1>2, <1>3, Nothing DEF Carries, PCs, Locked, KindAt, Asked, SameRequest
<1> QED
  BY <1>2, <1>3, <1>4, Listing

\* gat add takes the lock, if the identity is the one it pinned.
LEMMA IntoMutationStep ==
  ASSUME Base, NEW p \in Procs, IntoMutation(p)
  PROVE  Base' /\ (Agreement => Agreement')
<1> DEFINE i == \/ Shape(files) = target
                \/ Shape(files) = None /\ job[p].seen = NoShards
           k == [job[p] EXCEPT !.inc = i]
           j == [Listed(k) EXCEPT !.quiet = TRUE]
<1>1. job[p] \in JobType /\ job[p].kind = "add" /\ Asked(job[p]) /\ Sound(job[p].seen, files)
  BY DEF Base, TypeOK, Onward, IntoMutation, KindAt
<1>2. pc' = [pc EXCEPT ![p] = "recheck"] /\ job' = [job EXCEPT ![p] = j]
      /\ owner = None /\ owner' = p /\ Listable
      /\ UNCHANGED <<files, mirror, catalog, moves, target>>
  BY DEF IntoMutation, Lock
<1>3. i \in BOOLEAN
  OBVIOUS
<1> HIDE DEF i
<1>4. /\ k \in JobType /\ k.kind = "add" /\ k.from = job[p].from /\ k.to = job[p].to
      /\ k.oid = job[p].oid /\ k.seen = job[p].seen
  BY <1>1, <1>3 DEF JobType
<1> HIDE DEF k
<1>5. /\ j \in JobType /\ SameRequest(j, k) /\ j.seen = k.seen
      /\ j.todo = Present(files) /\ j.now = NoShards
  BY <1>4, Nothing DEF JobType, Listed, Present, SameRequest, Sound, Records
<1> HIDE DEF j
<1>6. Carries(p, "recheck", j)
  BY <1>1, <1>2, <1>4, <1>5, Nothing DEF Carries, PCs, Locked, KindAt, Asked, SameRequest
<1> QED
  BY <1>2, <1>5, <1>6, Listing

\* One shard is observed.
LEMMA ObserveStep ==
  ASSUME Base, NEW p \in Procs, NEW s \in Shards, Observe(p, s)
  PROVE  Base' /\ (Agreement => Agreement')
<1> DEFINE prior == Prior(p)[s]
           e == IF prior # None /\ prior.proof THEN prior ELSE [rows |-> files[s], proof |-> TRUE]
           now == [job[p].now EXCEPT ![s] = e]
           j == [job[p] EXCEPT !.todo = @ \ {s}, !.now = now]
<1>1. /\ job[p] \in JobType /\ Asked(job[p]) /\ job[p].kind \in KindAt(pc[p])
      /\ Sound(job[p].seen, files) /\ Sound(job[p].now, files) /\ Sound(catalog, files)
      /\ pc \in [Procs -> PCs] /\ job \in [Procs -> JobType]
  BY DEF Base, TypeOK, Onward
<1>2. /\ pc[p] \in {"capture", "refresh", "recheck"} /\ s \in job[p].todo /\ files[s] # None
      /\ UNCHANGED <<files, mirror, catalog, owner, pc, moves, target>>
      /\ job' = [job EXCEPT ![p].todo = @ \ {s}, ![p].now[s] = e]
  BY DEF Observe
<1>3. files[s] \in Rows /\ Fits(files[s], s)
  BY <1>2 DEF Base, TypeOK, FilesPlaced
<1>4. Sound(Prior(p), files)
  BY <1>1 DEF Prior
<1>5. /\ e \in Stored /\ e # None /\ Fits(e.rows, s)
      /\ e.proof /\ files[s] = e.rows
  <2>1. CASE prior # None /\ prior.proof
    BY <1>4, <2>1 DEF Sound, Records
  <2>2. CASE ~(prior # None /\ prior.proof)
    <3>1. e = [rows |-> files[s], proof |-> TRUE]
      BY <2>2
    <3> HIDE DEF e
    <3>2. e.rows = files[s] /\ e.proof
      BY <3>1
    <3>3. e \in Stored
      BY <3>1, <1>3 DEF Stored
    <3> QED
      BY <3>2, <3>3, <1>3, NoValueAssumption
  <2> QED
    BY <2>1, <2>2
<1> HIDE DEF e
<1>6. /\ now \in Records /\ Sound(now, files)
      /\ now[s] = e /\ \A u \in Shards \ {s} : now[u] = job[p].now[u]
  <2>1. now \in Records /\ now[s] = e /\ \A u \in Shards \ {s} : now[u] = job[p].now[u]
    BY <1>1, <1>5 DEF Sound, Records
  <2> HIDE DEF now
  <2> QED
    BY <2>1, <1>1, <1>5 DEF Sound
<1>7. job' = [job EXCEPT ![p] = j]
  BY <1>1, <1>2 DEF JobType
<1> HIDE DEF now
<1>8. /\ j \in JobType /\ SameRequest(j, job[p]) /\ j.seen = job[p].seen /\ j.quiet = job[p].quiet
      /\ j.now = now /\ j.todo = job[p].todo \ {s}
  BY <1>1, <1>6 DEF JobType, SameRequest, Records
<1> HIDE DEF j
<1>9. Carries(p, pc[p], j)
  <2>1. pc' = [pc EXCEPT ![p] = pc[p]] /\ pc[p] \in PCs
    BY <1>1, <1>2
  <2>2. \/ pc[p] \in Locked /\ owner' = p /\ owner \in {None, p}
        \/ pc[p] \notin Locked /\ owner' = IF owner = p THEN None ELSE owner
    BY <1>2, Owning DEF Base
  <2>3. Asked(j) /\ j.kind \in KindAt(pc[p])
    BY <1>1, <1>8 DEF Asked, SameRequest
  <2> QED
    BY <2>1, <2>2, <2>3, <1>1, <1>2, <1>6, <1>7, <1>8 DEF Carries
<1>10. pc'[p] = pc[p] /\ job'[p] = j
  BY <1>2, <1>9, Steps
<1>11. Present(now) = Present(job[p].now) \cup {s}
  BY <1>5, <1>6 DEF Present
<1>12. j.todo \cup Present(now) = job[p].todo \cup Present(job[p].now)
  BY <1>2, <1>8, <1>11
<1>13. ASSUME Agreement PROVE Agrees(p)'
  <2>1. Agrees(p)
    BY <1>13 DEF Agreement
  <2>2. Uniform(p)'
    BY <2>1, <1>8, <1>10, <1>12 DEF Agrees, Uniform
  <2>3. Exact(p)'
    <3>1. ASSUME pc[p] = "refresh", job[p].quiet, NEW u \in Present(now)
          PROVE  now[u].rows = files[u]
      <4>1. CASE u = s
        BY <4>1, <1>5, <1>6
      <4>2. CASE u # s
        BY <3>1, <4>2, <2>1, <1>6 DEF Agrees, Exact, Present
      <4> QED
        BY <4>1, <4>2
    <3> QED
      BY <3>1, <2>1, <1>2, <1>8, <1>10, <1>12 DEF Agrees, Exact
  <2> QED
    BY <2>2, <2>3, <1>2, <1>10 DEF Agrees, Evident, Admitted, Fresh, Ahead
<1>14. ASSUME Agreement, target = 0 PROVE Flat(now)
  <2>1. Flat(job[p].now) /\ Flat(files)
    BY <1>14 DEF Agreement, OnlyFlat
  <2> QED
    BY <2>1, <1>2, <1>6 DEF Flat
<1> QED
  BY <1>2, <1>8, <1>9, <1>13, <1>14, LocalStep

\* The capture is complete.
LEMMA EndCaptureStep ==
  ASSUME Base, NEW p \in Procs, EndCapture(p)
  PROVE  Base' /\ (Agreement => Agreement')
<1> DEFINE seen == Unproven(job[p].now, Shards)
           j == [job[p] EXCEPT !.seen = seen, !.now = NoShards]
<1>1. /\ job[p] \in JobType /\ Asked(job[p]) /\ job[p].kind = "sync"
      /\ Sound(job[p].now, files)
  BY DEF Base, TypeOK, Onward, EndCapture, Observed, KindAt
<1>2. /\ pc[p] = "capture"
      /\ pc' = [pc EXCEPT ![p] = "captured"] /\ job' = [job EXCEPT ![p] = j]
      /\ UNCHANGED <<files, mirror, catalog, owner, moves, target>>
  BY DEF EndCapture, Observed, Goto
<1>3. Sound(seen, files) /\ seen \in Records
  BY <1>1, StaysSound, SoundRecords
<1> HIDE DEF seen
<1>4. j \in JobType /\ SameRequest(j, job[p]) /\ j.seen = seen /\ j.now = NoShards
  BY <1>1, <1>3, Nothing DEF JobType, SameRequest, Sound, Records
<1> HIDE DEF j
<1>5. owner # p
  BY <1>2, Owning DEF Base, Locked
<1>6. Carries(p, "captured", j)
  BY <1>1, <1>2, <1>3, <1>4, <1>5, Nothing DEF Carries, PCs, Locked, KindAt, Asked, SameRequest
<1>7. Agrees(p)'
  BY <1>2, <1>6, Steps, Elsewhere
<1>8. Flat(j.now)
  BY <1>4 DEF Flat, NoShards
<1> QED
  BY <1>2, <1>6, <1>7, <1>8, LocalStep

\* The layout is compared once more after the refresh.
LEMMA RecheckedStep ==
  ASSUME Base, NEW p \in Procs, Rechecked(p)
  PROVE  Base' /\ (Agreement => Agreement')
<1> DEFINE j == Listed(job[p])
           next == IF job[p].kind = "sync" THEN "refresh" ELSE "ready"
<1>1. /\ job[p] \in JobType /\ Asked(job[p]) /\ job[p].kind \in {"add", "sync"}
      /\ Sound(job[p].seen, files)
  BY DEF Base, TypeOK, Onward, Rechecked, Observed, KindAt
<1>2. pc[p] = "recheck" /\ owner = p
      /\ UNCHANGED <<files, mirror, catalog, moves, target>>
  BY Owning DEF Base, Locked, Rechecked, Observed
<1>3. CASE Identity(job[p].now) # Identity(job[p].seen)
  <2>1. Release(p)
    BY <1>3 DEF Rechecked
  <2> QED
    BY <1>2, <2>1, Leaving DEF Release
<1>4. CASE Identity(job[p].now) = Identity(job[p].seen)
  <2>1. /\ pc' = [pc EXCEPT ![p] = next] /\ job' = [job EXCEPT ![p] = j]
        /\ owner' = owner /\ (job[p].kind = "sync" => Listable)
    BY <1>4 DEF Rechecked, Goto
  <2>2. /\ j \in JobType /\ SameRequest(j, job[p]) /\ j.seen = job[p].seen
        /\ j.todo = Present(files) /\ j.now = NoShards
    BY <1>1, Nothing DEF JobType, Listed, Present, SameRequest, Sound, Records
  <2> HIDE DEF j
  <2>3. Carries(p, next, j)
    BY <1>1, <1>2, <2>1, <2>2, Nothing DEF Carries, PCs, Locked, KindAt, Asked, SameRequest
  <2>4. CASE job[p].kind = "sync"
    BY <1>2, <2>1, <2>2, <2>3, <2>4, Listing
  <2>5. CASE job[p].kind # "sync"
    <3>1. pc'[p] = "ready" /\ job'[p] = j /\ j.kind = "add"
      BY <2>2, <2>3, <2>5, <1>1, <1>2, Steps DEF SameRequest
    <3>2. Agrees(p)'
      BY <3>1 DEF Agrees, Uniform, Exact, Evident, Admitted, Fresh, Ahead
    <3>3. Flat(j.now)
      BY <2>2 DEF Flat, NoShards
    <3> QED
      BY <1>2, <2>3, <3>2, <3>3, LocalStep
  <2> QED
    BY <2>4, <2>5
<1> QED
  BY <1>3, <1>4

\* A publication begins.
LEMMA BeginPublishStep ==
  ASSUME Base, NEW p \in Procs, BeginPublish(p)
  PROVE  Base' /\ (Agreement => Agreement')
<1> DEFINE S == Scope(job[p])
           j == [job[p] EXCEPT !.now = NoShards, !.touched = S, !.todo = S]
<1>1. /\ job[p] \in JobType /\ Asked(job[p]) /\ job[p].kind \in {"add", "rm", "mv"}
      /\ Sound(job[p].seen, files)
  BY DEF Base, TypeOK, Onward, BeginPublish, KindAt
<1>2. /\ pc[p] = "ready" /\ owner = p
      /\ job[p].from # None => mirror[job[p].from] # None
      /\ S # {}
      /\ pc' = [pc EXCEPT ![p] = "publish"] /\ job' = [job EXCEPT ![p] = j]
      /\ UNCHANGED <<files, mirror, catalog, owner, moves, target>>
  BY Owning DEF Base, Locked, BeginPublish, Goto
<1>3. S \subseteq Shards
  BY ScopeTyped, <1>1, <1>2 DEF Base
<1>4. /\ j \in JobType /\ SameRequest(j, job[p]) /\ j.seen = job[p].seen /\ j.now = NoShards
      /\ j.todo = S /\ j.touched = S /\ j.quiet = job[p].quiet
  <2> HIDE DEF S
  <2> QED
    BY <1>1, <1>3, Nothing DEF JobType, SameRequest, Sound, Records
<1> HIDE DEF j
<1>5. Underway(j)
  <2>1. Scope(j) = S
    BY <1>4, SameScope
  <2> QED
    BY <2>1, <1>2, <1>4 DEF Underway, SameRequest, NoShards
<1> HIDE DEF S
<1>6. Carries(p, "publish", j)
  BY <1>1, <1>2, <1>4, <1>5, Nothing DEF Carries, PCs, Locked, KindAt, Asked, SameRequest
<1>7. pc'[p] = "publish" /\ job'[p] = j
  BY <1>2, <1>6, Steps
<1>8. ASSUME Agreement PROVE Agrees(p)'
  <2>1. Evident(p)'
    <3>1. S # {} /\ ~j.inc => S = Shards
      <4>1. j.inc = job[p].inc
        BY <1>4 DEF SameRequest
      <4> QED
        BY <4>1 DEF S, Scope
    <3>2. Evidence(job[p])'
      BY <3>1, <1>3, <1>4, <1>7 DEF Evidence, NoShards
    <3> QED
      BY <3>2 DEF Evident
  <2>2. Ahead(p)'
    <3>1. Fresh(p)
      BY <1>8 DEF Agreement, Agrees
    <3>2. ASSUME j.kind # "add", j.quiet PROVE AheadBy(job[p])'
      <4>1. \A s \in Shards : FileRows(files[s]) = SliceOf(mirror, s)
        BY <3>1, <3>2, <1>2, <1>4 DEF Fresh, SameRequest
      <4>2. \A s \in Shards : s \notin job'[p].touched \ job'[p].todo
        BY <1>4, <1>7
      <4> QED
        BY <4>1, <4>2, <1>2 DEF AheadBy
    <3> QED
      BY <3>2, <1>7 DEF Ahead
  <2> QED
    BY <2>1, <2>2, <1>7 DEF Agrees, Uniform, Exact, Admitted, Fresh
<1>9. Flat(j.now)
  BY <1>4 DEF Flat, NoShards
<1> QED
  BY <1>2, <1>6, <1>8, <1>9, LocalStep

\* Both invariants, and a step that ends a transaction of the database.
LEMMA TransactionStep ==
  ASSUME Base, NEW p \in Procs, owner = p, NEW l, NEW j, Carries(p, l, j),
         UNCHANGED <<files, moves, target>>,
         mirror' \in [Paths -> Row \cup {None}], MirrorPlaced', Sound(catalog', files)
  PROVE  /\ Base'
         /\ /\ Agreement /\ Agrees(p)' /\ Matched'
            /\ target = 0 => Flat(catalog') /\ Flat(j.now)
            => Agreement'
<1>1. Base' /\ Committing(p)
  BY CommitBase
<1>2. ASSUME Agreement, Agrees(p)', Matched', target = 0 => Flat(catalog') /\ Flat(j.now)
      PROVE  Agreement'
  <2>1. \A q \in Procs \ {p} : Undisturbed(q)
    BY <1>1, OthersLocal DEF Base
  <2>2. job'[p] = j
    BY Steps
  <2>3. target = 0 => Flat(files')
    BY <1>2 DEF Agreement, OnlyFlat
  <2> QED
    BY <1>2, <2>1, <2>2, <2>3, AgreementStays
<1> QED
  BY <1>1, <1>2

\* The mirror is refreshed from the shards that were read.
LEMMA ApplyRefreshStep ==
  ASSUME Base, NEW p \in Procs, ApplyRefresh(p)
  PROVE  Base' /\ (Agreement => Agreement')
<1> DEFINE now == job[p].now
<1>1. /\ job[p] \in JobType /\ Asked(job[p]) /\ job[p].kind \in {"add", "rm", "mv", "sync"}
      /\ Sound(job[p].seen, files) /\ Sound(now, files) /\ now \in Records
  BY SoundRecords DEF Base, TypeOK, Onward, ApplyRefresh, Observed, KindAt
<1>2. /\ pc[p] = "refresh" /\ owner = p /\ job[p].todo = {}
      /\ mirror' = Refreshed(now) /\ catalog' = now
      /\ UNCHANGED <<files, moves, target>>
  BY Owning DEF Base, Locked, ApplyRefresh, Observed
<1>3. mirror' \in [Paths -> Row \cup {None}] /\ MirrorPlaced' /\ Sound(catalog', files)
  BY <1>1, <1>2, RefreshedTyped DEF Base, MirrorPlaced
<1>4. ASSUME Agreement PROVE Matched'
  <2>1. OneLevel(Present(now))
    BY <1>2, <1>4 DEF Agreement, Agrees, Uniform, OneLevel
  <2> HIDE DEF now
  <2> QED
    BY <2>1, <1>1, <1>2, <1>4, RefreshedMatches DEF Base, Agreement, Matched
<1>5. ASSUME Agreement, job[p].quiet, NEW s \in Shards
      PROVE  FileRows(files'[s]) = SliceOf(mirror', s)
  <2>1. Present(now) = Present(files) /\ \A u \in Present(now) : now[u].rows = files[u]
    BY <1>2, <1>5 DEF Agreement, Agrees, Exact
  <2>2. FileRows(files[s]) = RowsIn(now[s])
    BY <2>1 DEF FileRows, RowsIn, Present
  <2>3. SliceOf(mirror', s) = RowsIn(catalog'[s])
    BY <1>4, <1>5 DEF Matched
  <2> QED
    BY <2>2, <2>3, <1>2
<1>6. ASSUME Agreement, target = 0 PROVE Flat(catalog')
  BY <1>2, <1>6 DEF Agreement, OnlyFlat
<1>7. Flat(NoShards)
  BY DEF Flat, NoShards
<1>8. CASE job[p].kind = "add"
  <2>1. PICK r \in {FALSE, mirror'[job[p].to] # None /\ mirror'[job[p].to].oid = job[p].oid} :
          /\ owner' = None
          /\ Goto(p, "pinned", [job[p] EXCEPT !.seen = now, !.now = NoShards,
                                              !.reused = r, !.quiet = FALSE])
    BY <1>8 DEF ApplyRefresh
  <2> DEFINE j == [job[p] EXCEPT !.seen = now, !.now = NoShards, !.reused = r, !.quiet = FALSE]
  <2>2. pc' = [pc EXCEPT ![p] = "pinned"] /\ job' = [job EXCEPT ![p] = j]
    BY <2>1 DEF Goto
  <2>3. /\ j \in JobType /\ j.kind = "add" /\ j.from = job[p].from /\ j.to = job[p].to
        /\ j.oid = job[p].oid /\ j.seen = now /\ j.now = NoShards
    <3>1. r \in BOOLEAN
      BY <2>1
    <3> HIDE DEF now
    <3> QED
      BY <3>1, <1>1, <1>8, Nothing DEF JobType, Sound, Records
  <2> HIDE DEF j
  <2>4. Carries(p, "pinned", j)
    BY <1>1, <1>2, <1>8, <2>1, <2>2, <2>3, Nothing DEF Carries, PCs, Locked, KindAt, Asked
  <2>5. Agrees(p)'
    BY <1>2, <2>4, Steps, Elsewhere
  <2> QED
    BY <1>2, <1>3, <1>4, <1>6, <1>7, <2>3, <2>4, <2>5, TransactionStep
<1> DEFINE j == [job[p] EXCEPT !.now = NoShards]
<1>9. j \in JobType /\ SameRequest(j, job[p]) /\ j.seen = job[p].seen /\ j.now = NoShards
      /\ j.quiet = job[p].quiet
  BY <1>1, Nothing DEF JobType, SameRequest, Sound, Records
<1>10. CASE job[p].kind \in {"rm", "mv"}
  <2>1. /\ pc' = [pc EXCEPT ![p] = "ready"] /\ job' = [job EXCEPT ![p] = j]
        /\ owner' = owner
    BY <1>10 DEF ApplyRefresh, Goto
  <2> HIDE DEF j
  <2>2. Carries(p, "ready", j)
    BY <1>1, <1>2, <1>9, <1>10, <2>1, Nothing DEF Carries, PCs, Locked, KindAt, Asked, SameRequest
  <2>3. pc'[p] = "ready" /\ job'[p] = j
    BY <1>2, <2>2, Steps
  <2>4. ASSUME Agreement PROVE Agrees(p)'
    <3>1. Fresh(p)'
      BY <2>3, <2>4, <1>5, <1>9 DEF Fresh
    <3> QED
      BY <3>1, <2>3 DEF Agrees, Uniform, Exact, Evident, Admitted, Ahead
  <2> QED
    BY <1>2, <1>3, <1>4, <1>6, <1>7, <1>9, <2>2, <2>4, TransactionStep
<1>11. CASE job[p].kind = "sync" /\ Identity(now) = Identity(job[p].seen)
  <2>1. /\ pc' = [pc EXCEPT ![p] = "reconcile"] /\ job' = [job EXCEPT ![p] = j]
        /\ owner' = owner
    BY <1>11 DEF ApplyRefresh, Goto
  <2> HIDE DEF j
  <2>2. Carries(p, "reconcile", j)
    BY <1>1, <1>2, <1>9, <1>11, <2>1, Nothing DEF Carries, PCs, Locked, KindAt, Asked, SameRequest
  <2>3. pc'[p] = "reconcile" /\ job'[p] = j
    BY <1>2, <2>2, Steps
  <2>4. ASSUME NEW s \in Shards PROVE RowsIn(now[s]) = RowsIn(job[p].seen[s])
    <3>1. Identity(now)[s] = Identity(job[p].seen)[s]
      BY <1>11
    <3>2. /\ Identity(now)[s] = IF now[s] = None THEN None ELSE now[s].rows
          /\ Identity(job[p].seen)[s] = IF job[p].seen[s] = None THEN None ELSE job[p].seen[s].rows
      BY DEF Identity
    <3>3. /\ now[s] # None => now[s].rows # None
          /\ job[p].seen[s] # None => job[p].seen[s].rows # None
      BY <1>1, NoValueAssumption DEF Sound, Records, Stored
    <3> QED
      BY <3>1, <3>2, <3>3 DEF RowsIn
  <2>5. ASSUME Agreement PROVE Agrees(p)'
    <3>1. Fresh(p)'
      BY <2>3, <2>5, <1>5, <1>9 DEF Fresh
    <3>2. Admitted(p)'
      <4>1. \A s \in Shards : SliceOf(mirror', s) = RowsIn(now[s])
        BY <1>2, <1>4, <2>5 DEF Matched
      <4> QED
        BY <4>1, <2>3, <2>4, <1>9 DEF Admitted
    <3> QED
      BY <3>1, <3>2, <2>3 DEF Agrees, Uniform, Exact, Evident, Ahead
  <2> QED
    BY <1>2, <1>3, <1>4, <1>6, <1>7, <1>9, <2>2, <2>5, TransactionStep
<1>12. CASE job[p].kind = "sync" /\ Identity(now) # Identity(job[p].seen)
  <2>1. Release(p)
    BY <1>12 DEF ApplyRefresh
  <2>2. Carries(p, "idle", NoJob)
    BY <1>2, <2>1, Nothing DEF Release, Carries, PCs, Locked, KindAt, Asked
  <2>3. Agrees(p)'
    BY <1>2, <2>2, Steps, Elsewhere
  <2> QED
    BY <1>2, <1>3, <1>4, <1>6, <1>7, <2>2, <2>3, Nothing, TransactionStep
<1> QED
  BY <1>1, <1>8, <1>10, <1>11, <1>12

\* The publication is committed to the database.
LEMMA CommitStep ==
  ASSUME Base, NEW p \in Procs, Commit(p)
  PROVE  Base' /\ (Agreement => Agreement')
<1> DEFINE j == job[p]
<1>1. /\ j \in JobType /\ Asked(j) /\ j.kind \in {"add", "rm", "mv"}
      /\ Sound(j.now, files) /\ Sound(catalog, files) /\ Underway(j)
  BY DEF Base, TypeOK, Onward, Commit, Published, KindAt
<1>2. /\ pc[p] = "publish" /\ owner = p /\ j.todo = {}
      /\ mirror' = Mirrored(j)
      /\ catalog' = [s \in Shards |-> IF s \in j.touched THEN j.now[s] ELSE catalog[s]]
      /\ Release(p)
      /\ UNCHANGED <<files, moves, target>>
  BY Owning DEF Base, Locked, Commit, Published
<1>3. mirror' \in [Paths -> Row \cup {None}] /\ MirrorPlaced'
  BY <1>1, <1>2, AfterTyped DEF Base, MirrorPlaced, Underway
<1>4. Sound(catalog', files)
  <2>1. catalog' \in Records
    BY <1>1, <1>2 DEF Sound, Records
  <2>2. \A s \in Shards : catalog'[s] = j.now[s] \/ catalog'[s] = catalog[s]
    BY <1>2
  <2> QED
    BY <1>1, <2>1, <2>2 DEF Sound
<1>5. Carries(p, "idle", NoJob)
  BY <1>2, Nothing DEF Release, Carries, PCs, Locked, KindAt, Asked
<1>6. Agrees(p)'
  BY <1>2, <1>5, Steps, Elsewhere
<1>7. Flat(NoJob.now)
  BY Nothing DEF Flat, NoShards
<1>8. ASSUME Agreement, target = 0 PROVE Flat(catalog')
  BY <1>2, <1>8 DEF Agreement, OnlyFlat, Flat
<1>9. ASSUME Agreement, NEW s \in Shards PROVE SliceOf(Mirrored(j), s) = RowsIn(catalog'[s])
  <2>1. Evidence(j) /\ SliceOf(mirror, s) = RowsIn(catalog[s])
    BY <1>2, <1>9 DEF Agreement, Agrees, Evident, Matched
  <2>2. CASE s \in j.touched
    BY <1>2, <2>1, <2>2 DEF Evidence
  <2>3. CASE s \notin j.touched
    <3>1. j.touched = Scope(j) /\ j.touched # {}
      BY <1>1 DEF Underway
    <3>2. j.inc /\ TouchedBy(j) # {}
      BY <2>3, <3>1 DEF Scope
    <3>3. Mirrored(j) = After(j)
      BY <3>2 DEF Mirrored
    <3>4. catalog'[s] = catalog[s]
      BY <1>2, <2>3
    <3>5. CASE target = 0
      <4>1. LevelOf[s] # 0
        BY <2>3, <3>1, <3>2, <3>5 DEF Scope
      <4>2. AfterRows(j) \in Rows
        BY <1>1, AfterTyped DEF Base, Underway
      <4>3. SliceOf(After(j), s) = NoRows
        BY <1>1, <1>9, <3>2, <3>5, <4>1, <4>2, FlatAfter DEF Base, Agreement
      <4>4. catalog[s] = None
        BY <1>9, <3>5, <4>1 DEF Agreement, OnlyFlat, Flat
      <4> QED
        BY <3>3, <3>4, <4>3, <4>4 DEF RowsIn
    <3>6. CASE target # 0
      <4>1. s \notin TouchedBy(j)
        BY <2>3, <3>1, <3>2, <3>6 DEF Scope
      <4> QED
        BY <1>1, <2>1, <3>2, <3>3, <3>4, <4>1, Untouched DEF Base
    <3> QED
      BY <3>5, <3>6
  <2> QED
    BY <2>2, <2>3
<1> HIDE DEF j
<1>10. ASSUME Agreement PROVE Matched'
  BY <1>2, <1>9, <1>10 DEF Matched
<1> QED
  BY <1>2, <1>3, <1>4, <1>5, <1>6, <1>7, <1>8, <1>10, TransactionStep

\* Both invariants, and a step of a publication that writes shard files in S.
LEMMA RewriteStep ==
  ASSUME Base, NEW p \in Procs, pc[p] = "publish", NEW S, NEW j \in JobType, Rewrite(p, S, j),
         UNCHANGED <<mirror, owner, pc, moves, target>>,
         files' \in [Shards -> Rows \cup {None}], FilesPlaced',
         \A s \in Shards \ S : files'[s] = files[s],
         SameRequest(j, job[p]), j.touched = job[p].touched, j.todo \subseteq j.touched,
         j.seen = job[p].seen, Sound(j.now, files'),
         \A s \in Shards \ (j.touched \ j.todo) : j.now[s] = None
  PROVE  /\ Base'
         /\ /\ Agreement /\ Evidence(j)
            /\ target = 0 => Flat(files') /\ Flat(j.now)
            /\ j.kind # "add" /\ j.quiet =>
                 \A s \in Shards :
                   FileRows(files'[s])
                     = SliceOf(IF s \in j.touched \ j.todo THEN Mirrored(j) ELSE mirror, s)
            => Agreement'
<1>1. /\ Base' /\ Rewriting(p, S)
      /\ job'[p] = [j EXCEPT !.seen = Unproven(@, S)]
  BY RewriteBase
<1>2. /\ SameRequest(job'[p], j) /\ job'[p].kind = j.kind /\ job'[p].inc = j.inc
      /\ job'[p].now = j.now /\ job'[p].todo = j.todo /\ job'[p].touched = j.touched
      /\ job'[p].quiet = j.quiet
  BY <1>1 DEF JobType, SameRequest
<1>3. catalog' = Unproven(catalog, S) /\ pc'[p] = "publish" /\ target' = target /\ mirror' = mirror
  BY DEF Rewrite
<1>4. SameRecord(catalog', catalog)
  BY <1>3, ProofsLost DEF Base, Sound, SameRecord
<1>5. Mirrored(job[p])' = Mirrored(j)
  BY <1>2, <1>3, ScopeStays, SameScope
<1>6. ASSUME Agreement, Evidence(j),
             target = 0 => Flat(files') /\ Flat(j.now),
             j.kind # "add" /\ j.quiet =>
                 \A s \in Shards :
                   FileRows(files'[s])
                     = SliceOf(IF s \in j.touched \ j.todo THEN Mirrored(j) ELSE mirror, s)
      PROVE  Agreement'
  <2>1. \A q \in Procs \ {p} : Undisturbed(q)
    BY <1>1, OthersRewriting DEF Base
  <2>2. Matched'
    BY <1>3, <1>4, <1>6, SameRowsIn DEF Agreement, Matched
  <2>3. target = 0 => Flat(catalog')
    BY <1>4, <1>6, SameRowsIn DEF Agreement, OnlyFlat
  <2>4. Evident(p)'
    <3>1. Evidence(job[p])'
      BY <1>2, <1>5, <1>6 DEF Evidence
    <3> QED
      BY <3>1 DEF Evident
  <2>5. Ahead(p)'
    <3>1. ASSUME job'[p].kind # "add", job'[p].quiet PROVE AheadBy(job[p])'
      BY <3>1, <1>2, <1>3, <1>5, <1>6 DEF AheadBy
    <3> QED
      BY <3>1 DEF Ahead
  <2>6. Agrees(p)'
    BY <2>4, <2>5, <1>3 DEF Agrees, Uniform, Exact, Admitted, Fresh
  <2> QED
    BY <1>2, <1>3, <1>6, <2>1, <2>2, <2>3, <2>6, AgreementStays
<1> QED
  BY <1>1, <1>6

\* A complete publication replaces the layout.
LEMMA PublishCompleteStep ==
  ASSUME Base, NEW p \in Procs, PublishComplete(p)
  PROVE  Base' /\ (Agreement => Agreement')
<1> DEFINE r == AfterRows(job[p])
           new == Layout(r, target)
           now == [s \in Shards |-> IF new[s] = None THEN None ELSE [rows |-> new[s], proof |-> TRUE]]
           j == [job[p] EXCEPT !.todo = {}, !.now = now]
<1>1. /\ job[p] \in JobType /\ Asked(job[p]) /\ job[p].kind \in {"add", "rm", "mv"}
      /\ Underway(job[p])
  BY DEF Base, TypeOK, Onward, PublishComplete, KindAt
<1>2. /\ pc[p] = "publish" /\ ~job[p].inc /\ files' = new /\ Rewrite(p, Shards, j)
      /\ UNCHANGED <<mirror, owner, pc, moves, target>>
  BY DEF PublishComplete
<1>3. r \in Rows /\ target \in Levels
  BY <1>1, AfterTyped, FlatShard DEF Base, TypeOK, Underway
<1>4. /\ new \in [Shards -> Rows \cup {None}]
      /\ \A s \in Shards : new[s] # None => Fits(new[s], s) /\ LevelOf[s] = target
  BY <1>3, LayoutFits
<1>5. job[p].touched = Shards
  BY <1>1, <1>2 DEF Underway, Scope
<1>6. \A s \in Shards : FileRows(new[s]) = SliceOf(Mirrored(job[p]), s)
  <2>1. Mirrored(job[p]) = [x \in Paths |-> IF r[x] = None THEN None
                                           ELSE [oid |-> r[x], shard |-> ShardOf[target][x]]]
    BY <1>2 DEF Mirrored
  <2> QED
    BY <2>1, <1>3, LayoutSlices
<1> HIDE DEF new
<1>7. ASSUME NEW s \in Shards
      PROVE  /\ now[s] \in Stored \cup {None}
             /\ now[s] # None => now[s].rows = new[s] /\ new[s] # None
             /\ RowsIn(now[s]) = FileRows(new[s])
  <2>1. CASE new[s] = None
    BY <2>1 DEF RowsIn, FileRows
  <2>2. CASE new[s] # None
    <3>1. now[s] = [rows |-> new[s], proof |-> TRUE] /\ new[s] \in Rows
      BY <2>2, <1>4
    <3> HIDE DEF now
    <3>2. now[s] \in Stored /\ now[s].rows = new[s]
      BY <3>1 DEF Stored
    <3> QED
      BY <2>2, <3>2, NoValueAssumption DEF RowsIn, FileRows
  <2> QED
    BY <2>1, <2>2
<1>8. now \in Records
  BY <1>7 DEF Records
<1> HIDE DEF now
<1>9. Sound(now, files')
  BY <1>2, <1>4, <1>7, <1>8 DEF Sound
<1>10. /\ j \in JobType /\ SameRequest(j, job[p]) /\ j.seen = job[p].seen /\ j.now = now
       /\ j.todo = {} /\ j.touched = Shards /\ j.inc = job[p].inc
  BY <1>1, <1>5, <1>8 DEF JobType, SameRequest, Records
<1> HIDE DEF j
<1>11. FilesPlaced'
  BY <1>2, <1>4 DEF FilesPlaced
<1>12. Mirrored(j) = Mirrored(job[p])
  BY <1>10, SameScope
<1>13. Evidence(j)
  BY <1>6, <1>7, <1>10, <1>12 DEF Evidence
<1>14. target = 0 => Flat(files') /\ Flat(j.now)
  BY <1>2, <1>4, <1>7, <1>10 DEF Flat
<1>15. \A s \in Shards :
         FileRows(files'[s]) = SliceOf(IF s \in j.touched \ j.todo THEN Mirrored(j) ELSE mirror, s)
  BY <1>2, <1>6, <1>10, <1>12
<1> QED
  BY <1>1, <1>2, <1>4, <1>5, <1>9, <1>10, <1>11, <1>13, <1>14, <1>15, RewriteStep

\* A flat publication replaces the one file.
LEMMA PublishFlatStep ==
  ASSUME Base, NEW p \in Procs, PublishFlat(p)
  PROVE  Base' /\ (Agreement => Agreement')
<1> DEFINE r == AfterRows(job[p])
<1>1. /\ job[p] \in JobType /\ Asked(job[p]) /\ job[p].kind \in {"add", "rm", "mv"}
      /\ Underway(job[p]) /\ Sound(job[p].now, files)
  BY DEF Base, TypeOK, Onward, PublishFlat, KindAt
<1>2. /\ pc[p] = "publish" /\ job[p].inc /\ target = 0
      /\ UNCHANGED <<mirror, owner, pc, moves, target>>
  BY DEF PublishFlat
<1>3. PICK s \in job[p].todo :
        /\ files' = [NoShards EXCEPT ![s] = IF r = NoRows THEN None ELSE r]
        /\ Rewrite(p, Shards, [job[p] EXCEPT !.todo = {},
             !.now[s] = IF r = NoRows THEN None ELSE [rows |-> r, proof |-> TRUE]])
  BY DEF PublishFlat
<1> DEFINE e == IF r = NoRows THEN None ELSE [rows |-> r, proof |-> TRUE]
           now == [job[p].now EXCEPT ![s] = e]
           j == [job[p] EXCEPT !.todo = {}, !.now = now]
<1>4. r \in Rows
  BY <1>1, AfterTyped DEF Base, Underway
<1>5. /\ TouchedBy(job[p]) # {} /\ job[p].touched = {u \in Shards : LevelOf[u] = 0}
      /\ s \in Shards /\ LevelOf[s] = 0 /\ job[p].touched = {s}
  BY <1>1, <1>2, FlatShard DEF Underway, Scope
<1>6. Fits(r, s)
  BY <1>5, FlatShard, LevelsAssumption DEF Fits
<1>7. \A u \in Shards : job[p].now[u] = None
  BY <1>1, <1>3, <1>5 DEF Underway
<1>8. /\ files' \in [Shards -> Rows \cup {None}]
      /\ files'[s] = (IF r = NoRows THEN None ELSE r)
      /\ \A u \in Shards \ {s} : files'[u] = None
  BY <1>3, <1>4, <1>5 DEF NoShards
<1>9. /\ e \in Stored \cup {None}
      /\ e = None <=> r = NoRows
      /\ e # None => e.rows = r
  <2>1. CASE r = NoRows
    BY <2>1
  <2>2. CASE r # NoRows
    <3>1. e = [rows |-> r, proof |-> TRUE]
      BY <2>2
    <3> HIDE DEF r, e
    <3>2. e \in Stored /\ e.rows = r
      BY <3>1, <1>4 DEF Stored
    <3> QED
      BY <3>2, <2>2, NoValueAssumption
  <2> QED
    BY <2>1, <2>2
<1>10. Rewrite(p, Shards, j)
  BY <1>1, <1>3 DEF JobType
<1> HIDE DEF r, e
<1>11. now \in Records /\ now[s] = e /\ \A u \in Shards \ {s} : now[u] = None
  BY <1>1, <1>5, <1>7, <1>9 DEF Sound, Records
<1> HIDE DEF now
<1>12. Sound(now, files')
  BY <1>6, <1>8, <1>9, <1>11 DEF Sound
<1>13. /\ j \in JobType /\ SameRequest(j, job[p]) /\ j.seen = job[p].seen /\ j.now = now
       /\ j.todo = {} /\ j.touched = {s} /\ j.inc
  BY <1>1, <1>2, <1>5, <1>11 DEF JobType, SameRequest, Records
<1> HIDE DEF j
<1>14. FilesPlaced'
  BY <1>6, <1>8 DEF FilesPlaced
<1>15. ASSUME Agreement
       PROVE  /\ Evidence(j)
              /\ Flat(files') /\ Flat(j.now)
              /\ \A u \in Shards : FileRows(files'[u])
                   = SliceOf(IF u \in j.touched \ j.todo THEN Mirrored(j) ELSE mirror, u)
  <2>1. Mirrored(j) = After(job[p])
    BY <1>13, SameScope DEF Mirrored
  <2>2. SliceOf(After(job[p]), s) = r
    BY <1>1, <1>2, <1>4, <1>5, <1>15, FlatAfter DEF Base, Agreement, r
  <2>3. RowsIn(now[s]) = r /\ FileRows(files'[s]) = r
    BY <1>4, <1>8, <1>9, <1>11, NoValueAssumption DEF RowsIn, FileRows
  <2>4. Evidence(j)
    BY <2>1, <2>2, <2>3, <1>13 DEF Evidence
  <2>5. Flat(files') /\ Flat(j.now)
    BY <1>5, <1>8, <1>11, <1>13 DEF Flat
  <2>6. ASSUME NEW u \in Shards \ {s} PROVE FileRows(files'[u]) = SliceOf(mirror, u)
    <3>1. LevelOf[u] # 0
      BY <2>6, <1>5, FlatShard
    <3>2. catalog[u] = None
      BY <3>1, <1>2, <1>15 DEF Agreement, OnlyFlat, Flat
    <3>3. SliceOf(mirror, u) = NoRows
      BY <3>2, <1>15 DEF Agreement, Matched, RowsIn
    <3> QED
      BY <3>3, <1>8 DEF FileRows
  <2> QED
    BY <2>1, <2>2, <2>3, <2>4, <2>5, <2>6, <1>13
<1>16. /\ Base'
       /\ /\ Agreement /\ Evidence(j)
          /\ target = 0 => Flat(files') /\ Flat(j.now)
          /\ j.kind # "add" /\ j.quiet =>
               \A u \in Shards : FileRows(files'[u])
                   = SliceOf(IF u \in j.touched \ j.todo THEN Mirrored(j) ELSE mirror, u)
          => Agreement'
  <2>1. \A u \in Shards \ (j.touched \ j.todo) : j.now[u] = None
    BY <1>11, <1>13
  <2>2. j.todo \subseteq j.touched /\ j.touched = job[p].touched
    BY <1>5, <1>13
  <2> QED
    BY <1>1, <1>2, <1>8, <1>10, <1>12, <1>13, <1>14, <2>1, <2>2, RewriteStep
<1> QED
  BY <1>15, <1>16

\* An emptied shard is removed.
LEMMA DropShardStep ==
  ASSUME Base, NEW p \in Procs, NEW s \in Shards, DropShard(p, s)
  PROVE  Base' /\ (Agreement => Agreement')
<1> DEFINE j == [job[p] EXCEPT !.todo = @ \ {s}]
<1>1. /\ job[p] \in JobType /\ Asked(job[p]) /\ job[p].kind \in {"add", "rm", "mv"}
      /\ Underway(job[p]) /\ Sound(job[p].now, files)
  BY DEF Base, TypeOK, Onward, DropShard, KindAt
<1>2. /\ pc[p] = "publish" /\ job[p].inc /\ target # 0 /\ s \in job[p].todo
      /\ ShardRows(job[p], s) = NoRows
      /\ files' = [files EXCEPT ![s] = None] /\ Rewrite(p, {s}, j)
      /\ UNCHANGED <<mirror, owner, pc, moves, target>>
  BY DEF DropShard
<1>3. /\ j \in JobType /\ SameRequest(j, job[p]) /\ j.seen = job[p].seen /\ j.now = job[p].now
      /\ j.todo = job[p].todo \ {s} /\ j.touched = job[p].touched /\ j.inc /\ j.quiet = job[p].quiet
  BY <1>1, <1>2 DEF JobType, SameRequest
<1> HIDE DEF j
<1>4. /\ files' \in [Shards -> Rows \cup {None}] /\ files'[s] = None
      /\ \A u \in Shards \ {s} : files'[u] = files[u]
  BY <1>2 DEF Base, TypeOK
<1>5. FilesPlaced'
  BY <1>4 DEF Base, FilesPlaced
<1>6. /\ job[p].now[s] = None /\ job[p].todo \subseteq job[p].touched
      /\ \A u \in Shards \ (job[p].touched \ job[p].todo) : job[p].now[u] = None
  BY <1>1, <1>2 DEF Underway
<1>7. Sound(j.now, files')
  BY <1>1, <1>3, <1>4, <1>6 DEF Sound
<1>8. Mirrored(j) = After(job[p]) /\ Mirrored(job[p]) = After(job[p])
  BY <1>2, <1>3, SameScope DEF Mirrored
<1>9. SliceOf(After(job[p]), s) = NoRows
  BY <1>2 DEF ShardRows, SliceOf
<1>10. ASSUME Agreement
       PROVE  /\ Evidence(j)
              /\ j.kind # "add" /\ j.quiet =>
                   \A u \in Shards : FileRows(files'[u])
                     = SliceOf(IF u \in j.touched \ j.todo THEN Mirrored(j) ELSE mirror, u)
  <2>1. Evidence(job[p]) /\ Ahead(p)
    BY <1>2, <1>10 DEF Agreement, Agrees, Evident
  <2>2. RowsIn(j.now[s]) = NoRows /\ FileRows(files'[s]) = NoRows
    BY <1>3, <1>4, <1>6 DEF RowsIn, FileRows
  <2>3. Evidence(j)
    BY <2>1, <2>2, <1>3, <1>8, <1>9 DEF Evidence
  <2>4. ASSUME j.kind # "add", j.quiet, NEW u \in Shards
        PROVE  FileRows(files'[u]) = SliceOf(IF u \in j.touched \ j.todo THEN Mirrored(j) ELSE mirror, u)
    <3>1. AheadBy(job[p])
      BY <2>1, <2>4, <1>2, <1>3 DEF Ahead, SameRequest
    <3>2. CASE u = s
      BY <3>2, <2>2, <1>2, <1>3, <1>6, <1>8, <1>9
    <3>3. CASE u # s
      BY <3>1, <3>3, <1>3, <1>4, <1>8 DEF AheadBy
    <3> QED
      BY <3>2, <3>3
  <2> QED
    BY <2>3, <2>4
<1>11. \A u \in Shards \ (j.touched \ j.todo) : j.now[u] = None
  BY <1>3, <1>6
<1> QED
  BY <1>1, <1>2, <1>3, <1>4, <1>5, <1>6, <1>7, <1>10, <1>11, RewriteStep

\* One shard is written.
LEMMA PublishShardStep ==
  ASSUME Base, NEW p \in Procs, NEW s \in Shards, PublishShard(p, s)
  PROVE  Base' /\ (Agreement => Agreement')
<1> DEFINE r == ShardRows(job[p], s)
           prior == catalog[s]
           same == IF prior # None /\ prior.proof THEN prior.rows = r ELSE files[s] = r
           e == [rows |-> r, proof |-> TRUE]
           now == [job[p].now EXCEPT ![s] = e]
           j == [job[p] EXCEPT !.todo = @ \ {s}, !.now = now]
           done == [job[p] EXCEPT !.todo = @ \ {s}, !.now[s] = e]
<1>1. /\ job[p] \in JobType /\ Asked(job[p]) /\ job[p].kind \in {"add", "rm", "mv"}
      /\ Underway(job[p]) /\ Sound(job[p].seen, files) /\ Sound(job[p].now, files)
      /\ Sound(catalog, files)
  BY DEF Base, TypeOK, Onward, PublishShard, KindAt
<1>2. /\ pc[p] = "publish" /\ owner = p /\ job[p].inc /\ target # 0 /\ s \in job[p].todo
      /\ UNCHANGED <<mirror, owner, pc, moves, target>>
  BY Owning DEF Base, Locked, PublishShard
<1>3. \/ same /\ job' = [job EXCEPT ![p] = done] /\ UNCHANGED <<files, catalog>>
      \/ ~same /\ files' = [files EXCEPT ![s] = r] /\ Rewrite(p, {s}, done)
  BY DEF PublishShard
<1>4. r \in Rows /\ Fits(r, s)
  BY <1>1, AfterTyped DEF Base, Underway
<1>5. done = j
  BY <1>1 DEF JobType
<1>6. SliceOf(After(job[p]), s) = r
  BY DEF ShardRows, SliceOf
<1> HIDE DEF r
<1>7. e \in Stored /\ e # None /\ e.rows = r
  <2>1. e \in Stored
    BY <1>4 DEF Stored
  <2> QED
    BY <2>1, NoValueAssumption
<1> HIDE DEF done, e
<1>8. now \in Records /\ now[s] = e /\ \A u \in Shards \ {s} : now[u] = job[p].now[u]
  BY <1>1, <1>7 DEF Sound, Records
<1> HIDE DEF now
<1>9. /\ j \in JobType /\ SameRequest(j, job[p]) /\ j.seen = job[p].seen /\ j.now = now
      /\ j.todo = job[p].todo \ {s} /\ j.touched = job[p].touched /\ j.inc /\ j.quiet = job[p].quiet
  BY <1>1, <1>2, <1>8 DEF JobType, SameRequest, Records
<1> HIDE DEF j
<1>10. /\ job[p].touched = Scope(job[p]) /\ job[p].touched # {}
       /\ job[p].todo \subseteq job[p].touched
       /\ \A u \in Shards \ (job[p].touched \ job[p].todo) : job[p].now[u] = None
  BY <1>1 DEF Underway
<1>11. j.todo \subseteq j.touched
       /\ \A u \in Shards \ (j.touched \ j.todo) : j.now[u] = None
  BY <1>2, <1>8, <1>9, <1>10
<1>12. Mirrored(j) = After(job[p]) /\ Mirrored(job[p]) = After(job[p])
  BY <1>2, <1>9, SameScope DEF Mirrored
<1>13. ASSUME Agreement PROVE Evidence(j)
  <2>1. Evidence(job[p])
    BY <1>2, <1>13 DEF Agreement, Agrees, Evident
  <2>2. RowsIn(now[s]) = r
    BY <1>7, <1>8 DEF RowsIn
  <2>3. \A u \in j.touched \ j.todo : RowsIn(j.now[u]) = SliceOf(Mirrored(j), u)
    <3>1. ASSUME NEW u \in j.touched \ j.todo PROVE RowsIn(j.now[u]) = SliceOf(Mirrored(j), u)
      <4>1. CASE u = s
        BY <4>1, <2>2, <1>6, <1>9, <1>12
      <4>2. CASE u # s
        <5>1. u \in job[p].touched \ job[p].todo /\ u \in Shards
          BY <4>2, <1>1, <1>9 DEF JobType
        <5> QED
          BY <4>2, <5>1, <2>1, <1>8, <1>9, <1>12 DEF Evidence
      <4> QED
        BY <4>1, <4>2
    <3> QED
      BY <3>1
  <2> QED
    BY <2>3, <1>9 DEF Evidence
<1>14. ASSUME files'[s] = r, \A u \in Shards \ {s} : files'[u] = files[u]
       PROVE  /\ Sound(j.now, files')
              /\ Agreement /\ j.kind # "add" /\ j.quiet =>
                   \A u \in Shards : FileRows(files'[u])
                     = SliceOf(IF u \in j.touched \ j.todo THEN Mirrored(j) ELSE mirror, u)
  <2>1. Sound(j.now, files')
    BY <1>1, <1>4, <1>7, <1>8, <1>9, <1>14 DEF Sound
  <2>2. ASSUME Agreement, j.kind # "add", j.quiet, NEW u \in Shards
        PROVE  FileRows(files'[u]) = SliceOf(IF u \in j.touched \ j.todo THEN Mirrored(j) ELSE mirror, u)
    <3>1. AheadBy(job[p])
      BY <2>2, <1>2, <1>9 DEF Agreement, Agrees, Ahead, SameRequest
    <3>2. CASE u = s
      <4>1. FileRows(files'[s]) = r
        BY <1>4, <1>14, NoValueAssumption DEF FileRows
      <4>2. s \in j.touched \ j.todo
        BY <1>2, <1>9, <1>10
      <4> QED
        BY <3>2, <4>1, <4>2, <1>6, <1>12
    <3>3. CASE u # s
      BY <3>1, <3>3, <1>9, <1>12, <1>14 DEF AheadBy
    <3> QED
      BY <3>2, <3>3
  <2> QED
    BY <2>1, <2>2
<1>15. ASSUME Agreement, target = 0 PROVE FALSE
  BY <1>2, <1>15
<1>16. CASE same
  <2>1. job' = [job EXCEPT ![p] = j] /\ UNCHANGED <<files, catalog>>
    BY <1>3, <1>5, <1>16
  <2>2. files[s] = r
    BY <1>1, <1>16 DEF Sound
  <2>3. files'[s] = r /\ \A u \in Shards \ {s} : files'[u] = files[u]
    BY <2>1, <2>2
  <2>4. Underway(j)
    BY <1>1, <1>9, <1>10, <1>11, SameScope DEF Underway, SameRequest
  <2>5. Carries(p, "publish", j)
    <3>1. pc' = [pc EXCEPT ![p] = "publish"]
      BY <1>2 DEF Base, TypeOK
    <3>2. Sound(j.now, files)
      BY <1>14, <2>1, <2>3
    <3> QED
      BY <3>1, <3>2, <1>1, <1>2, <1>9, <2>1, <2>4 DEF Carries, PCs, Locked, KindAt, Asked, SameRequest
  <2>6. pc'[p] = "publish" /\ job'[p] = j
    BY <1>2, <2>1, <2>5, Steps
  <2>7. ASSUME Agreement PROVE Agrees(p)'
    <3>1. Mirrored(job[p])' = Mirrored(j)
      BY <1>2, <2>6, ScopeStays
    <3>2. Evidence(job[p])'
      BY <1>13, <2>6, <2>7, <3>1 DEF Evidence
    <3>3. Ahead(p)'
      <4>1. ASSUME j.kind # "add", j.quiet PROVE AheadBy(job[p])'
        BY <4>1, <1>2, <1>14, <2>3, <2>6, <2>7, <3>1 DEF AheadBy
      <4> QED
        BY <4>1, <2>6 DEF Ahead
    <3> QED
      BY <3>2, <3>3, <2>6 DEF Agrees, Uniform, Exact, Evident, Admitted, Fresh
  <2> QED
    BY <1>2, <1>15, <2>1, <2>5, <2>7, LocalStep
<1>17. CASE ~same
  <2>1. files' = [files EXCEPT ![s] = r] /\ Rewrite(p, {s}, j)
    BY <1>3, <1>5, <1>17
  <2>2. /\ files' \in [Shards -> Rows \cup {None}] /\ files'[s] = r
        /\ \A u \in Shards \ {s} : files'[u] = files[u]
    BY <2>1, <1>4 DEF Base, TypeOK
  <2>3. FilesPlaced'
    BY <2>2, <1>4 DEF Base, FilesPlaced
  <2> HIDE DEF same
  <2>4. Sound(j.now, files')
    BY <2>2, <1>14
  <2> QED
    BY <1>2, <1>9, <1>11, <1>13, <1>14, <1>15, <2>1, <2>2, <2>3, <2>4, RewriteStep
<1> QED
  BY <1>16, <1>17

\* git writes shard files.
LEMMA GitStep ==
  ASSUME Base, Git
  PROVE  Base' /\ (FlatHistory /\ Agreement => Agreement')
<1>1. target \in Targets /\ DepthsOf[target] \subseteq Levels
  BY DepthsAssumption DEF Base, TypeOK
<1>2. PICK new \in [Shards -> Rows \cup {None}] :
        /\ GitWrites(new)
        /\ \A s \in Shards : new[s] # None => Fits(new[s], s)
        /\ \A s \in Shards : new[s] # None => LevelOf[s] \in DepthsOf[target] \/ files[s] # None
  <2>1. PICK m \in Rows :
          \/ \E s \in {t \in Shards : LevelOf[t] \in DepthsOf[target]} : GitWrite(s, m)
          \/ \E d \in DepthsOf[target] : GitCheckout(m, d)
    BY DEF Git
  <2>2. ASSUME NEW d \in DepthsOf[target]
        PROVE  /\ Layout(m, d) \in [Shards -> Rows \cup {None}]
               /\ \A s \in Shards : Layout(m, d)[s] # None =>
                    Fits(Layout(m, d)[s], s) /\ LevelOf[s] \in DepthsOf[target]
    BY <1>1, <2>2, LayoutFits
  <2>3. ASSUME NEW d \in DepthsOf[target], GitCheckout(m, d)
        PROVE  GitWrites(Layout(m, d))
    BY <2>3 DEF GitCheckout
  <2>4. ASSUME NEW s \in Shards, LevelOf[s] \in DepthsOf[target], GitWrite(s, m)
        PROVE  \E new \in [Shards -> Rows \cup {None}] :
                 /\ GitWrites(new)
                 /\ \A u \in Shards : new[u] # None => Fits(new[u], u)
                 /\ \A u \in Shards : new[u] # None => LevelOf[u] \in DepthsOf[target] \/ files[u] # None
    <3> DEFINE lay == Layout(m, LevelOf[s])
               new == [files EXCEPT ![s] = lay[s]]
    <3>1. /\ lay \in [Shards -> Rows \cup {None}]
          /\ lay[s] # None => Fits(lay[s], s)
      BY <2>2, <2>4
    <3>2. GitWrites(new)
      BY <2>4 DEF GitWrite
    <3> HIDE DEF lay
    <3>3. /\ new \in [Shards -> Rows \cup {None}] /\ new[s] = lay[s]
          /\ \A u \in Shards \ {s} : new[u] = files[u]
      BY <3>1 DEF Base, TypeOK
    <3> HIDE DEF new
    <3>4. \A u \in Shards : new[u] # None => Fits(new[u], u)
      BY <3>1, <3>3 DEF Base, FilesPlaced
    <3>5. \A u \in Shards : new[u] # None => LevelOf[u] \in DepthsOf[target] \/ files[u] # None
      BY <3>3, <2>4
    <3> QED
      BY <3>2, <3>3, <3>4, <3>5
  <2> QED
    BY <2>1, <2>2, <2>3, <2>4
<1>3. Base'
  BY <1>2, GitBase
<1>4. ASSUME FlatHistory, Agreement PROVE Agreement'
  <2>1. \A q \in Procs : Undisturbed(q)
    BY <1>2, OthersGit DEF Base
  <2>2. files' = new /\ target' = target /\ mirror' = mirror
        /\ catalog' = Unproven(catalog, {s \in Shards : new[s] # files[s]})
    BY <1>2 DEF GitWrites
  <2>3. SameRecord(catalog', catalog)
    BY <2>2, ProofsLost DEF Base, Sound, SameRecord
  <2>4. Matched'
    BY <1>4, <2>2, <2>3, SameRowsIn DEF Agreement, Matched
  <2>5. \A q \in Procs : Agrees(q)'
    BY <1>4, <2>1, AgreesStays DEF Base, Agreement
  <2>6. ASSUME target = 0 PROVE Flat(files') /\ Flat(catalog')
    <3>1. DepthsOf[target] = {0}
      BY <1>1, <1>4, <2>6 DEF FlatHistory
    <3>2. Flat(files) /\ Flat(catalog)
      BY <1>4, <2>6 DEF Agreement, OnlyFlat
    <3>3. Flat(files')
      BY <1>2, <2>2, <3>1, <3>2 DEF Flat
    <3> QED
      BY <2>3, <3>2, <3>3, SameRowsIn
  <2>7. ASSUME target = 0, NEW q \in Procs PROVE Flat(job'[q].now)
    <3>1. Flat(job[q].now) /\ SameRecord(job'[q].now, job[q].now)
      BY <1>4, <2>1, <2>7 DEF Agreement, OnlyFlat, Undisturbed
    <3> QED
      BY <3>1, SameRowsIn
  <2> QED
    BY <2>2, <2>4, <2>5, <2>6, <2>7 DEF Agreement, OnlyFlat
<1> QED
  BY <1>3, <1>4

-----------------------------------------------------------------------------
(* The theorems. *)

\* The first invariant holds of an empty mirror.
LEMMA InitBase == ASSUME Init PROVE Base
<1>1. target \in Targets /\ DepthsOf[target] \subseteq Levels
  BY DepthsAssumption DEF Init
<1>2. files \in [Shards -> Rows \cup {None}] /\ FilesPlaced
  <2>1. CASE files = NoShards
    BY <2>1, Nothing DEF FilesPlaced, NoShards
  <2>2. CASE \E m \in Rows, d \in DepthsOf[target] : files = Layout(m, d)
    BY <2>2, <1>1, LayoutFits DEF FilesPlaced
  <2> QED
    BY <2>1, <2>2 DEF Init
<1>3. mirror \in [Paths -> Row \cup {None}] /\ MirrorPlaced
  BY DEF Init, MirrorPlaced
<1>4. catalog \in [Shards -> Stored \cup {None}] /\ Sound(catalog, files)
  BY Nothing DEF Init, Sound, Records
<1>5. ASSUME NEW p \in Procs
      PROVE  Onward(p) /\ pc[p] = "idle" /\ job[p] \in JobType
  <2>1. pc[p] = "idle" /\ job[p] = NoJob
    BY DEF Init
  <2> QED
    BY <2>1, Nothing DEF Onward, KindAt, Asked
<1>6. TypeOK
  BY <1>1, <1>2, <1>3, <1>4, <1>5, NoneAssumption, MovesAssumption DEF TypeOK, Init, PCs
<1> QED
  BY <1>2, <1>3, <1>4, <1>5, <1>6 DEF Base

\* The second one as well.
LEMMA InitAgreement == ASSUME Init, FlatHistory PROVE Agreement
<1>1. \A p \in Procs : pc[p] = "idle" /\ job[p] = NoJob
  BY DEF Init
<1>2. \A p \in Procs : Agrees(p) /\ Flat(job[p].now)
  BY <1>1, Nothing DEF Agrees, Uniform, Exact, Evident, Admitted, Fresh, Ahead, Flat, NoShards
<1>3. Matched
  BY DEF Init, Matched, SliceOf, RowsIn, NoRows, NoShards
<1>4. ASSUME target = 0 PROVE Flat(files) /\ Flat(catalog)
  <2>1. DepthsOf[target] = {0} /\ 0 \in Levels
    BY <1>4, FlatShard DEF Init, FlatHistory
  <2>2. Flat(NoShards)
    BY DEF Flat, NoShards
  <2>3. ASSUME NEW m \in Rows, files = Layout(m, 0) PROVE Flat(files)
    BY <2>1, <2>3, LayoutFits DEF Flat
  <2> QED
    BY <2>1, <2>2, <2>3 DEF Init
<1> QED
  BY <1>2, <1>3, <1>4 DEF Agreement, OnlyFlat

\* Nothing happens.
LEMMA StutterStep ==
  ASSUME Base, UNCHANGED vars PROVE Base' /\ (Agreement => Agreement')
<1>1. \A q \in Procs : Undisturbed(q) /\ job'[q] = job[q]
  BY DEF vars, Undisturbed, SameRequest, SameRecord
<1>2. Base'
  <2>1. \A q \in Procs : Onward(q)'
    BY <1>1, OnwardStays DEF Base, Onward, vars
  <2> QED
    BY <2>1 DEF Base, vars, TypeOK, FilesPlaced, MirrorPlaced
<1>3. Agreement => Agreement'
  <2>1. Agreement => \A q \in Procs : Agrees(q)'
    BY <1>1, AgreesStays DEF Base, Agreement
  <2> QED
    BY <2>1 DEF Agreement, vars, OnlyFlat, Matched
<1> QED
  BY <1>2, <1>3

\* Each action keeps each invariant.
LEMMA NextStep ==
  ASSUME Base, [Next]_vars PROVE Base' /\ (FlatHistory /\ Agreement => Agreement')
<1>1. CASE Git
  BY <1>1, GitStep
<1>2. ASSUME NEW p \in Procs, Opening(p) PROVE Base' /\ (Agreement => Agreement')
  BY <1>2, OpenAddStep, OpenEditStep, OpenSyncStep DEF Opening
<1>3. ASSUME NEW p \in Procs, Observing(p) PROVE Base' /\ (Agreement => Agreement')
  BY <1>3, ObserveStep, EndCaptureStep, ApplyRefreshStep, RevalidateStep, IntoMutationStep,
     RecheckedStep DEF Observing
<1>4. ASSUME NEW p \in Procs, Publishing(p) PROVE Base' /\ (Agreement => Agreement')
  BY <1>4, BeginPublishStep, NothingToDoStep, PublishCompleteStep, PublishFlatStep,
     DropShardStep, PublishShardStep, CommitStep, EndReconcileStep DEF Publishing
<1>5. ASSUME NEW p \in Procs, Abort(p) PROVE Base' /\ (Agreement => Agreement')
  BY <1>5, AbortStep
<1>6. CASE UNCHANGED vars
  BY <1>6, StutterStep
<1> QED
  BY <1>1, <1>2, <1>3, <1>4, <1>5, <1>6 DEF Next

\* The first invariant holds throughout.
LEMMA BaseHolds == Spec => []Base
<1>1. Init => Base
  BY InitBase
<1>2. Base /\ [Next]_vars => Base'
  BY NextStep
<1> QED
  BY <1>1, <1>2, PTL DEF Spec

\* Every variable keeps its type, and the process at work with the lock is the
\* one that owns it: acquire_repository keeps two commands from publishing.
THEOREM TypeCorrect == Spec => []TypeOK
<1>1. Base => TypeOK
  BY DEF Base
<1> QED
  BY <1>1, BaseHolds, PTL

\* A stat proof that still matches vouches for the bytes on disk, wherever it
\* is kept and whoever rewrote the file: in the catalog of the database, in the
\* one a session carries, and in the evidence of an unfinished publication.
THEOREM ProofsAreHonest == Spec => []ProofHonest
<1>1. Base => ProofHonest
  BY DEF Base, Onward, Sound, ProofHonest
<1> QED
  BY <1>1, BaseHolds, PTL

\* Both do where a flat gat.lock has a flat history.
LEMMA AgreementHolds == ASSUME FlatHistory PROVE Spec => [](Base /\ Agreement)
<1>1. Init => Base /\ Agreement
  BY InitBase, InitAgreement
<1>2. Base /\ Agreement /\ [Next]_vars => (Base /\ Agreement)'
  BY NextStep
<1> QED
  BY <1>1, <1>2, PTL DEF Spec

\* The rows of table `state` are those the recorded identities stand for, as
\* refresh_desired_state_inner takes for granted of the shards it skips.
THEOREM MirrorIsRecorded == FlatHistory => (Spec => []MirrorMatchesCatalog)
<1> SUFFICES ASSUME FlatHistory PROVE Spec => []MirrorMatchesCatalog
  OBVIOUS
<1>1. Agreement => MirrorMatchesCatalog
  BY DEF Agreement, Matched, MirrorMatchesCatalog, SliceOf, RowsIn
<1> QED
  BY <1>1, AgreementHolds, PTL

\* A captured revision that agrees with the mirror merges to its rows.
LEMMA SeenMerge ==
  ASSUME Base, NEW p \in Procs, \A s \in Shards : SliceOf(mirror, s) = RowsIn(job[p].seen[s])
  PROVE  MirrorRows = Merged(Identity(job[p].seen))
<1> DEFINE c == Identity(job[p].seen)
<1>1. job[p].seen \in Records
  BY SoundRecords DEF Base, Onward
<1>2. /\ c \in [Shards -> Rows \cup {None}]
      /\ \A s \in Shards : FileRows(c[s]) = RowsIn(job[p].seen[s])
  BY <1>1, NoValueAssumption DEF Identity, Records, Stored, FileRows, RowsIn
<1> HIDE DEF c
<1>3. MirrorRows = Merged(c)
  BY <1>2, SlicesMerge DEF Base
<1> QED
  BY <1>3 DEF c

\* acquire_mutation_access admits a sync to reconcile only what it captured.
THEOREM SyncIsCurrent == FlatHistory => (Spec => []AdmittedRowsCurrent)
<1> SUFFICES ASSUME FlatHistory PROVE Spec => []AdmittedRowsCurrent
  OBVIOUS
<1>1. Base /\ Agreement => AdmittedRowsCurrent
  BY SeenMerge DEF Agreement, Agrees, Admitted, AdmittedRowsCurrent
<1> QED
  BY <1>1, AgreementHolds, PTL

\* gat rm, gat mv and gat sync work on gat.lock as it is while git keeps out.
THEOREM MirrorIsFresh == FlatHistory => (Spec => []MirrorFresh)
<1> SUFFICES ASSUME FlatHistory PROVE Spec => []MirrorFresh
  OBVIOUS
<1>1. Base /\ Agreement => MirrorFresh
  <2> SUFFICES ASSUME Base, Agreement, NEW p \in Procs, Fresh(p),
                      pc[p] \in {"ready", "reconcile"}, job[p].kind # "add", job[p].quiet
               PROVE  MirrorRows = LiveRows
    BY DEF MirrorFresh, Agreement, Agrees
  <2>1. files \in [Shards -> Rows \cup {None}]
    BY DEF Base, TypeOK
  <2> QED
    BY <2>1, SlicesMerge DEF Base, Fresh, LiveRows
<1> QED
  BY <1>1, AgreementHolds, PTL

\* The shard files in the middle of a publication have the rows of the mirror,
\* but for the paths the publication is about.
OthersSpared ==
  \A p \in Procs :
    pc[p] = "publish" /\ job[p].kind \in {"rm", "mv"} /\ job[p].quiet =>
      \A x \in Paths \ {job[p].from, job[p].to} :
        LiveRows[x] = IF mirror[x] = None THEN None ELSE mirror[x].oid

\* During an edit, gat.lock and the mirror agree on all other paths.
LEMMA OthersAhead ==
  ASSUME Base, NEW p \in Procs, pc[p] = "publish", job[p].kind \in {"rm", "mv"},
         AheadBy(job[p]), Evidence(job[p]),
         NEW x \in Paths \ {job[p].from, job[p].to}
  PROVE  LiveRows[x] = IF mirror[x] = None THEN None ELSE mirror[x].oid
<1> DEFINE j == job[p]
<1>1. /\ j \in JobType /\ Asked(j) /\ Underway(j) /\ mirror \in [Paths -> Row \cup {None}]
      /\ files \in [Shards -> Rows \cup {None}]
  BY DEF Base, TypeOK, Onward
<1>2. After(j)[x] = mirror[x]
  BY AfterOthers
<1> HIDE DEF j
<1>3. CASE j.inc
  <2>1. Mirrored(j)[x] = mirror[x]
    BY <1>2, <1>3 DEF Mirrored
  <2>2. \A s \in Shards : FileRows(files[s])[x] = SliceOf(mirror, s)[x]
    <3>1. ASSUME NEW s \in Shards PROVE FileRows(files[s])[x] = SliceOf(mirror, s)[x]
      <4>1. FileRows(files[s]) \in {SliceOf(Mirrored(j), s), SliceOf(mirror, s)}
        BY DEF AheadBy, j
      <4>2. SliceOf(Mirrored(j), s)[x] = SliceOf(mirror, s)[x]
        BY <2>1 DEF SliceOf
      <4> QED
        BY <4>1, <4>2
    <3> QED
      BY <3>1
  <2> QED
    BY <1>1, <2>2, MergedAt DEF LiveRows
<1>4. CASE ~j.inc
  <2>1. AfterRows(j)[x] = IF mirror[x] = None THEN None ELSE mirror[x].oid
    BY <1>2 DEF AfterRows
  <2>2. j.touched = Shards
    BY <1>1, <1>4 DEF Underway, Scope
  <2>3. CASE j.todo = {}
    <3>1. Mirrored(j) \in [Paths -> Row \cup {None}]
      BY <1>1, AfterTyped DEF Base, Underway, j
    <3>2. \A s \in Shards : FileRows(files[s])[x] = SliceOf(Mirrored(j), s)[x]
      BY <2>2, <2>3 DEF AheadBy, j
    <3>3. LiveRows[x] = IF Mirrored(j)[x] = None THEN None ELSE Mirrored(j)[x].oid
      BY <1>1, <3>1, <3>2, MergedAt DEF LiveRows
    <3>4. Mirrored(j)[x] = IF AfterRows(j)[x] = None THEN None
                           ELSE [oid |-> AfterRows(j)[x], shard |-> ShardOf[target][x]]
      BY <1>4 DEF Mirrored
    <3>5. [oid |-> AfterRows(j)[x], shard |-> ShardOf[target][x]].oid = AfterRows(j)[x]
      OBVIOUS
    <3>6. AfterRows(j)[x] # None => Mirrored(j)[x] # None
      <4>1. AfterRows(j)[x] # None =>
              [oid |-> AfterRows(j)[x], shard |-> ShardOf[target][x]] \in Row
        BY <1>1, <2>1, FlatShard DEF Base, TypeOK, Row
      <4> QED
        BY <3>4, <4>1, NoValueAssumption
    <3> QED
      BY <2>1, <3>3, <3>4, <3>5, <3>6
  <2>4. CASE j.todo # {}
    <3>1. j.todo = Shards
      BY <1>4, <2>4 DEF Evidence, j
    <3>2. \A s \in Shards : FileRows(files[s])[x] = SliceOf(mirror, s)[x]
      BY <3>1 DEF AheadBy, j
    <3> QED
      BY <1>1, <3>2, MergedAt DEF LiveRows
  <2> QED
    BY <2>3, <2>4
<1> QED
  BY <1>3, <1>4

\* While git keeps out, gat.lock is written by the publication of the owner.
LEMMA WhoWrites ==
  ASSUME Base, [Next]_vars, NEW p \in Procs, owner = p, files' # files, moves' = moves
  PROVE  /\ pc'[p] = pc[p] /\ mirror' = mirror /\ target' = target
         /\ SameRequest(job'[p], job[p]) /\ job'[p].quiet = job[p].quiet
<1> DEFINE Writes(q) == \/ PublishComplete(q) \/ PublishFlat(q)
                        \/ \E s \in Shards : DropShard(q, s) \/ PublishShard(q, s)
<1>1. ~Git
  <2>1. ASSUME NEW new, GitWrites(new) PROVE FALSE
    <3>1. moves' = moves + 1
      BY <2>1 DEF GitWrites
    <3>2. moves \in 0..GitMoves
      BY DEF Base, TypeOK
    <3> QED
      BY <3>1, <3>2, MovesAssumption
  <2> QED
    BY <2>1 DEF Git, GitWrite, GitCheckout
<1>2. PICK q \in Procs : Opening(q) \/ Observing(q) \/ Publishing(q) \/ Abort(q)
  BY <1>1 DEF Next, vars
<1>3. ~Opening(q)
  BY DEF Opening, OpenAdd, OpenEdit, OpenSync
<1>4. ~Observing(q)
  BY DEF Observing, Observe, EndCapture, ApplyRefresh, Revalidate, IntoMutation, Rechecked
<1>5. ~Abort(q)
  BY DEF Abort
<1>6. Writes(q)
  BY <1>2, <1>3, <1>4, <1>5 DEF Publishing, BeginPublish, NothingToDo, Commit, EndReconcile
<1>7. pc[q] = "publish"
  BY <1>6 DEF PublishComplete, PublishFlat, DropShard, PublishShard
<1>8. q = p
  BY <1>7, Owning DEF Base, Locked
<1>9. UNCHANGED <<mirror, pc, target>>
  BY <1>6 DEF PublishComplete, PublishFlat, DropShard, PublishShard
<1>10. PICK S, t, n : Rewrite(p, S, [job[p] EXCEPT !.todo = t, !.now = n])
  <2>1. job[p] \in JobType
    BY DEF Base, TypeOK
  <2>2. CASE PublishComplete(p)
    BY <2>2 DEF PublishComplete
  <2>3. CASE PublishFlat(p)
    <3>1. PICK s : Rewrite(p, Shards, [job[p] EXCEPT !.todo = {}, !.now[s] =
                     IF AfterRows(job[p]) = NoRows THEN None
                     ELSE [rows |-> AfterRows(job[p]), proof |-> TRUE]])
      BY <2>3 DEF PublishFlat
    <3> DEFINE n == [job[p].now EXCEPT ![s] = IF AfterRows(job[p]) = NoRows THEN None
                                              ELSE [rows |-> AfterRows(job[p]), proof |-> TRUE]]
    <3>2. Rewrite(p, Shards, [job[p] EXCEPT !.todo = {}, !.now = n])
      BY <2>1, <3>1 DEF JobType
    <3> HIDE DEF n
    <3> QED
      BY <3>2
  <2>4. ASSUME NEW s \in Shards, DropShard(p, s)
        PROVE  Rewrite(p, {s}, [job[p] EXCEPT !.todo = job[p].todo \ {s}, !.now = job[p].now])
    <3>1. Rewrite(p, {s}, [job[p] EXCEPT !.todo = @ \ {s}])
      BY <2>4 DEF DropShard
    <3>2. [job[p] EXCEPT !.todo = @ \ {s}]
            = [job[p] EXCEPT !.todo = job[p].todo \ {s}, !.now = job[p].now]
      BY <2>1 DEF JobType
    <3> QED
      BY <3>1, <3>2
  <2>5. ASSUME NEW s \in Shards, PublishShard(p, s)
        PROVE  Rewrite(p, {s}, [job[p] EXCEPT !.todo = job[p].todo \ {s},
                 !.now = [job[p].now EXCEPT ![s] = [rows |-> ShardRows(job[p], s), proof |-> TRUE]]])
    <3>1. Rewrite(p, {s}, [job[p] EXCEPT !.todo = @ \ {s},
                             !.now[s] = [rows |-> ShardRows(job[p], s), proof |-> TRUE]])
      BY <2>5 DEF PublishShard
    <3> QED
      BY <2>1, <3>1 DEF JobType
  <2> QED
    BY <1>6, <1>8, <2>2, <2>3, <2>4, <2>5
<1>11. job'[p] = [[job[p] EXCEPT !.todo = t, !.now = n] EXCEPT !.seen = Unproven(@, S)]
  BY <1>10 DEF Rewrite
<1> QED
  BY <1>9, <1>11 DEF Base, TypeOK, JobType, SameRequest

\* A publication takes no other path's entry back to what it was: what another
\* command published since the mirror was filled stays in gat.lock.
THEOREM EditsKeepOthers == FlatHistory => (Spec => EditKeepsOthers)
<1> SUFFICES ASSUME FlatHistory PROVE Spec => EditKeepsOthers
  OBVIOUS
<1>1. Base /\ Agreement => OthersSpared
  BY OthersAhead DEF OthersSpared, Agreement, Agrees, Ahead, Evident
<1>2. Base /\ [Next]_vars /\ OthersSpared /\ OthersSpared' => OthersKept
  <2> SUFFICES ASSUME Base, [Next]_vars, OthersSpared, OthersSpared',
                      NEW p \in Procs, pc[p] = "publish",
                      job[p].kind \in {"rm", "mv"}, job[p].quiet, files' # files, moves' = moves,
                      NEW x \in Paths \ {job[p].from, job[p].to}
               PROVE  LiveRows'[x] = LiveRows[x]
    BY DEF OthersKept
  <2>1. owner = p
    BY Owning DEF Base, Locked
  <2>2. /\ pc'[p] = "publish" /\ mirror' = mirror
        /\ SameRequest(job'[p], job[p]) /\ job'[p].quiet
    BY <2>1, WhoWrites
  <2>3. LiveRows[x] = IF mirror[x] = None THEN None ELSE mirror[x].oid
    BY DEF OthersSpared
  <2>4. LiveRows'[x] = IF mirror'[x] = None THEN None ELSE mirror'[x].oid
    BY <2>2 DEF OthersSpared, SameRequest
  <2> QED
    BY <2>2, <2>3, <2>4
<1>3. Base /\ [Next]_vars /\ OthersSpared /\ OthersSpared' => [OthersKept]_vars
  BY <1>2
<1> QED
  BY <1>1, <1>3, AgreementHolds, PTL DEF Spec, EditKeepsOthers

=============================================================================
