---------------------- MODULE GarbageCollectionProofs ----------------------
(***************************************************************************)
(* Proofs about GarbageCollection, for every set of paths, objects, shards *)
(* and repositories and every bound: a collection that takes no lock       *)
(* deletes no object of a row that no command touched since it started,    *)
(* unless a reshape overtook its listing, nor what a commit or another     *)
(* repository names, nor anything in a dry run.                            *)
(***************************************************************************)
EXTENDS GarbageCollection, TLAPS

-----------------------------------------------------------------------------
(* The inductive invariant.                                                *)

\* What the files hold beside the rows of the last command, and what is at the
\* live path: it is missing with rows in the files only inside a reshape.
Editing ==
  /\ editor.at # "publish" => disk = lock
  /\ editor.at = "publish" =>
       /\ \A p \in Paths : disk[p] \in {lock[p], editor.want[p]}
       /\ \A p \in Paths : disk[p] = editor.want[p] \/ \E f \in editor.todo : p \in Holds(f)
       /\ editor.shape = "flat" => editor.todo \subseteq {Flat}
       /\ editor.shape = "sharded" => editor.todo \subseteq Slots /\ live = "sharded"
  /\ editor.at \in {"prepared", "moved", "promoted"} => record /\ editor.want = lock
  /\ editor.at = "promoted" => live # "missing"
  /\ live = "missing" => disk = NoRows \/ (editor.at \in {"moved", "dead"} /\ record)

\* A path no command touched has the row it had when the collection started.
Fixed(p) ==
  /\ lock[p] = start.rows[p]
  /\ editor.at = "publish" => editor.want[p] = start.rows[p]

Steady == phase # "start" => \A p \in Paths \ touched : Fixed(p)

\* The untouched paths that have a row.
Owed == {p \in Paths \ touched : start.rows[p] # NoOid}

\* Phases behind the reading of the lock, in which objects may still be deleted.
PastReading == phase \in {"others", "sweep", "inventory", "delete"} \/ removed # {}

\* What is owed is in the keep set, or still to be found or read.
Listed ==
  listing.overtaken \/
    /\ phase = "relist" /\ live = "missing" => disk = NoRows
    /\ phase = "scan" => /\ listing.dir = "live"
                         /\ \A p \in Owed : SlotOf[p] \in listing.todo \cup listing.found
    /\ phase = "read" => \A p \in Owed : \/ start.rows[p] \in keep
                                         \/ \E f \in listing.found : p \in Holds(f)
    /\ PastReading => \A p \in Owed : start.rows[p] \in keep

\* The commits are in the keep set once the history is marked.
Traced ==
  /\ phase # "start" => start.past \subseteq past
  /\ options.history /\ (phase \notin {"start", "history", "done", "failed"} \/ removed # {}) =>
       start.past \ (IF shallow THEN Hidden ELSE {}) \subseteq keep

\* What a repository names is in the keep set once it is inspected.
Merged ==
  /\ phase \in {"start", "history"} => pending = Repos
  /\ phase \in {"sweep", "inventory", "delete"} \/ removed # {} => pending = {}
  /\ \A r \in Repos : r \in pending \/ r \in issues \/ RepoOids[r] \subseteq keep

\* Nothing kept is deleted, or about to be, and nothing before the marks are in.
Spared ==
  /\ removed # {} => phase \in {"sweep", "delete", "done", "failed"}
  /\ candidates # {} => phase \in {"inventory", "delete", "done", "failed"}
  /\ (removed \cup candidates) \cap keep = {}
  /\ phase = "delete" \/ removed # {} => ~options.dry_run /\ ~Uncertain

IInv == TypeOK /\ Editing /\ Steady /\ Listed /\ Traced /\ Merged /\ Spared

-----------------------------------------------------------------------------
(* What the actions leave alone, and what the helpers return. *)

\* Objects named by rows are objects.
LEMMA RowSets ==
  /\ NoRows \in Rows
  /\ \A rows \in Rows : Named(rows) \subseteq Oids
  /\ TypeOK => \A f \in Slots \cup {Flat} : RowsOf(f) \subseteq Oids
BY DEF Rows, NoRows, Named, RowsOf, TypeOK, Holds

\* What a command may publish is a set of rows.
LEMMA EditsTyped == ASSUME TypeOK PROVE Edits \subseteq Rows
BY GcAssumption DEF TypeOK, Edits, Rows

\* A path is in the flat lock and in its shard.
LEMMA PathOfFlat == \A p \in Paths : p \in Holds(Flat) /\ p \in Holds(SlotOf[p])
BY GcAssumption DEF Holds

\* Whoever edits gat.lock leaves the collection alone, but for its listing.
MarksStay ==
  /\ UNCHANGED <<options, shallow, cancelled, phase, keep, pending, issues,
                 unswept, candidates, failed, removed, start>>
  /\ UNCHANGED listing \/ MoveAside \/ CleanUp
  /\ touched \subseteq touched'
  /\ past \subseteq past'

\* Commands and commits leave the collector's marks alone.
LEMMA EditsAside == ASSUME Edit \/ Die \/ Commit PROVE MarksStay
<1> USE DEF MarksStay
<1>1. CASE Edit
  <2>1. ASSUME NEW rows, NEW shape, BeginEdit(rows, shape) PROVE MarksStay
    BY <2>1 DEF BeginEdit, marking
  <2>2. CASE PublishFlat
    BY <2>2 DEF PublishFlat, Publish, marking, ghosts
  <2>3. ASSUME NEW s, RemoveEmptied(s) \/ WriteShard(s) PROVE MarksStay
    BY <2>3 DEF RemoveEmptied, WriteShard, Publish, marking, ghosts
  <2>4. CASE FinishEdit
    BY <2>4 DEF FinishEdit, marking
  <2>5. CASE PrepareReshape \/ Promote
    BY <2>5 DEF PrepareReshape, Promote, marking, ghosts
  <2>6. CASE MoveAside \/ CleanUp
    BY <2>6 DEF MoveAside, CleanUp, ghosts
  <2> QED
    BY <1>1, <2>1, <2>2, <2>3, <2>4, <2>5, <2>6 DEF Edit
<1>2. CASE Die
  BY <1>2 DEF Die, marking
<1>3. CASE Commit
  BY <1>3 DEF Commit, editing, marking, ghosts
<1> QED
  BY <1>1, <1>2, <1>3

\* The collection leaves gat.lock and the commits alone.
LockStays ==
  /\ UNCHANGED <<live, disk, record, lock, editor, edits, reshapes, past, options, shallow>>
  /\ Start \/ UNCHANGED <<start, touched>>

\* The collector leaves the lock and its histories alone.
LEMMA CollectsAside == ASSUME Collect \/ Interrupt PROVE LockStays
<1> USE DEF LockStays
<1>1. CASE Start
  BY <1>1 DEF Start, editing
<1>2. CASE Gc(Mark) \/ Gc(SweepEnds) \/ Gc(InventoryEnds) \/ Gc(DeletionEnds)
  BY <1>2 DEF Gc, editing, ghosts
<1>3. ASSUME NEW o, Sweep(o) \/ Gc(Inventory(o)) PROVE LockStays
  BY <1>3 DEF Sweep, Gc, editing, ghosts
<1>4. ASSUME NEW w, DeleteWindow(w) PROVE LockStays
  BY <1>4 DEF DeleteWindow, editing
<1>5. CASE Interrupt
  BY <1>5 DEF Interrupt, editing, ghosts
<1> QED
  BY <1>1, <1>2, <1>3, <1>4, <1>5 DEF Collect

\* One shard published: its paths get the rows of the command.
LEMMA Published ==
  ASSUME TypeOK, NEW f \in Slots \cup {Flat}, Publish(f)
  PROVE  /\ disk' \in Rows
         /\ \A p \in Paths : disk'[p] = IF p \in Holds(f) THEN editor.want[p] ELSE disk[p]
         /\ editor' = [editor EXCEPT !.todo = editor.todo \ {f}]
         /\ editor'.at = editor.at /\ editor'.want = editor.want
         /\ editor'.shape = editor.shape /\ editor'.todo = editor.todo \ {f}
BY DEF Publish, TypeOK, Rows

-----------------------------------------------------------------------------
(* The types.                                                              *)

EditorType ==
  [at : {"idle", "publish", "prepared", "moved", "promoted", "dead"}, want : Rows,
   todo : SUBSET (Slots \cup {Flat}), shape : {"flat", "sharded"}]

ListingType ==
  [dir : {"none", "live", "moved", "removed"}, todo : SUBSET Slots,
   found : SUBSET (Slots \cup {Flat}), overtaken : BOOLEAN]

\* What every step of an editor leaves to be shown of the types.
LEMMA TypeFrame ==
  ASSUME TypeOK, MarksStay, UNCHANGED <<start, shallow, cancelled>>,
         live' \in {"missing", "flat", "sharded"}, disk' \in Rows, lock' \in Rows,
         record' \in BOOLEAN, past' \subseteq Oids, editor' \in EditorType,
         edits' \in 0..MaxEdits, reshapes' \in 0..MaxReshapes, listing' \in ListingType,
         store' \subseteq Oids, touched' \subseteq Paths, named' \subseteq Oids
  PROVE  TypeOK'
BY DEF TypeOK, MarksStay, EditorType, ListingType

\* Types through the steps of a command.
LEMMA EditType ==
  ASSUME TypeOK, Edit \/ Die \/ Commit
  PROVE  TypeOK'
<1> USE GcAssumption
<1>0. MarksStay
  BY EditsAside
<1>e. editor \in EditorType /\ listing \in ListingType
  BY DEF TypeOK, EditorType, ListingType
<1>1. ASSUME NEW rows \in Edits, NEW shape \in {"flat", "sharded"}, BeginEdit(rows, shape)
      PROVE  TypeOK'
  <2>1. rows \in Rows
    BY EditsTyped
  <2>2. editor' \in EditorType
    <3>1. {SlotOf[p] : p \in Changed(rows)} \subseteq Slots
      BY DEF Changed
    <3> QED
      BY <1>1, <2>1, <3>1 DEF BeginEdit, EditorType
  <2>3. store' \subseteq Oids /\ touched' \subseteq Paths
    BY <1>1, <2>1, RowSets DEF BeginEdit, TypeOK, Changed
  <2>4. edits' \in 0..MaxEdits
    BY <1>1 DEF BeginEdit, TypeOK
  <2> QED
    BY <1>0, <1>1, <1>e, <2>2, <2>3, <2>4, TypeFrame DEF BeginEdit, TypeOK, marking
<1>2. ASSUME NEW f \in Slots \cup {Flat}, Publish(f), live' \in {"missing", "flat", "sharded"}
      PROVE  TypeOK'
  <2>1. disk' \in Rows /\ editor' = [editor EXCEPT !.todo = editor.todo \ {f}]
    BY <1>2, Published
  <2>2. editor' \in EditorType
    BY <1>e, <2>1 DEF EditorType
  <2> QED
    BY <1>0, <1>2, <1>e, <2>1, <2>2, TypeFrame DEF Publish, TypeOK, marking, ghosts
<1>3. CASE FinishEdit \/ Die
  <2>1. editor' \in EditorType
    BY <1>3, <1>e, RowSets DEF FinishEdit, Die, Idle, EditorType
  <2>2. lock' \in Rows /\ named' \subseteq Oids
    BY <1>3, <1>e DEF FinishEdit, Die, EditorType, TypeOK
  <2> QED
    BY <1>0, <1>3, <1>e, <2>1, <2>2, TypeFrame DEF FinishEdit, Die, TypeOK, marking
<1>4. CASE PrepareReshape \/ Promote
  <2>1. editor' \in EditorType
    BY <1>4, <1>e DEF PrepareReshape, Promote, EditorType, Other, TypeOK
  <2>2. live' \in {"missing", "flat", "sharded"} /\ reshapes' \in 0..MaxReshapes
    BY <1>4, <1>e DEF PrepareReshape, Promote, EditorType, TypeOK
  <2> QED
    BY <1>0, <1>4, <1>e, <2>1, <2>2, TypeFrame DEF PrepareReshape, Promote, TypeOK, marking, ghosts
<1>5. CASE MoveAside
  <2>1. editor' \in EditorType
    BY <1>5, <1>e DEF MoveAside, EditorType
  <2>2. listing' \in ListingType
    BY <1>5, <1>e DEF MoveAside, ListingType
  <2> QED
    BY <1>0, <1>5, <2>1, <2>2, TypeFrame DEF MoveAside, TypeOK, ghosts
<1>6. CASE CleanUp
  <2>1. editor' \in EditorType
    BY <1>6, RowSets DEF CleanUp, Idle, EditorType
  <2>2. listing' \in ListingType
    BY <1>6, <1>e DEF CleanUp, ListingType
  <2> QED
    BY <1>0, <1>6, <2>1, <2>2, TypeFrame DEF CleanUp, TypeOK, ghosts
<1>7. CASE Commit
  <2>1. past' \subseteq Oids
    BY <1>7, RowSets DEF Commit, TypeOK
  <2> QED
    BY <1>0, <1>7, <1>e, <2>1, TypeFrame DEF Commit, TypeOK, editing, marking, ghosts
<1> QED
  <2>1. ASSUME PublishFlat PROVE TypeOK'
    BY <2>1, <1>2 DEF PublishFlat
  <2>2. ASSUME NEW s \in Slots, RemoveEmptied(s) \/ WriteShard(s) PROVE TypeOK'
    BY <2>2, <1>2 DEF RemoveEmptied, WriteShard, TypeOK
  <2> QED
    BY <1>1, <1>3, <1>4, <1>5, <1>6, <1>7, <2>1, <2>2 DEF Edit

\* What every step of the marking leaves to be shown of the types.
LEMMA MarkFrame ==
  ASSUME TypeOK, UNCHANGED <<editing, past, options, shallow, cancelled, store, ghosts>>,
         phase' \in Phases, listing' \in ListingType, keep' \subseteq Oids,
         pending' \subseteq Repos, issues' \subseteq Repos, unswept' \subseteq Oids,
         candidates' \subseteq Oids, failed' \in BOOLEAN
  PROVE  TypeOK'
BY DEF TypeOK, ListingType, editing, ghosts

\* Types through the marking.
LEMMA MarkType ==
  ASSUME TypeOK, Gc(Mark)
  PROVE  TypeOK'
<1> USE GcAssumption
<1>0. /\ UNCHANGED <<editing, past, options, shallow, cancelled, store, ghosts>>
      /\ Mark
      /\ phase \in Phases /\ listing \in ListingType /\ keep \subseteq Oids
      /\ pending \subseteq Repos /\ issues \subseteq Repos /\ unswept \subseteq Oids
      /\ candidates \subseteq Oids /\ failed \in BOOLEAN /\ store \subseteq Oids
      /\ past \subseteq Oids
  BY DEF Gc, TypeOK, ListingType
<1>1. CASE MarkHistory \/ MarkFails \/ Check \/ MarkEnds \/ KeepSetReady
  BY <1>0, <1>1, MarkFrame
     DEF MarkHistory, MarkFails, Check, MarkEnds, KeepSetReady, Fail, Phases
<1>2. ASSUME NEW missing \in {"check", "read"}, Observe(missing) PROVE TypeOK'
  <2>1. listing' \in ListingType
    BY <1>0, <1>2 DEF Observe, NoListing, ListingType
  <2>2. phase' \in Phases
    BY <1>2 DEF Observe, Phases
  <2> QED
    BY <1>0, <1>2, <2>1, <2>2, MarkFrame DEF Observe
<1>3. ASSUME NEW s \in Slots, Scan(s) PROVE TypeOK'
  <2>1. listing' \in ListingType
    BY <1>0, <1>3 DEF Scan, ListingType
  <2> QED
    BY <1>0, <1>3, <2>1, MarkFrame DEF Scan, Phases
<1>4. ASSUME NEW f \in Slots \cup {Flat}, Read(f) PROVE TypeOK'
  <2>1. CASE Fail
    BY <1>0, <2>1, MarkFrame DEF Fail, Phases
  <2>2. CASE ~Fail
    <3>1. listing' \in ListingType
      BY <1>0, <1>4, <2>2 DEF Read, ListingType
    <3>2. keep' \subseteq Oids
      BY <1>0, <1>4, <2>2, RowSets DEF Read
    <3> QED
      BY <1>0, <1>4, <2>2, <3>1, <3>2, MarkFrame DEF Read
  <2> QED
    BY <2>1, <2>2
<1>5. ASSUME NEW r \in Repos, Inspect(r) PROVE TypeOK'
  <2>1. RepoOids[r] \subseteq Oids
    OBVIOUS
  <2> QED
    BY <1>0, <1>5, <2>1, MarkFrame DEF Inspect
<1> QED
  BY <1>0, <1>1, <1>2, <1>3, <1>4, <1>5 DEF Mark, List, Relist

\* Types through a collection.
LEMMA CollectType ==
  ASSUME TypeOK, Collect \/ Interrupt
  PROVE  TypeOK'
<1>1. CASE Start
  BY <1>1, RowSets DEF Start, Fail, TypeOK, Changed, Reachable, editing, Phases
<1>2. CASE Gc(Mark)
  BY <1>2, MarkType
<1>3. ASSUME NEW o \in Oids, Sweep(o) PROVE TypeOK'
  <2>1. store' \subseteq Oids /\ removed' \subseteq Oids /\ unswept' \subseteq Oids
    BY <1>3 DEF Sweep, Delete, TypeOK
  <2>2. failed' \in BOOLEAN
    BY <1>3 DEF Sweep, TypeOK
  <2> QED
    BY <1>3, <2>1, <2>2 DEF Sweep, TypeOK, editing
<1>4. ASSUME NEW o \in Oids, Gc(Inventory(o)) PROVE TypeOK'
  BY <1>4 DEF Gc, Inventory, Fail, TypeOK, ghosts, editing, Phases
<1>5. ASSUME NEW w \in SUBSET Oids, DeleteWindow(w) PROVE TypeOK'
  BY <1>5 DEF DeleteWindow, Delete, Fail, TypeOK, editing, Phases
<1>6. CASE Gc(SweepEnds) \/ Gc(InventoryEnds) \/ Gc(DeletionEnds)
  BY <1>6 DEF Gc, SweepEnds, InventoryEnds, DeletionEnds, TypeOK, ghosts, editing, Phases
<1>7. CASE Interrupt
  BY <1>7 DEF Interrupt, TypeOK, marking, ghosts, editing
<1> QED
  BY <1>1, <1>2, <1>3, <1>4, <1>5, <1>6, <1>7 DEF Collect

\* Types at the start.
LEMMA InitialType == Init => TypeOK
<1> SUFFICES ASSUME Init PROVE TypeOK
  OBVIOUS
<1>1. disk \in Rows /\ NoRows \in Rows
  BY GcAssumption DEF Init, Rows, NoRows
<1>2. listing = NoListing /\ editor = Idle
  BY DEF Init
<1>3. live \in {"missing", "flat", "sharded"} /\ shallow \in BOOLEAN
  BY DEF Init
<1>4. listing \in ListingType /\ editor \in EditorType
  BY <1>1, <1>2 DEF NoListing, ListingType, Idle, EditorType
<1>5. edits \in 0..MaxEdits /\ reshapes \in 0..MaxReshapes
  BY GcAssumption DEF Init
<1> QED
  BY <1>1, <1>3, <1>4, <1>5, GcAssumption
     DEF Init, TypeOK, ListingType, EditorType, Phases

\* Every step keeps the types.
LEMMA TypeStep == ASSUME TypeOK, [Next]_vars PROVE TypeOK'
<1>1. CASE Next
  BY <1>1, EditType, CollectType DEF Next
<1>2. CASE UNCHANGED vars
  BY <1>2 DEF vars, editing, marking, ghosts, TypeOK
<1> QED
  BY <1>1, <1>2

\* Every variable stays in the range gc.rs and persistence.rs give it.
THEOREM TypeCorrect == Spec => []TypeOK
BY InitialType, TypeStep, PTL DEF Spec

-----------------------------------------------------------------------------
(* What every step leaves of the parts of the invariant.                   *)

\* Every step keeps the command's own account.
LEMMA EditingStep ==
  ASSUME TypeOK, Editing, [Next]_vars
  PROVE  Editing'
<1> USE GcAssumption
<1>e. editor \in EditorType
  BY DEF TypeOK, EditorType
<1>1. ASSUME NEW rows \in Edits, NEW shape \in {"flat", "sharded"}, BeginEdit(rows, shape)
      PROVE  Editing'
  <2>1. rows \in Rows /\ disk = lock /\ disk \in Rows
    BY <1>1, EditsTyped DEF BeginEdit, Editing, TypeOK
  <2>2. /\ editor'.at = "publish" /\ editor'.want = rows /\ editor'.shape = shape
        /\ editor'.todo = IF shape = "flat" THEN {Flat} ELSE {SlotOf[p] : p \in Changed(rows)}
        /\ UNCHANGED <<disk, lock, record>>
    BY <1>1 DEF BeginEdit
  <2>3. \A p \in Paths : disk[p] = rows[p] \/ \E f \in editor'.todo : p \in Holds(f)
    BY <2>1, <2>2, PathOfFlat DEF Changed
  <2>4. {SlotOf[p] : p \in Changed(rows)} \subseteq Slots
    BY DEF Changed
  <2>5. /\ shape = "sharded" => live' = "sharded"
        /\ live' = "missing" => disk = NoRows
    BY <1>1 DEF BeginEdit, Editing
  <2> QED
    BY <2>1, <2>2, <2>3, <2>4, <2>5 DEF Editing, Holds
<1>2. ASSUME NEW f \in editor.todo, Publish(f), editor.at = "publish",
             live' = IF f # Flat THEN live ELSE IF Emptied(f) THEN "missing" ELSE "flat"
      PROVE  Editing'
  <2>1. /\ f \in Slots \cup {Flat} /\ disk \in Rows /\ lock \in Rows /\ editor.want \in Rows
    BY <1>e DEF EditorType, TypeOK
  <2>2. /\ disk' \in Rows
        /\ \A p \in Paths : disk'[p] = IF p \in Holds(f) THEN editor.want[p] ELSE disk[p]
        /\ editor'.at = "publish" /\ editor'.want = editor.want
        /\ editor'.shape = editor.shape /\ editor'.todo = editor.todo \ {f}
        /\ lock' = lock /\ record' = record
    BY <1>2, <2>1, Published DEF Publish
  <2>3. \A p \in Paths : disk'[p] = editor.want[p] \/ \E g \in editor'.todo : p \in Holds(g)
    BY <1>2, <2>2 DEF Editing
  <2>4. \A p \in Paths : disk'[p] \in {lock'[p], editor'.want[p]}
    BY <1>2, <2>2 DEF Editing
  <2>5. /\ editor'.shape = "flat" => editor'.todo \subseteq {Flat}
        /\ editor'.shape = "sharded" => editor'.todo \subseteq Slots /\ live' = "sharded"
    BY <1>2, <2>2 DEF Editing
  <2>6. ASSUME live' = "missing" PROVE disk' = NoRows
    <3>1. f = Flat
      BY <1>2, <1>e, <2>2, <2>6 DEF Editing, EditorType
    <3>2. \A p \in Paths : p \in Holds(f)
      BY <3>1 DEF Holds
    <3>3. Emptied(f)
      BY <1>2, <2>6, <3>1
    <3> QED
      BY <2>2, <3>2, <3>3 DEF Emptied, Rows, NoRows
  <2> QED
    BY <2>2, <2>3, <2>4, <2>5, <2>6 DEF Editing, Holds
<1>3. ASSUME PublishFlat \/ \E s \in Slots : RemoveEmptied(s) \/ WriteShard(s) PROVE Editing'
  BY <1>2, <1>3 DEF PublishFlat, RemoveEmptied, WriteShard
<1>4. CASE FinishEdit
  <2>1. \A p \in Paths : disk[p] = editor.want[p]
    BY <1>4 DEF FinishEdit, Editing
  <2>2. disk = editor.want
    BY <1>e, <2>1 DEF EditorType, TypeOK, Rows
  <2> QED
    BY <1>4, <2>2 DEF FinishEdit, Idle, Editing
<1>5. CASE PrepareReshape
  BY <1>5 DEF PrepareReshape, Editing
<1>6. CASE MoveAside \/ Promote
  BY <1>6, <1>e DEF MoveAside, Promote, Editing, EditorType
<1>7. CASE CleanUp
  BY <1>7 DEF CleanUp, Idle, Editing
<1>8. CASE Die
  BY <1>8, <1>e DEF Die, Editing, EditorType
<1>9. CASE Commit \/ UNCHANGED vars
  BY <1>9 DEF Commit, vars, editing, Editing
<1>10. CASE Collect \/ Interrupt
  BY <1>10, CollectsAside DEF LockStays, Editing
<1> QED
  BY <1>1, <1>3, <1>4, <1>5, <1>6, <1>7, <1>8, <1>9, <1>10 DEF Next, Edit

\* The rows on disk of an untouched path are those of the start.
LEMMA SteadyDisk ==
  ASSUME Editing, Steady, phase # "start"
  PROVE  \A p \in Paths \ touched : disk[p] = start.rows[p]
BY DEF Editing, Steady, Fixed

\* Every step keeps untouched rows where a listing finds them.
LEMMA SteadyStep ==
  ASSUME TypeOK, Editing, Steady, [Next]_vars
  PROVE  Steady'
<1>e. editor \in EditorType
  BY DEF TypeOK, EditorType
<1>1. CASE Edit \/ Die \/ Commit
  <2> SUFFICES ASSUME phase # "start", NEW p \in Paths, p \notin touched'
               PROVE  Fixed(p)'
    BY <1>1, EditsAside DEF Steady, MarksStay
  <2>f. Fixed(p)' <=> /\ lock'[p] = start'.rows[p]
                      /\ editor'.at = "publish" => editor'.want[p] = start'.rows[p]
    BY DEF Fixed
  <2>s. start' = start
    BY <1>1, EditsAside DEF MarksStay
  <2> USE <2>f, <2>s
  <2>0. /\ p \in Paths \ touched /\ lock[p] = start.rows[p] /\ disk[p] = start.rows[p]
        /\ editor.at = "publish" => editor.want[p] = start.rows[p]
    BY <1>1, EditsAside, SteadyDisk DEF Steady, Fixed, MarksStay
  <2>1. ASSUME NEW rows \in Edits, NEW shape \in {"flat", "sharded"}, BeginEdit(rows, shape)
        PROVE  Fixed(p)'
    BY <2>0, <2>1 DEF BeginEdit, Changed
  <2>2. ASSUME NEW f, Publish(f) PROVE Fixed(p)'
    BY <2>0, <2>2, <1>e DEF Publish, EditorType
  <2>3. CASE FinishEdit
    BY <2>0, <2>3 DEF FinishEdit, Idle
  <2>4. CASE PrepareReshape \/ MoveAside \/ Promote \/ CleanUp
    BY <2>0, <2>4, <1>e DEF PrepareReshape, MoveAside, Promote, CleanUp, Idle, EditorType
  <2>5. CASE Die
    BY <2>0, <2>5, <1>e DEF Die, EditorType
  <2>6. CASE Commit
    BY <2>0, <2>6 DEF Commit, editing
  <2> QED
    BY <1>1, <2>1, <2>2, <2>3, <2>4, <2>5, <2>6
       DEF Edit, PublishFlat, RemoveEmptied, WriteShard
<1>2. CASE Start
  <2>1. editor.at = "publish" => \A p \in Paths \ Changed(editor.want) : editor.want[p] = lock[p]
    BY DEF Changed
  <2> QED
    BY <1>2, <2>1 DEF Start, Steady, Fixed, editing
<1>3. CASE Collect /\ ~Start
  <2>1. phase # "start"
    BY <1>3 DEF Collect, Gc, Mark, MarkHistory, MarkFails, List, Relist, Check, MarkEnds,
         KeepSetReady, Scan, Read, Inspect, Sweep, Inventory, DeleteWindow, SweepEnds,
         InventoryEnds, DeletionEnds
  <2> QED
    BY <1>3, <2>1, CollectsAside DEF LockStays, Steady, Fixed
<1>4. CASE Interrupt \/ UNCHANGED vars
  BY <1>4 DEF Interrupt, vars, editing, marking, ghosts, Steady, Fixed
<1> QED
  BY <1>1, <1>2, <1>3, <1>4 DEF Next

\* A row on disk is among the rows of every shard that holds its path.
LEMMA RowHeld ==
  ASSUME NEW p \in Paths, NEW f, p \in Holds(f), disk[p] # NoOid
  PROVE  disk[p] \in RowsOf(f)
BY DEF RowsOf

\* No step but MoveAside and Die leaves the editor where rows may be missing.
LEMMA Vanishing ==
  ASSUME TypeOK, Edit \/ Die \/ Commit, editor'.at \in {"moved", "dead"}, ~MoveAside
  PROVE  UNCHANGED <<live, disk>>
<1>e. editor \in EditorType
  BY DEF TypeOK, EditorType
<1>1. ASSUME NEW f, Publish(f), editor.at = "publish" PROVE editor'.at = "publish"
  BY <1>1, <1>e DEF Publish, EditorType
<1>2. CASE Edit
  BY <1>1, <1>2, <1>e
     DEF Edit, BeginEdit, PublishFlat, RemoveEmptied, WriteShard, FinishEdit, Idle,
         PrepareReshape, Promote, CleanUp, EditorType
<1>3. CASE Die \/ Commit
  BY <1>3 DEF Die, Commit, editing
<1> QED
  BY <1>2, <1>3

\* What a step of the collection owes: it reads the lock as it is on disk.
LEMMA MarkListed ==
  ASSUME TypeOK, Editing, Steady, Listed, Spared, Mark, UNCHANGED <<removed, start, touched, disk, live>>
  PROVE  Listed'
<1> USE GcAssumption
<1>0. /\ listing \in ListingType /\ disk \in Rows /\ Owed' = Owed /\ Owed \subseteq Paths
      /\ start \in [rows : Rows, past : SUBSET Oids] /\ SlotOf \in [Paths -> Slots]
  BY DEF TypeOK, ListingType, Owed
<1>1. /\ phase \in {"history", "list", "check", "relist", "scan", "read", "others"}
      /\ removed = {}
  BY DEF Mark, MarkHistory, MarkFails, List, Check, Relist, Scan, Read, MarkEnds, Inspect,
         KeepSetReady, Spared
<1>2. \A p \in Owed : disk[p] = start.rows[p] /\ disk[p] # NoOid /\ p \in Paths
  BY <1>1, SteadyDisk DEF Owed
<1>3. CASE phase' \in {"failed", "list", "check"}
  BY <1>0, <1>1, <1>3 DEF Listed, PastReading
<1>o. ASSUME NEW missing, Observe(missing), live # "missing" PROVE Listed'
  <2>1. CASE live = "flat"
    <3>1. listing'.found = {Flat} /\ phase' = "read"
      BY <1>o, <2>1 DEF Observe, NoListing
    <3>2. \A p \in Owed : p \in Holds(Flat)
      BY <1>2, PathOfFlat
    <3> QED
      BY <1>0, <1>1, <3>1, <3>2 DEF Listed, PastReading
  <2>2. CASE live = "sharded"
    <3>1. listing'.todo = Slots /\ listing'.dir = "live" /\ phase' = "scan"
      BY <1>o, <2>2 DEF Observe, NoListing
    <3>2. \A p \in Owed : SlotOf[p] \in Slots
      BY <1>2
    <3> QED
      BY <1>0, <1>1, <3>1, <3>2 DEF Listed, PastReading
  <2> QED
    BY <1>o, <2>1, <2>2 DEF Observe
<1>4. CASE List
  BY <1>3, <1>4, <1>o DEF List, Observe
<1>5. CASE Check
  BY <1>0, <1>1, <1>5 DEF Check, Fail, Editing, Listed, PastReading
<1>6. CASE Relist
  <2>1. CASE live = "missing" /\ ~listing.overtaken
    <3>1. disk = NoRows
      BY <1>6, <2>1 DEF Relist, Listed
    <3>2. Owed = {}
      BY <1>2, <3>1 DEF NoRows
    <3> QED
      BY <1>0, <1>1, <1>6, <2>1, <3>2 DEF Relist, Observe, NoListing, Listed, PastReading
  <2>2. CASE live = "missing" /\ listing.overtaken
    BY <1>6, <2>2 DEF Relist, Observe, NoListing, Listed
  <2>3. CASE live # "missing"
    BY <1>6, <1>o, <2>3 DEF Relist
  <2> QED
    BY <2>1, <2>2, <2>3
<1>7. ASSUME NEW s \in Slots, Scan(s) PROVE Listed'
  <2>1. /\ listing'.todo = listing.todo \ {s} /\ listing'.dir = listing.dir
        /\ listing'.overtaken = listing.overtaken
        /\ listing'.found = IF listing.dir # "removed" /\ RowsOf(s) # {}
                            THEN listing.found \cup {s} ELSE listing.found
    BY <1>0, <1>7 DEF Scan, ListingType
  <2> SUFFICES ASSUME ~listing.overtaken PROVE Listed'
    BY <2>1 DEF Listed
  <2>2. /\ listing.dir = "live"
        /\ \A p \in Owed : SlotOf[p] \in listing.todo \cup listing.found
    BY <1>7 DEF Scan, Listed
  <2>3. \A p \in Owed : SlotOf[p] \in listing'.todo \cup listing'.found
    <3> SUFFICES ASSUME NEW p \in Owed, SlotOf[p] = s PROVE s \in listing'.found
      BY <2>1, <2>2
    <3>1. RowsOf(s) # {}
      BY <1>2, RowHeld, PathOfFlat
    <3> QED
      BY <2>1, <2>2, <3>1
  <2>4. \A p \in Owed : p \in Holds(SlotOf[p])
    BY <1>0, PathOfFlat
  <2>5. /\ phase' = IF listing.todo = {s} THEN "read" ELSE "scan"
        /\ UNCHANGED keep
    BY <1>7 DEF Scan
  <2> QED
    BY <1>0, <1>1, <1>7, <2>1, <2>2, <2>3, <2>4, <2>5 DEF Listed, PastReading
<1>8. ASSUME NEW f \in Slots \cup {Flat}, Read(f), ~Fail PROVE Listed'
  <2>1. /\ listing'.found = listing.found \ {f} /\ listing'.overtaken = listing.overtaken
        /\ keep' = keep \cup RowsOf(f) /\ phase' = "read" /\ phase = "read"
    BY <1>0, <1>8 DEF Read, ListingType
  <2>2. ASSUME ~listing.overtaken, NEW p \in Owed
        PROVE  start.rows[p] \in keep' \/ \E g \in listing'.found : p \in Holds(g)
    <3>1. start.rows[p] \in keep \/ \E g \in listing.found : p \in Holds(g)
      BY <2>1, <2>2 DEF Listed
    <3>2. p \in Holds(f) => start.rows[p] \in RowsOf(f)
      BY <1>2, RowHeld
    <3> QED
      BY <2>1, <3>1, <3>2
  <2> QED
    BY <1>0, <1>1, <2>1, <2>2 DEF Listed, PastReading
<1>9. CASE MarkEnds
  BY <1>0, <1>1, <1>9 DEF MarkEnds, Fail, Listed, PastReading
<1>10. ASSUME NEW r \in Repos, Inspect(r) PROVE Listed'
  BY <1>0, <1>1, <1>10 DEF Inspect, Listed, PastReading
<1>11. CASE KeepSetReady
  BY <1>0, <1>1, <1>11 DEF KeepSetReady, Fail, Listed, PastReading
<1>12. CASE MarkHistory \/ MarkFails \/ Fail
  BY <1>3, <1>12 DEF MarkHistory, MarkFails, Fail
<1> QED
  BY <1>4, <1>5, <1>6, <1>7, <1>8, <1>9, <1>10, <1>11, <1>12 DEF Mark

\* Every step keeps what was listed, or still is to be, complete.
LEMMA ListedStep ==
  ASSUME TypeOK, Editing, Steady, Listed, Spared, [Next]_vars
  PROVE  Listed'
<1>l. listing \in ListingType
  BY DEF TypeOK, ListingType
<1>1. CASE Edit \/ Die \/ Commit
  <2>1. UNCHANGED <<phase, keep, removed, start>> /\ Owed' \subseteq Owed
    BY <1>1, EditsAside DEF MarksStay, Owed
  <2>2. CASE MoveAside
    BY <1>l, <2>1, <2>2 DEF MoveAside, ListingType, Listed, PastReading
  <2>3. CASE CleanUp
    <3>1. /\ listing'.overtaken = listing.overtaken /\ UNCHANGED <<live, disk>>
          /\ listing'.todo = listing.todo /\ listing'.found = listing.found
          /\ listing.dir = "live" => listing'.dir = "live"
      BY <1>l, <2>3 DEF CleanUp, ListingType
    <3> QED
      BY <2>1, <3>1 DEF Listed, PastReading
  <2>4. CASE UNCHANGED listing /\ ~MoveAside
    <3>1. Editing'
      BY EditingStep
    <3>2. phase = "relist" /\ ~listing.overtaken /\ live' = "missing" => disk' = NoRows
      BY <1>1, <2>4, <3>1, Vanishing DEF Listed, Editing
    <3> QED
      BY <2>1, <2>4, <3>2 DEF Listed, PastReading
  <2> QED
    BY <1>1, <2>2, <2>3, <2>4, EditsAside DEF MarksStay
<1>2. CASE Start
  <2>1. removed' = {} /\ phase' \in {"history", "failed"}
    BY <1>2 DEF Start, Fail, Spared
  <2> QED
    BY <2>1 DEF Listed, PastReading
<1>3. CASE Gc(Mark)
  BY <1>3, MarkListed DEF Gc, editing, ghosts
<1>4. ASSUME PastReading, UNCHANGED <<listing, keep, touched, start>>,
             phase' \notin {"relist", "scan", "read"}
      PROVE  Listed'
  BY <1>4 DEF Listed, Owed
<1>5. ASSUME NEW o \in Oids, Sweep(o) PROVE Listed'
  BY <1>4, <1>5 DEF Sweep, PastReading
<1>6. ASSUME NEW o \in Oids, Gc(Inventory(o)) PROVE Listed'
  BY <1>4, <1>6 DEF Gc, Inventory, Fail, PastReading, ghosts
<1>7. ASSUME NEW w \in SUBSET Oids, DeleteWindow(w) PROVE Listed'
  BY <1>4, <1>7 DEF DeleteWindow, Fail, PastReading
<1>8. CASE Gc(SweepEnds) \/ Gc(InventoryEnds) \/ Gc(DeletionEnds)
  BY <1>4, <1>8 DEF Gc, SweepEnds, InventoryEnds, DeletionEnds, PastReading, ghosts
<1>9. CASE Interrupt \/ UNCHANGED vars
  BY <1>9 DEF Interrupt, vars, editing, marking, ghosts, Listed, Owed, PastReading
<1> QED
  BY <1>1, <1>2, <1>3, <1>5, <1>6, <1>7, <1>8, <1>9 DEF Next, Collect

\* Every step keeps the histories that were read in the keep set.
LEMMA TracedStep ==
  ASSUME TypeOK, Traced, Spared, [Next]_vars
  PROVE  Traced'
<1>1. CASE Edit \/ Die \/ Commit
  BY <1>1, EditsAside DEF MarksStay, Traced
<1>2. CASE Start
  BY <1>2 DEF Start, Fail, Traced, Spared
<1>3. CASE MarkHistory /\ UNCHANGED <<options, shallow, start, past, removed>>
  BY <1>3 DEF MarkHistory, Traced, Spared
<1>4. ASSUME UNCHANGED <<options, shallow, start, past>>, phase # "start", keep \subseteq keep',
             \/ phase' \in {"done", "failed"} /\ UNCHANGED removed
             \/ phase \notin {"history", "done", "failed"}
      PROVE  Traced'
  BY <1>4 DEF Traced
<1>5. CASE Gc(Mark) /\ ~MarkHistory
  BY <1>4, <1>5
     DEF Gc, Mark, MarkFails, Fail, List, Check, Relist, Observe, Scan, Read, MarkEnds, Inspect,
         KeepSetReady, ghosts
<1>6. ASSUME NEW o, Sweep(o) \/ Gc(Inventory(o)) PROVE Traced'
  BY <1>4, <1>6 DEF Gc, Sweep, Inventory, Fail, ghosts
<1>7. ASSUME NEW w, DeleteWindow(w) PROVE Traced'
  BY <1>4, <1>7 DEF DeleteWindow, Fail
<1>8. CASE Gc(SweepEnds) \/ Gc(InventoryEnds) \/ Gc(DeletionEnds)
  BY <1>4, <1>8 DEF Gc, SweepEnds, InventoryEnds, DeletionEnds, ghosts
<1>9. CASE Interrupt \/ UNCHANGED vars
  BY <1>9 DEF Interrupt, vars, editing, marking, ghosts, Traced
<1> QED
  BY <1>1, <1>2, <1>3, <1>5, <1>6, <1>7, <1>8, <1>9 DEF Next, Collect, Gc, ghosts

\* Every step keeps the other repositories in it, or among the issues.
LEMMA MergedStep ==
  ASSUME TypeOK, Merged, Spared, [Next]_vars
  PROVE  Merged'
<1>1. CASE Edit \/ Die \/ Commit
  BY <1>1, EditsAside DEF MarksStay, Merged
<1>2. CASE Start
  BY <1>2 DEF Start, Fail, Merged, Spared
<1>3. CASE Gc(MarkHistory)
  BY <1>3 DEF Gc, MarkHistory, Merged, Spared, ghosts
<1>4. CASE Gc(Mark) /\ ~MarkHistory /\ ~\E r \in Repos : Inspect(r)
  <2>1. /\ UNCHANGED <<pending, issues, removed>> /\ keep \subseteq keep'
        /\ phase' \notin {"start", "history"}
        /\ phase' \in {"sweep", "inventory", "delete"} => pending = {}
        /\ removed = {}
    BY <1>4
       DEF Gc, Mark, MarkFails, Fail, List, Check, Relist, Observe, Scan, Read, MarkEnds,
           KeepSetReady, ghosts, Spared
  <2> QED
    BY <2>1 DEF Merged
<1>5. ASSUME NEW r \in Repos, Gc(Inspect(r)) PROVE Merged'
  BY <1>5 DEF Gc, Inspect, Merged, Spared, ghosts
<1>6. ASSUME UNCHANGED <<pending, issues, keep>>, phase' \notin {"start", "history"},
             phase \in {"sweep", "inventory", "delete"}
      PROVE  Merged'
  BY <1>6 DEF Merged
<1>7. ASSUME NEW o, Sweep(o) \/ Gc(Inventory(o)) PROVE Merged'
  BY <1>6, <1>7 DEF Gc, Sweep, Inventory, Fail
<1>8. ASSUME NEW w, DeleteWindow(w) PROVE Merged'
  BY <1>6, <1>8 DEF DeleteWindow, Fail
<1>9. CASE Gc(SweepEnds) \/ Gc(InventoryEnds) \/ Gc(DeletionEnds)
  BY <1>6, <1>9 DEF Gc, SweepEnds, InventoryEnds, DeletionEnds
<1>10. CASE Interrupt \/ UNCHANGED vars
  BY <1>10 DEF Interrupt, vars, editing, marking, ghosts, Merged
<1> QED
  BY <1>1, <1>2, <1>3, <1>4, <1>5, <1>7, <1>8, <1>9, <1>10 DEF Next, Collect, Gc

\* Every step spares what the keep set holds.
LEMMA SparedStep ==
  ASSUME TypeOK, Spared, [Next]_vars
  PROVE  Spared'
<1> USE DEF Uncertain, SeenShallow
<1>1. CASE Edit \/ Die \/ Commit
  BY <1>1, EditsAside DEF MarksStay, Spared
<1>2. CASE Start
  BY <1>2 DEF Start, Fail, Spared
<1>3. CASE Gc(Mark)
  <2>1. UNCHANGED <<removed, candidates, options, shallow>> /\ removed = {} /\ candidates = {}
    BY <1>3
       DEF Gc, Mark, MarkHistory, MarkFails, Fail, List, Check, Relist, Observe, Scan, Read,
           MarkEnds, Inspect, KeepSetReady, ghosts, Spared
  <2>2. phase' # "delete"
    BY <1>3
       DEF Gc, Mark, MarkHistory, MarkFails, Fail, List, Check, Relist, Observe, Scan, Read,
           MarkEnds, Inspect, KeepSetReady
  <2> QED
    BY <2>1, <2>2 DEF Spared
<1>4. ASSUME NEW o \in Oids, Sweep(o) PROVE Spared'
  BY <1>4 DEF Sweep, Delete, Doomed, Spared
<1>5. ASSUME NEW o \in Oids, Gc(Inventory(o)) PROVE Spared'
  BY <1>5 DEF Gc, Inventory, Fail, ghosts, Spared
<1>6. ASSUME NEW w \in SUBSET Oids, DeleteWindow(w) PROVE Spared'
  BY <1>6 DEF DeleteWindow, Delete, Fail, Spared
<1>7. CASE Gc(SweepEnds) \/ Gc(InventoryEnds) \/ Gc(DeletionEnds)
  BY <1>7 DEF Gc, SweepEnds, InventoryEnds, DeletionEnds, ghosts, Spared
<1>8. CASE Interrupt \/ UNCHANGED vars
  BY <1>8 DEF Interrupt, vars, editing, marking, ghosts, Spared
<1> QED
  BY <1>1, <1>2, <1>3, <1>4, <1>5, <1>6, <1>7, <1>8 DEF Next, Collect

-----------------------------------------------------------------------------
\* Before any collection.
LEMMA InitInvariant == Init => IInv
<1> SUFFICES ASSUME Init PROVE IInv
  OBVIOUS
<1>1. TypeOK
  BY InitialType
<1>2. Editing
  BY DEF Init, Editing, Idle
<1>3. Steady /\ Listed /\ Traced /\ Merged /\ Spared
  BY DEF Init, Steady, Listed, PastReading, Traced, Merged, Spared
<1> QED
  BY <1>1, <1>2, <1>3 DEF IInv

\* The invariant is inductive.
LEMMA NextInvariant == IInv /\ [Next]_vars => IInv'
BY TypeStep, EditingStep, SteadyStep, ListedStep, TracedStep, MergedStep, SparedStep DEF IInv

\* The invariant holds throughout.
LEMMA Invariant == Spec => []IInv
BY InitInvariant, NextInvariant, PTL DEF Spec

\* What a collection may delete (gc.rs): nothing in a dry run; no object of a row
\* that no command touched since it started, unless a reshape overtook its
\* listing; no object a commit named; and none of an additional repository that
\* was inspected.
THEOREM KeepsReachable == Spec => []ReachableKept
<1>1. IInv => ReachableKept
  <2> SUFFICES ASSUME IInv PROVE ReachableKept
    OBVIOUS
  <2>1. options.dry_run => removed = {}
    BY DEF IInv, Spared
  <2>2. listing.overtaken \/ UntouchedKept
    BY DEF IInv, Spared, Listed, PastReading, Owed, UntouchedKept, Untouched
  <2>3. options.history =>
          removed \cap start.past \subseteq IF shallow /\ options.unsafe THEN Hidden ELSE {}
    BY DEF IInv, Spared, Traced, Uncertain, SeenShallow
  <2>4. \A r \in Repos : removed \cap RepoOids[r] # {} => options.unsafe /\ r \in issues
    BY DEF IInv, Spared, Merged, Uncertain, SeenShallow
  <2> QED
    BY <2>1, <2>2, <2>3, <2>4 DEF ReachableKept
<1> QED
  BY Invariant, <1>1, PTL
=============================================================================
