------------------------- MODULE CacheObjectsProofs -------------------------
(***************************************************************************)
(* Proofs about CacheObjects, for every set of clients and objects and     *)
(* every bound: no proof vouches for bytes that are not the object's, what *)
(* gat publishes has the bytes of its name, and every answer was true at   *)
(* some moment since the question.                                         *)
(***************************************************************************)
EXTENDS CacheObjects, TLAPS

-----------------------------------------------------------------------------
(* The inductive invariant.                                                *)

File == [body : Bodies, stat : Nat \ {0}, by : {"gat", "other"}]

WorkType ==
  [at : {"none", "stat", "observe", "hash", "confirm", "done"}, stat : Nat,
   body : Bodies \cup {None}, status : Statuses \cup {None}, delta : Nat \cup {None}]

TicketType ==
  [kind : {"none", "worker", "here", "bare"}, oids : SUBSET Oids,
   known : [Oids -> Statuses \cup {None}], current : BOOLEAN, work : [Oids -> WorkType]]

IngestType ==
  [at : {"none", "copy", "publish", "check"},
   how : {"none", "stream", "safe", "hybrid", "receive"}, oid : Bodies \cup {None},
   before : Nat \cup {None}, print : Nat \cup {None}, body : Bodies \cup {None},
   hash : Bodies \cup {None}, stat : Nat]

Receipt == [oid : Bodies, stat : Nat]

TypeOK ==
  /\ object \in [Oids -> File \cup {Absent, Special}]
  /\ proofs \in [Oids -> Nat]
  /\ writes \in Nat
  /\ source \in [body : Bodies, stat : Nat]
  /\ memo \in [Clients -> [Oids -> Statuses \cup {None}]]
  /\ ticket \in [Clients -> TicketType]
  /\ ingest \in [Clients -> IngestType]
  /\ receipts \in [Clients -> SUBSET Receipt]
  /\ unlinked \subseteq Oids
  /\ acts \in Nat
  /\ seen \in [Clients -> [Oids -> SUBSET Statuses]]

\* If the file at the path of o is the one with this stat, it has these bytes.
Matches(f, o, n, b) == f[o] \notin {Absent, Special} /\ f[o].stat = n => f[o].body = b

\* The bytes of the ingest are in a temporary file.
Staged(i) == i.at \in {"copy", "publish"} /\ i.body # None

\* No stat is in use before its file has been written.
Bounded ==
  /\ \A o \in Oids : proofs[o] <= writes /\ (Regular(o) => object[o].stat <= writes)
  /\ \A c \in Clients :
       /\ ingest[c].stat <= writes
       /\ \A r \in receipts[c] : r.stat <= writes
       /\ \A o \in Oids :
            /\ ticket[c].work[o].stat <= writes
            /\ ticket[c].work[o].delta # None => ticket[c].work[o].delta <= writes

\* Nobody has seen the stat of a temporary file yet.
Fresh ==
  \A c \in Clients : Staged(ingest[c]) =>
    /\ ingest[c].stat # 0
    /\ \A o \in Oids : Regular(o) => object[o].stat # ingest[c].stat
    /\ \A d \in Clients :
         /\ d # c /\ Staged(ingest[d]) => ingest[d].stat # ingest[c].stat
         /\ \A o \in Oids : ticket[d].work[o].at \in {"hash", "confirm"} =>
                              ticket[d].work[o].stat # ingest[c].stat

\* What an ingest knows of its copy and of the source.
Knows(i) ==
  /\ i.at \in {"publish", "check"} => i.oid \in Bodies /\ i.body = i.oid
  /\ i.how = "hybrid" /\ i.print = None => i.hash = None /\ i.body = None
  /\ i.how # "hybrid" => i.print = None /\ i.hash = None
  /\ i.print # None => i.print <= source.stat
  /\ i.at = "copy" /\ i.print # None /\ i.print = source.stat =>
       i.hash \in {None, source.body} /\ i.body \in {None, source.body}

Named == \A c \in Clients : Knows(ingest[c])

\* Whatever may become a proof vouches only for the bytes of its object.
Honest ==
  /\ \A o \in Oids : Matches(object, o, proofs[o], o)
  /\ \A c \in Clients :
       /\ ingest[c].at = "check" /\ ingest[c].oid \in Oids =>
            Matches(object, ingest[c].oid, ingest[c].stat, ingest[c].oid)
       /\ \A r \in receipts[c] : r.oid \in Oids => Matches(object, r.oid, r.stat, r.oid)
       /\ \A o \in Oids :
            LET w == ticket[c].work[o]
            IN /\ w.at = "stat" => Matches(object, o, w.stat, o)
               /\ w.at = "confirm" => Matches(object, o, w.stat, w.body)
               /\ w.delta # None => Matches(object, o, w.delta, o)

IInv == TypeOK /\ Bounded /\ Fresh /\ Named /\ Honest /\ ObjectsMatchNames

\* A client has seen at least what is true now.
TruthSeen == \A c \in Clients, o \in Oids : Truth(o) \in seen[c][o]

-----------------------------------------------------------------------------
(* What the helpers of the model return. *)

\* What the assumptions say of the constants.
LEMMA Constants ==
  /\ Junk \notin Oids /\ None \notin Bodies /\ Absent # Special
  /\ MaxWrites \in Nat /\ MaxEdits \in Nat /\ MaxActs \in Nat
BY CacheAssumption DEF Bodies

\* An object that no ticket asks about.
LEMMA UnaskedTyped ==
  /\ Unasked \in WorkType
  /\ Unasked.at = "none" /\ Unasked.stat = 0 /\ Unasked.status = None /\ Unasked.delta = None
BY DEF Unasked, WorkType

\* A client without a ticket.
LEMMA NoTicketTyped ==
  /\ NoTicket \in TicketType /\ NoTicket.current
  /\ \A o \in Oids : NoTicket.work[o] = Unasked /\ NoTicket.known[o] = None
BY UnaskedTyped DEF NoTicket, TicketType

\* A client that ingests nothing.
LEMMA NoIngestTyped ==
  /\ NoIngest \in IngestType
  /\ NoIngest.at = "none" /\ NoIngest.how = "none" /\ NoIngest.stat = 0
  /\ NoIngest.print = None /\ NoIngest.hash = None /\ NoIngest.body = None
BY DEF NoIngest, IngestType

\* A step of a worker changes what its ticket says of one object.
LEMMA WorkUpdates ==
  ASSUME TypeOK, NEW c \in Clients, NEW o \in Oids, NEW w \in WorkType, Work(c, o, w)
  PROVE  /\ ticket' \in [Clients -> TicketType]
         /\ \A d \in Clients :
              /\ ticket'[d].current = ticket[d].current
              /\ ticket'[d].known = ticket[d].known
              /\ \A p \in Oids : ticket'[d].work[p] =
                   IF d = c /\ p = o THEN w ELSE ticket[d].work[p]
<1> DEFINE t == [ticket[c] EXCEPT !.work[o] = w]
<1>1. ticket[c] \in TicketType
  BY DEF TypeOK
<1>2. [ticket[c].work EXCEPT ![o] = w] \in [Oids -> WorkType]
  BY <1>1 DEF TicketType
<1>3. t = [ticket[c] EXCEPT !.work = [ticket[c].work EXCEPT ![o] = w]]
  BY <1>1 DEF TicketType
<1>4. /\ t \in TicketType /\ t.current = ticket[c].current /\ t.known = ticket[c].known
      /\ t.work = [ticket[c].work EXCEPT ![o] = w]
  BY <1>1, <1>2, <1>3 DEF TicketType
<1>5. ticket' = [ticket EXCEPT ![c] = t]
  BY DEF Work, TypeOK
<1> HIDE DEF t
<1>6. /\ ticket' \in [Clients -> TicketType]
      /\ \A d \in Clients : ticket'[d] = IF d = c THEN t ELSE ticket[d]
  BY <1>4, <1>5 DEF TypeOK
<1>7. \A p \in Oids : t.work[p] = IF p = o THEN w ELSE ticket[c].work[p]
  BY <1>1, <1>4 DEF TicketType
<1> QED
  BY <1>4, <1>6, <1>7

\* A step of an ingest changes the ingest of its client alone.
LEMMA IngestUpdates ==
  ASSUME TypeOK, NEW c \in Clients, NEW i \in IngestType, Ingest(c, i)
  PROVE  /\ ingest' \in [Clients -> IngestType]
         /\ \A d \in Clients : ingest'[d] = IF d = c THEN i ELSE ingest[d]
BY DEF Ingest, TypeOK

\* A ticket starts with the stats the index has on record, or with none.
LEMMA PreparedTyped ==
  ASSUME TypeOK, NEW c \in Clients, NEW kind \in {"worker", "here", "bare"},
         NEW S \in SUBSET Oids, NEW indexed \in BOOLEAN, NEW t,
         t = Prepared(c, kind, S, indexed)
  PROVE  /\ t \in TicketType
         /\ \A o \in Oids :
              /\ t.known[o] \in {memo[c][o], None}
              /\ t.work[o].at \in {"none", "stat"}
              /\ t.work[o].stat \in {proofs[o], 0}
              /\ t.work[o].status = None /\ t.work[o].delta = None
<1> DEFINE known == [o \in Oids |-> IF kind = "bare" \/ o \notin S THEN None ELSE memo[c][o]]
           work == [o \in Oids |->
              IF o \in S /\ known[o] = None
              THEN [Unasked EXCEPT !.at = "stat", !.stat = IF indexed THEN proofs[o] ELSE 0]
              ELSE Unasked]
<1>1. t = [kind |-> kind, oids |-> S, known |-> known, current |-> TRUE, work |-> work]
  BY DEF Prepared
<1>2. known \in [Oids -> Statuses \cup {None}] /\ \A o \in Oids : known[o] \in {memo[c][o], None}
  BY DEF TypeOK
<1>3. work \in [Oids -> WorkType]
  BY UnaskedTyped DEF TypeOK, WorkType
<1>4. ASSUME NEW o \in Oids
      PROVE  /\ work[o].at \in {"none", "stat"} /\ work[o].stat \in {proofs[o], 0}
             /\ work[o].status = None /\ work[o].delta = None
  <2> HIDE DEF known
  <2> QED
    BY UnaskedTyped DEF WorkType
<1> HIDE DEF known, work
<1>5. t \in TicketType
  BY <1>1, <1>2, <1>3 DEF TicketType
<1> QED
  BY <1>1, <1>2, <1>4, <1>5

\* What a worker finds out about an object that it looks at.
Learns(o, w, v) ==
  \/ v.at = "observe" /\ v.status = None /\ v.delta = None
  \/ /\ v.at = "hash" /\ v.status = None /\ v.delta = None
     /\ Regular(o) /\ v.stat = object[o].stat
  \/ /\ v.at = "confirm" /\ v.status = w.status /\ v.delta = w.delta
     /\ w.at = "hash" /\ v.stat = w.stat
     /\ Regular(o) /\ v.body = object[o].body
  \/ /\ v.at = "done" /\ v.status = Truth(o)
     /\ \/ v.delta \in {None, 0}
        \/ Regular(o) /\ v.delta = object[o].stat /\ object[o].body = o

Look(c, o) == Stat(c, o) \/ Observe(c, o) \/ Hash(c, o) \/ Confirm(c, o)

\* Every look at an object changes the entry of the ticket for it, and nothing
\* else; the status that ends it is true at that moment, because the stat that
\* spares the hash vouches for the bytes.
LEMMA LookLearns ==
  ASSUME TypeOK, Honest, NEW c \in Clients, NEW o \in Oids, Look(c, o)
  PROVE  /\ UNCHANGED <<disk, memo, ingest, receipts, unlinked, acts, seen>>
         /\ \E v \in WorkType :
              /\ Work(c, o, v)
              /\ v.stat \in {0, ticket[c].work[o].stat} \/ (Regular(o) /\ v.stat = object[o].stat)
              /\ Learns(o, ticket[c].work[o], v)
<1> DEFINE w == ticket[c].work[o]
<1>1. w \in WorkType
  BY DEF TypeOK, TicketType
<1>2. Regular(o) => object[o] \in File
  BY DEF TypeOK, Regular
<1>3. UNCHANGED <<disk, memo, ingest, receipts, unlinked, acts, seen>>
  BY DEF Look, Stat, Observe, Hash, Confirm
<1> DEFINE Done(status, delta) ==
             [Unasked EXCEPT !.at = "done", !.status = status, !.delta = delta]
<1>4. ASSUME NEW status \in Statuses, NEW delta \in Nat \cup {None}
      PROVE  /\ Done(status, delta) \in WorkType
             /\ Done(status, delta).at = "done" /\ Done(status, delta).stat = 0
             /\ Done(status, delta).status = status /\ Done(status, delta).delta = delta
             /\ Found(c, o, status, delta) <=> Work(c, o, Done(status, delta))
  BY UnaskedTyped DEF WorkType, Found
<1>5. Truth(o) \in Statuses
  BY DEF Truth, StatusOf, Statuses
<1>6. ASSUME NEW delta \in Nat \cup {None}, Found(c, o, Truth(o), delta),
             delta \in {None, 0} \/ (Regular(o) /\ delta = object[o].stat /\ object[o].body = o)
      PROVE  \E v \in WorkType :
               Work(c, o, v) /\ v.stat = 0 /\ Learns(o, w, v)
  <2>2. PICK status \in Statuses : status = Truth(o)
    BY <1>5
  <2> DEFINE v == Done(status, delta)
  <2> HIDE DEF Done
  <2>1. v \in WorkType /\ v.at = "done" /\ v.stat = 0 /\ v.status = Truth(o) /\ v.delta = delta
        /\ Work(c, o, v)
    BY <1>4, <1>6, <2>2
  <2> HIDE DEF v
  <2> QED
    BY <2>1, <1>6 DEF Learns
<1> HIDE DEF Done
<1>7. CASE Stat(c, o)
  <2>1. CASE object[o] = Absent
    <3>1. Truth(o) = "missing" /\ Found(c, o, "missing", None)
      BY <1>7, <2>1, Constants DEF Stat, Truth, StatusOf, Regular
    <3> QED
      BY <3>1, <1>3, <1>6
  <2>2. CASE object[o] = Special
    <3>1. Truth(o) = "corrupt" /\ Found(c, o, "corrupt", 0)
      BY <1>7, <2>2, Constants DEF Stat, Truth, StatusOf, Regular
    <3> QED
      BY <3>1, <1>3, <1>6
  <2>3. CASE Regular(o) /\ object[o].stat = w.stat
    <3>1. object[o].body = o
      BY <1>7, <2>3 DEF Honest, Matches, Stat, Regular
    <3>2. Truth(o) = "valid" /\ Found(c, o, "valid", None)
      BY <1>7, <2>3, <3>1 DEF Stat, Truth, StatusOf, Regular
    <3> QED
      BY <3>2, <1>3, <1>6
  <2>4. CASE Regular(o) /\ object[o].stat # w.stat
    <3> DEFINE v == [Unasked EXCEPT !.at = "observe"]
    <3>1. Work(c, o, v)
      BY <1>7, <2>4 DEF Stat, Regular
    <3>2. v \in WorkType /\ v.at = "observe" /\ v.stat = 0 /\ v.status = None /\ v.delta = None
      BY UnaskedTyped DEF WorkType
    <3> HIDE DEF v
    <3> QED
      BY <3>1, <3>2, <1>3 DEF Learns
  <2> QED
    BY <2>1, <2>2, <2>3, <2>4 DEF Regular
<1>8. CASE Observe(c, o)
  <2> DEFINE v == [Unasked EXCEPT !.at = "hash", !.stat = object[o].stat]
  <2>1. Work(c, o, v) /\ Regular(o)
    BY <1>8 DEF Observe
  <2>2. /\ v \in WorkType /\ v.at = "hash" /\ v.stat = object[o].stat
        /\ v.status = None /\ v.delta = None
    BY <1>2, <2>1, UnaskedTyped DEF WorkType, File
  <2> HIDE DEF v
  <2> QED
    BY <2>1, <2>2, <1>3 DEF Learns
<1>9. CASE Hash(c, o)
  <2> DEFINE v == [w EXCEPT !.at = "confirm", !.body = object[o].body]
  <2>1. Work(c, o, v) /\ Regular(o) /\ w.at = "hash"
    BY <1>9 DEF Hash
  <2>2. /\ v \in WorkType /\ v.at = "confirm" /\ v.stat = w.stat /\ v.body = object[o].body
        /\ v.status = w.status /\ v.delta = w.delta
    BY <1>1, <1>2, <2>1 DEF WorkType, File
  <2> HIDE DEF v
  <2> QED
    BY <2>1, <2>2, <1>3 DEF Learns
<1>10. CASE Confirm(c, o)
  <2>1. Regular(o) /\ w.at = "confirm" /\ object[o].stat = w.stat
    BY <1>10 DEF Confirm
  <2>2. object[o].body = w.body
    BY <2>1 DEF Honest, Matches, Regular
  <2>3. CASE w.body = o
    <3>1. Truth(o) = "valid" /\ Found(c, o, "valid", object[o].stat)
      BY <1>10, <2>1, <2>2, <2>3 DEF Confirm, Truth, StatusOf, Regular
    <3> QED
      BY <3>1, <1>2, <1>3, <1>6, <2>1, <2>2, <2>3 DEF File
  <2>4. CASE w.body # o
    <3>1. Truth(o) = "corrupt" /\ Found(c, o, "corrupt", 0)
      BY <1>10, <2>1, <2>2, <2>4 DEF Confirm, Truth, StatusOf, Regular
    <3> QED
      BY <3>1, <1>3, <1>6
  <2> QED
    BY <2>3, <2>4
<1> QED
  BY <1>7, <1>8, <1>9, <1>10 DEF Look

\* The steps of an ingest before it publishes.
Makes(c) ==
  \/ BeginAdd(c) \/ Fingerprint(c) \/ Copy(c) \/ HashCopy(c) \/ HashSource(c) \/ Trust(c)
  \/ Receive(c)

\* The copy an ingest has is the one it had, or a file with a stat of its own.
CopyOf(i, j) ==
  \/ /\ writes' = writes /\ j.stat \in {0, i.stat}
     /\ Staged(j) => Staged(i) /\ j.stat = i.stat
  \/ writes' = writes + 1 /\ j.stat = writes + 1

\* Until it publishes, an ingest changes what it knows itself, and it goes on to
\* publish under the name of the bytes of its copy.
LEMMA MakesKnows ==
  ASSUME TypeOK, Named, NEW c \in Clients, Makes(c)
  PROVE  /\ UNCHANGED <<object, proofs, source, memo, ticket, receipts, unlinked, acts, seen>>
         /\ \E j \in IngestType :
              Ingest(c, j) /\ Knows(j) /\ j.at # "check" /\ CopyOf(ingest[c], j)
<1> DEFINE i == ingest[c]
<1>1. UNCHANGED <<object, proofs, source, memo, ticket, receipts, unlinked, acts, seen>>
  BY DEF Makes, BeginAdd, Fingerprint, Copy, HashCopy, HashSource, Trust, Receive, disk
<1>2. i \in IngestType /\ Knows(i)
  BY DEF TypeOK, Named
<1>3. writes \in Nat /\ source.body \in Bodies /\ source.stat \in Nat
  BY DEF TypeOK
<1> SUFFICES \E j \in IngestType :
               Ingest(c, j) /\ Knows(j) /\ j.at # "check" /\ CopyOf(i, j)
  BY <1>1
<1>4. CASE BeginAdd(c)
  <2>1. PICK how \in {"stream", "safe", "hybrid"} :
          Ingest(c, [NoIngest EXCEPT !.at = "copy", !.how = how, !.before = source.stat])
    BY <1>4 DEF BeginAdd
  <2> DEFINE j == [NoIngest EXCEPT !.at = "copy", !.how = how, !.before = source.stat]
  <2>2. /\ j \in IngestType /\ j.at = "copy" /\ j.stat = 0 /\ j.body = None /\ j.hash = None
        /\ j.print = None
    BY <1>3, NoIngestTyped DEF IngestType
  <2>3. Ingest(c, j) /\ writes' = writes
    BY <2>1, <1>4 DEF BeginAdd, disk
  <2> HIDE DEF j
  <2> QED
    BY <1>3, <2>2, <2>3, Constants DEF Knows, CopyOf, Staged
<1>5. CASE Fingerprint(c)
  <2> DEFINE j == [i EXCEPT !.print = source.stat]
  <2>1. /\ Ingest(c, j) /\ i.how = "hybrid" /\ i.at = "copy" /\ i.print = None
        /\ writes' = writes
    BY <1>5 DEF Fingerprint, disk
  <2>2. /\ j \in IngestType /\ j.at = "copy" /\ j.stat = i.stat /\ j.body = i.body
        /\ j.hash = i.hash /\ j.how = "hybrid" /\ j.print = source.stat
    BY <1>2, <1>3, <2>1 DEF IngestType
  <2> HIDE DEF j
  <2> QED
    BY <1>2, <1>3, <2>1, <2>2 DEF Knows, CopyOf, Staged
<1>6. CASE Copy(c)
  <2> DEFINE k == [i EXCEPT !.body = source.body, !.stat = writes + 1]
             j == IF k.how = "stream" THEN [k EXCEPT !.oid = k.body, !.at = "publish"] ELSE k
  <2>1. /\ Ingest(c, j) /\ i.at = "copy" /\ i.body = None /\ writes' = writes + 1
        /\ i.how = "hybrid" => i.print # None
    BY <1>6 DEF Copy
  <2>3. writes + 1 \in Nat
    BY <1>3
  <2>4. /\ k \in IngestType /\ k.at = "copy" /\ k.stat = writes + 1
        /\ k.body = source.body /\ k.hash = i.hash /\ k.how = i.how /\ k.print = i.print
    BY <1>2, <1>3, <2>1, <2>3 DEF IngestType
  <2> HIDE DEF k
  <2>2. /\ j \in IngestType /\ j.at \in {"copy", "publish"} /\ j.stat = writes + 1
        /\ j.body = source.body /\ j.hash = i.hash /\ j.how = i.how /\ j.print = i.print
        /\ j.at = "publish" => j.oid = j.body
    BY <1>3, <2>4 DEF IngestType
  <2> HIDE DEF j
  <2> QED
    BY <1>2, <1>3, <2>1, <2>2 DEF Knows, CopyOf
<1>7. CASE HashCopy(c)
  <2> DEFINE j == [i EXCEPT !.oid = i.body, !.at = "publish"]
  <2>1. /\ Ingest(c, j) /\ i.at = "copy" /\ i.how = "safe" /\ i.body # None /\ writes' = writes
    BY <1>7 DEF HashCopy, disk
  <2>2. /\ j \in IngestType /\ j.at = "publish" /\ j.stat = i.stat /\ j.body = i.body
        /\ j.hash = i.hash /\ j.how = i.how /\ j.print = i.print /\ j.oid = i.body
    BY <1>2, <2>1 DEF IngestType
  <2>3. i.body \in Bodies
    BY <1>2, <2>1 DEF IngestType
  <2> HIDE DEF j
  <2> QED
    BY <1>2, <1>3, <2>1, <2>2, <2>3 DEF Knows, CopyOf, Staged
<1>8. CASE HashSource(c)
  <2> DEFINE j == [i EXCEPT !.hash = source.body]
  <2>1. /\ Ingest(c, j) /\ i.at = "copy" /\ i.print # None /\ writes' = writes
    BY <1>8 DEF HashSource, disk
  <2>2. /\ j \in IngestType /\ j.at = "copy" /\ j.stat = i.stat /\ j.body = i.body
        /\ j.hash = source.body /\ j.how = i.how /\ j.print = i.print
    BY <1>2, <1>3, <2>1 DEF IngestType
  <2> HIDE DEF j
  <2> QED
    BY <1>2, <1>3, <2>1, <2>2 DEF Knows, CopyOf, Staged
<1>9. CASE Trust(c)
  <2> DEFINE oid == IF source.stat = i.print THEN i.hash ELSE i.body
             j == [i EXCEPT !.at = "publish", !.oid = oid]
  <2>1. /\ Ingest(c, j) /\ i.at = "copy" /\ i.hash # None /\ i.body # None /\ writes' = writes
    BY <1>9 DEF Trust, disk
  <2>2. oid = i.body /\ i.body \in Bodies
    BY <1>2, <1>3, <2>1 DEF Knows, IngestType
  <2>3. /\ j \in IngestType /\ j.at = "publish" /\ j.stat = i.stat /\ j.body = i.body
        /\ j.hash = i.hash /\ j.how = i.how /\ j.print = i.print /\ j.oid = oid
    BY <1>2, <2>1, <2>2 DEF IngestType
  <2> HIDE DEF j, oid
  <2> QED
    BY <1>2, <1>3, <2>1, <2>2, <2>3 DEF Knows, CopyOf, Staged
<1>10. CASE Receive(c)
  <2>1. PICK o \in Oids :
          Ingest(c, [NoIngest EXCEPT !.at = "publish", !.how = "receive", !.oid = o,
                       !.body = o, !.stat = writes + 1])
    BY <1>10 DEF Receive
  <2> DEFINE j == [NoIngest EXCEPT !.at = "publish", !.how = "receive", !.oid = o,
                     !.body = o, !.stat = writes + 1]
  <2>4. writes + 1 \in Nat
    BY <1>3
  <2>2. /\ j \in IngestType /\ j.at = "publish" /\ j.stat = writes + 1 /\ j.body = o
        /\ j.oid = o /\ j.how = "receive" /\ j.hash = None /\ j.print = None
    BY <2>4, NoIngestTyped DEF IngestType, Bodies
  <2>3. Ingest(c, j) /\ writes' = writes + 1 /\ o \in Bodies
    BY <2>1, <1>10 DEF Receive, Bodies
  <2> HIDE DEF j
  <2> QED
    BY <2>2, <2>3 DEF Knows, CopyOf
<1> QED
  BY <1>4, <1>5, <1>6, <1>7, <1>8, <1>9, <1>10 DEF Makes

-----------------------------------------------------------------------------
(* One lemma per group of actions: the invariant is inductive.             *)

\* No file of the cache has the stat 0, which stands for no proof.
LEMMA NoFileHasStatZero ==
  ASSUME TypeOK, NEW o \in Oids, NEW b
  PROVE  Matches(object, o, 0, b)
BY DEF TypeOK, Matches, File

\* Stats, wherever they are kept, are numbers.
LEMMA StatsTyped ==
  ASSUME TypeOK, NEW c \in Clients
  PROVE  /\ ingest[c].stat \in Nat
         /\ \A r \in receipts[c] : r.oid \in Bodies /\ r.stat \in Nat
         /\ \A o \in Oids : ticket[c].work[o] \in WorkType /\ ticket[c].work[o].stat \in Nat
BY DEF TypeOK, IngestType, Receipt, TicketType, WorkType

\* A look at a file keeps the invariant.
LEMMA LookPreserves ==
  ASSUME IInv, NEW c \in Clients, NEW o \in Oids, Look(c, o)
  PROVE  IInv'
<1> USE DEF IInv
<1> DEFINE w == ticket[c].work[o]
<1>1. UNCHANGED <<object, proofs, writes, source, memo, ingest, receipts, unlinked, acts, seen>>
  BY LookLearns DEF disk
<1>2. PICK v \in WorkType :
        /\ Work(c, o, v)
        /\ v.stat \in {0, w.stat} \/ (Regular(o) /\ v.stat = object[o].stat)
        /\ Learns(o, w, v)
  BY LookLearns
<1>3. /\ ticket' \in [Clients -> TicketType]
      /\ \A d \in Clients, p \in Oids :
           ticket'[d].work[p] = IF d = c /\ p = o THEN v ELSE ticket[d].work[p]
  BY <1>2, WorkUpdates
<1>4. TypeOK'
  BY <1>1, <1>3 DEF TypeOK
<1>5. Bounded'
  <2>1. v.stat <= writes
    BY <1>2 DEF TypeOK, Bounded
  <2>2. v.delta # None => v.delta <= writes
    BY <1>2 DEF TypeOK, Bounded, Learns
  <2> QED
    BY <1>1, <1>3, <2>1, <2>2 DEF Bounded, Regular
<1>6. Fresh'
  <2>1. ASSUME NEW d \in Clients, Staged(ingest[d]), v.at \in {"hash", "confirm"}
        PROVE  v.stat # ingest[d].stat
    BY <1>2, <2>1 DEF Fresh, Learns
  <2> QED
    BY <1>1, <1>3, <2>1 DEF Fresh, Regular, Staged
<1>7. Named'
  BY <1>1 DEF Named, Knows
<1>8. Honest'
  <2>1. /\ v.at # "stat"
        /\ v.at = "confirm" => Matches(object, o, v.stat, v.body)
        /\ v.delta # None => Matches(object, o, v.delta, o)
    BY <1>2, NoFileHasStatZero DEF Learns, Matches, Regular, Honest
  <2> QED
    BY <1>1, <1>3, <2>1 DEF Honest
<1>9. ObjectsMatchNames'
  BY <1>1 DEF ObjectsMatchNames, Regular
<1> QED
  BY <1>4, <1>5, <1>6, <1>7, <1>8, <1>9

\* The steps that make a copy keep the invariant.
LEMMA MakesPreserves ==
  ASSUME IInv, NEW c \in Clients, Makes(c)
  PROVE  IInv'
<1> USE DEF IInv
<1> DEFINE i == ingest[c]
<1>1. UNCHANGED <<object, proofs, source, memo, ticket, receipts, unlinked, acts, seen>>
  BY MakesKnows
<1>2. PICK j \in IngestType : Ingest(c, j) /\ Knows(j) /\ j.at # "check" /\ CopyOf(i, j)
  BY MakesKnows
<1>3. /\ ingest' \in [Clients -> IngestType]
      /\ \A d \in Clients : ingest'[d] = IF d = c THEN j ELSE ingest[d]
  BY <1>2, IngestUpdates
<1>4. writes \in Nat /\ writes' \in Nat /\ writes <= writes' /\ j.stat \in Nat /\ i.stat \in Nat
  BY <1>2 DEF CopyOf, TypeOK, IngestType
<1>5. TypeOK'
  BY <1>1, <1>3, <1>4 DEF TypeOK
<1>6. Bounded'
  <2>1. ASSUME NEW n \in Nat, n <= writes
        PROVE  n <= writes'
    BY <1>4, <2>1
  <2>2. j.stat <= writes'
    BY <1>2, <1>4 DEF CopyOf, Bounded
  <2>3. ASSUME NEW o \in Oids
        PROVE  proofs[o] <= writes' /\ (Regular(o) => object[o].stat <= writes')
    BY <2>1 DEF Bounded, TypeOK, Regular, File
  <2>4. ASSUME NEW d \in Clients
        PROVE  /\ ingest'[d].stat <= writes'
               /\ \A r \in receipts[d] : r.stat <= writes'
    <3>1. \A r \in receipts[d] : r.stat <= writes'
      BY <2>1, StatsTyped DEF Bounded
    <3>2. ingest'[d].stat <= writes'
      BY <1>3, <2>1, <2>2, StatsTyped DEF Bounded
    <3> QED
      BY <3>1, <3>2
  <2>5. ASSUME NEW d \in Clients, NEW o \in Oids
        PROVE  /\ ticket[d].work[o].stat <= writes'
               /\ ticket[d].work[o].delta # None => ticket[d].work[o].delta <= writes'
    BY <2>1 DEF Bounded, TypeOK, TicketType, WorkType
  <2> QED
    BY <1>1, <2>3, <2>4, <2>5 DEF Bounded, Regular
<1>7. Fresh'
  <2>1. ASSUME Staged(j), NEW n \in Nat, n <= writes, Staged(i) => n # i.stat
        PROVE  n # j.stat
    BY <1>2, <1>4, <2>1 DEF CopyOf
  <2>2. ASSUME Staged(j), NEW o \in Oids, Regular(o)
        PROVE  object[o].stat # j.stat
    BY <2>1, <2>2 DEF Fresh, Bounded, TypeOK, Regular, File
  <2>3. ASSUME Staged(j), NEW d \in Clients, d # c, Staged(ingest[d])
        PROVE  ingest[d].stat # j.stat
    BY <2>1, <2>3 DEF Fresh, Bounded, TypeOK, IngestType
  <2>4. ASSUME Staged(j), NEW d \in Clients, NEW o \in Oids,
               ticket[d].work[o].at \in {"hash", "confirm"}
        PROVE  ticket[d].work[o].stat # j.stat
    <3>1. ticket[d].work[o].stat \in Nat /\ ticket[d].work[o].stat <= writes
      BY StatsTyped DEF Bounded
    <3>2. Staged(i) => ticket[d].work[o].stat # i.stat
      BY <2>4 DEF Fresh
    <3> QED
      BY <2>1, <2>4, <3>1, <3>2
  <2>5. Staged(j) => j.stat # 0
    BY <1>2, <1>4 DEF CopyOf, Fresh
  <2> QED
    BY <1>1, <1>3, <2>2, <2>3, <2>4, <2>5 DEF Fresh, Regular
<1>8. Named'
  BY <1>1, <1>2, <1>3 DEF Named, Knows
<1>9. Honest'
  BY <1>1, <1>2, <1>3 DEF Honest
<1>10. ObjectsMatchNames'
  BY <1>1 DEF ObjectsMatchNames, Regular
<1> QED
  BY <1>5, <1>6, <1>7, <1>8, <1>9, <1>10

\* As long as no file changes, a proof that is recorded, prepared or received
\* only has to be one of those that vouch already.
LEMMA CarriersPreserve ==
  ASSUME IInv, TypeOK', UNCHANGED <<object, writes, source>>,
         \A o \in Oids : proofs'[o] <= writes /\ Matches(object, o, proofs'[o], o),
         \A c \in Clients, o \in Oids :
           LET w == ticket'[c].work[o]
           IN \/ w = ticket[c].work[o]
              \/ /\ w.at \in {"none", "stat"} /\ w.delta = None
                 /\ w.stat <= writes /\ Matches(object, o, w.stat, o),
         \A c \in Clients : ingest'[c] \in {ingest[c], NoIngest},
         \A c \in Clients : \A r \in receipts'[c] :
           \/ r \in receipts[c]
           \/ /\ ingest[c].at = "check"
              /\ r.oid = ingest[c].oid /\ r.stat = ingest[c].stat
  PROVE  IInv'
<1> USE DEF IInv
<1>1. \A o \in Oids : Regular(o)' = Regular(o)
  BY DEF Regular
<1>2. Bounded'
  <2>1. ASSUME NEW c \in Clients
        PROVE  ingest'[c].stat <= writes /\ \A r \in receipts'[c] : r.stat <= writes
    <3>1. 0 <= writes /\ ingest[c].stat <= writes
      BY DEF Bounded, TypeOK
    <3>2. ingest'[c].stat <= writes
      BY <3>1, NoIngestTyped
    <3>3. ASSUME NEW r \in receipts'[c]
          PROVE  r.stat <= writes
      <4>1. r \in receipts[c] => r.stat <= writes
        BY DEF Bounded
      <4>2. r \in receipts[c] \/ r.stat = ingest[c].stat
        OBVIOUS
      <4> QED
        BY <3>1, <4>1, <4>2
    <3> QED
      BY <3>2, <3>3
  <2>2. ASSUME NEW c \in Clients, NEW o \in Oids
        PROVE  /\ ticket'[c].work[o].stat <= writes
               /\ ticket'[c].work[o].delta # None => ticket'[c].work[o].delta <= writes
    BY DEF Bounded
  <2> QED
    BY <1>1, <2>1, <2>2 DEF Bounded
<1>3. Fresh'
  <2>1. \A c \in Clients : Staged(ingest'[c]) => ingest'[c] = ingest[c]
    BY NoIngestTyped DEF Staged
  <2>2. \A c \in Clients, o \in Oids :
          ticket'[c].work[o].at \in {"hash", "confirm"} =>
            ticket'[c].work[o] = ticket[c].work[o]
    OBVIOUS
  <2> QED
    BY <1>1, <2>1, <2>2 DEF Fresh, Staged
<1>4. Named'
  BY NoIngestTyped DEF Named, Knows
<1>5. Honest'
  <2>1. ASSUME NEW c \in Clients, ingest'[c].at = "check", ingest'[c].oid \in Oids
        PROVE  Matches(object, ingest'[c].oid, ingest'[c].stat, ingest'[c].oid)
    BY <2>1, NoIngestTyped DEF Honest
  <2>2. ASSUME NEW c \in Clients, NEW r \in receipts'[c], r.oid \in Oids
        PROVE  Matches(object, r.oid, r.stat, r.oid)
    BY <2>2 DEF Honest
  <2>3. ASSUME NEW c \in Clients, NEW o \in Oids
        PROVE  LET w == ticket'[c].work[o]
               IN /\ w.at = "stat" => Matches(object, o, w.stat, o)
                  /\ w.at = "confirm" => Matches(object, o, w.stat, w.body)
                  /\ w.delta # None => Matches(object, o, w.delta, o)
    BY DEF Honest
  <2> QED
    BY <2>1, <2>2, <2>3 DEF Honest
<1>6. ObjectsMatchNames'
  BY <1>1 DEF ObjectsMatchNames
<1> QED
  BY <1>2, <1>3, <1>4, <1>5, <1>6

\* Nothing but the question changes when a client asks.
LEMMA AskUpdates ==
  ASSUME TypeOK, NEW c \in Clients, NEW S, AskAnew(c, S)
  PROVE  /\ seen' \in [Clients -> [Oids -> SUBSET Statuses]]
         /\ \A d \in Clients, o \in Oids :
              seen'[d][o] = IF d = c /\ o \in S THEN {Truth(o)} ELSE seen[d][o]
<1>1. \A o \in Oids : Truth(o) \in Statuses
  BY DEF Truth, StatusOf, Statuses
<1> DEFINE g == [o \in Oids |-> IF o \in S THEN {Truth(o)} ELSE seen[c][o]]
<1>2. seen' = [seen EXCEPT ![c] = g]
  BY DEF AskAnew
<1>3. g \in [Oids -> SUBSET Statuses]
  BY <1>1 DEF TypeOK
<1>4. \A o \in Oids : g[o] = IF o \in S THEN {Truth(o)} ELSE seen[c][o]
  OBVIOUS
<1> HIDE DEF g
<1> QED
  BY <1>2, <1>3, <1>4 DEF TypeOK

\* A best-effort write of the index keeps a proof or records the one it is given.
LEMMA PersistUpdates ==
  ASSUME TypeOK, NEW delta, Persist(delta), \A o \in Oids : delta[o] \in Nat \cup {None}
  PROVE  /\ proofs' \in [Oids -> Nat]
         /\ \A o \in Oids : \/ proofs'[o] = proofs[o]
                            \/ delta[o] # None /\ proofs'[o] = delta[o]
BY DEF Persist, TypeOK

Asks(c) == Prepare(c) \/ Reverify(c)

\* Prepare and Reverify give the client a ticket and nothing else.
LEMMA AsksPrepared ==
  ASSUME TypeOK, NEW c \in Clients, Asks(c)
  PROVE  /\ UNCHANGED <<disk, memo, ingest, receipts, unlinked, acts>>
         /\ \E kind \in {"worker", "here", "bare"}, S \in SUBSET Oids, indexed \in BOOLEAN :
              ticket' = [ticket EXCEPT ![c] = Prepared(c, kind, S, indexed)]
         /\ AskAnew(c, Asked(c, ticket'[c]))
<1>1. CASE Prepare(c)
  BY <1>1 DEF Prepare
<1>2. CASE Reverify(c)
  <2>1. ticket[c].oids \in SUBSET Oids
    BY DEF TypeOK, TicketType
  <2> QED
    BY <1>2, <2>1 DEF Reverify
<1> QED
  BY <1>1, <1>2 DEF Asks

\* A new ticket keeps the invariant.
LEMMA AsksPreserves ==
  ASSUME IInv, NEW c \in Clients, Asks(c)
  PROVE  IInv'
<1> USE DEF IInv
<1>1. /\ UNCHANGED <<disk, memo, ingest, receipts, unlinked, acts>>
      /\ seen' \in [Clients -> [Oids -> SUBSET Statuses]]
  BY AsksPrepared, AskUpdates
<1>2. PICK t \in TicketType :
        /\ ticket' = [ticket EXCEPT ![c] = t]
        /\ \A o \in Oids : /\ t.work[o].at \in {"none", "stat"}
                           /\ t.work[o].stat \in {proofs[o], 0} /\ t.work[o].delta = None
  <2>1. PICK kind \in {"worker", "here", "bare"}, S \in SUBSET Oids, indexed \in BOOLEAN :
          ticket' = [ticket EXCEPT ![c] = Prepared(c, kind, S, indexed)]
    BY AsksPrepared
  <2>2. PICK t : t = Prepared(c, kind, S, indexed)
    OBVIOUS
  <2>3. /\ t \in TicketType
        /\ \A o \in Oids : /\ t.work[o].at \in {"none", "stat"}
                           /\ t.work[o].stat \in {proofs[o], 0} /\ t.work[o].delta = None
    BY <2>2, PreparedTyped
  <2> QED
    BY <2>1, <2>2, <2>3
<1>3. TypeOK'
  BY <1>1, <1>2 DEF TypeOK, disk
<1>4. \A d \in Clients : ticket'[d] = IF d = c THEN t ELSE ticket[d]
  BY <1>2 DEF TypeOK
<1>5. ASSUME NEW o \in Oids
      PROVE  t.work[o].stat <= writes /\ Matches(object, o, t.work[o].stat, o)
  <2>1. proofs[o] <= writes /\ 0 <= writes
    BY DEF Bounded, TypeOK
  <2>2. Matches(object, o, proofs[o], o) /\ Matches(object, o, 0, o)
    BY NoFileHasStatZero DEF Honest
  <2>3. t.work[o].stat = proofs[o] \/ t.work[o].stat = 0
    BY <1>2
  <2> QED
    BY <2>1, <2>2, <2>3
<1> QED
  BY <1>1, <1>2, <1>3, <1>4, <1>5, CarriersPreserve DEF disk, Bounded, Honest

\* A ticket that ends in an error leaves nothing, one that is committed leaves
\* the proofs its worker has found.
LEMMA EndsPreserves ==
  ASSUME IInv, NEW c \in Clients, VerifyFails(c) \/ Commit(c)
  PROVE  IInv'
<1> USE DEF IInv
<1>1. /\ UNCHANGED <<object, writes, source, ingest, receipts, unlinked, acts, seen>>
      /\ ticket' = [ticket EXCEPT ![c] = NoTicket]
  BY DEF VerifyFails, Commit, disk
<1>2. /\ ticket' \in [Clients -> TicketType]
      /\ \A d \in Clients : ticket'[d] = IF d = c THEN NoTicket ELSE ticket[d]
  BY <1>1, NoTicketTyped DEF TypeOK
<1>3. \A d \in Clients, o \in Oids :
        LET w == ticket'[d].work[o]
        IN \/ w = ticket[d].work[o]
           \/ /\ w.at \in {"none", "stat"} /\ w.delta = None
              /\ w.stat <= writes /\ Matches(object, o, w.stat, o)
  BY <1>2, NoTicketTyped, UnaskedTyped, NoFileHasStatZero DEF TypeOK
<1>4. /\ memo' \in [Clients -> [Oids -> Statuses \cup {None}]]
      /\ proofs' \in [Oids -> Nat]
      /\ \A o \in Oids : proofs'[o] <= writes /\ Matches(object, o, proofs'[o], o)
  <2>1. CASE VerifyFails(c)
    BY <2>1 DEF VerifyFails, disk, TypeOK, Bounded, Honest
  <2>2. CASE Commit(c)
    <3> DEFINE work == ticket[c].work
    <3>1. PICK delta : delta = [o \in Oids |-> work[o].delta]
      OBVIOUS
    <3>2. \A o \in Oids : delta[o] = work[o].delta /\ work[o] \in WorkType
      BY <3>1, StatsTyped
    <3>3. Persist(delta)
      BY <2>2, <3>1 DEF Commit
    <3>4. /\ proofs' \in [Oids -> Nat]
          /\ \A o \in Oids : \/ proofs'[o] = proofs[o]
                             \/ delta[o] # None /\ proofs'[o] = delta[o]
      BY <3>2, <3>3, PersistUpdates DEF WorkType
    <3>5. ASSUME NEW o \in Oids, delta[o] # None
          PROVE  delta[o] <= writes /\ Matches(object, o, delta[o], o)
      <4>1. delta[o] <= writes
        BY <3>2, <3>5 DEF Bounded
      <4> QED
        BY <3>2, <3>5, <4>1 DEF Honest
    <3>6. memo' \in [Clients -> [Oids -> Statuses \cup {None}]]
      <4> DEFINE g == [o \in Oids |-> IF work[o].at = "done" THEN work[o].status
                                      ELSE memo[c][o]]
      <4>1. g \in [Oids -> Statuses \cup {None}]
        BY <3>2 DEF TypeOK, WorkType
      <4>2. memo' \in {memo, [memo EXCEPT ![c] = g]}
        BY <2>2 DEF Commit
      <4> HIDE DEF g
      <4> QED
        BY <4>1, <4>2 DEF TypeOK
    <3> QED
      BY <3>4, <3>5, <3>6 DEF Bounded, Honest
  <2> QED
    BY <2>1, <2>2
<1>5. TypeOK'
  BY <1>1, <1>2, <1>4 DEF TypeOK
<1> QED
  BY <1>1, <1>3, <1>4, <1>5, CarriersPreserve

\* An ingest that ends gives up what it has, or hands in the receipt of a
\* publication whose source has not changed.
LEMMA IngestEndsPreserves ==
  ASSUME IInv, NEW c \in Clients, Check(c) \/ IngestFails(c)
  PROVE  IInv'
<1> USE DEF IInv
<1>1. /\ UNCHANGED <<disk, memo, ticket, unlinked, acts, seen>>
      /\ Ingest(c, NoIngest)
  BY DEF Check, IngestFails
<1>2. /\ ingest' \in [Clients -> IngestType]
      /\ \A d \in Clients : ingest'[d] = IF d = c THEN NoIngest ELSE ingest[d]
  BY <1>1, NoIngestTyped, IngestUpdates
<1>3. /\ receipts' \in [Clients -> SUBSET Receipt]
      /\ \A d \in Clients : \A r \in receipts'[d] :
           \/ r \in receipts[d]
           \/ /\ ingest[d].at = "check"
              /\ r.oid = ingest[d].oid /\ r.stat = ingest[d].stat
  <2>1. CASE Check(c)
    <3>1. PICK r : r = [oid |-> ingest[c].oid, stat |-> ingest[c].stat]
      OBVIOUS
    <3>2. ingest[c].at = "check" /\ receipts' = [receipts EXCEPT ![c] = receipts[c] \cup {r}]
      BY <2>1, <3>1 DEF Check, TypeOK
    <3>3. r \in Receipt
      BY <3>1, <3>2, StatsTyped DEF Named, Knows, Receipt
    <3>4. receipts' \in [Clients -> SUBSET Receipt]
      BY <3>2, <3>3 DEF TypeOK
    <3>5. \A d \in Clients : receipts'[d] = IF d = c THEN receipts[c] \cup {r} ELSE receipts[d]
      BY <3>2 DEF TypeOK
    <3> QED
      BY <3>1, <3>2, <3>4, <3>5
  <2>2. CASE IngestFails(c)
    <3>1. receipts' = [receipts EXCEPT ![c] = {}]
      BY <2>2 DEF IngestFails
    <3> QED
      BY <3>1 DEF TypeOK
  <2> QED
    BY <2>1, <2>2
<1>4. TypeOK'
  BY <1>1, <1>2, <1>3 DEF TypeOK, disk
<1> QED
  BY <1>1, <1>2, <1>3, <1>4, CarriersPreserve DEF disk, Bounded, Honest

\* The proofs of an application are those of receipts.
LEMMA ApplyUpdates ==
  ASSUME IInv, NEW c \in Clients, Apply(c)
  PROVE  /\ UNCHANGED <<object, writes, source, ingest, unlinked, acts>>
         /\ proofs' \in [Oids -> Nat]
         /\ \A o \in Oids : proofs'[o] <= writes /\ Matches(object, o, proofs'[o], o)
         /\ memo' \in [Clients -> [Oids -> Statuses \cup {None}]]
         /\ \A d \in Clients, o \in Oids :
              memo'[d][o] = IF d = c /\ (\E r \in receipts[c] : r.oid = o) THEN None
                            ELSE memo[d][o]
         /\ ticket' \in [Clients -> TicketType]
         /\ \A d \in Clients :
              /\ ticket'[d].work = ticket[d].work /\ ticket'[d].known = ticket[d].known
              /\ ticket'[d].current = IF d = c THEN FALSE ELSE ticket[d].current
         /\ AskAnew(c, {r.oid : r \in receipts[c]})
         /\ receipts' = [receipts EXCEPT ![c] = {}]
<1> USE DEF IInv
<1> DEFINE S == {r.oid : r \in receipts[c]}
<1>1. /\ UNCHANGED <<object, writes, source, ingest, unlinked, acts>>
      /\ AskAnew(c, S) /\ receipts' = [receipts EXCEPT ![c] = {}]
      /\ ticket' = [ticket EXCEPT ![c].current = FALSE]
      /\ memo' = [memo EXCEPT ![c] = [o \in Oids |-> IF o \in S THEN None ELSE memo[c][o]]]
  BY DEF Apply, TypeOK
<1>2. PICK last \in [Oids -> 0 .. MaxWrites] :
        /\ \A o \in Oids : IF o \in S THEN [oid |-> o, stat |-> last[o]] \in receipts[c]
                           ELSE last[o] = 0
        /\ Persist([o \in Oids |-> IF o \in S THEN last[o] ELSE None])
  BY DEF Apply
<1>3. PICK delta : delta = [o \in Oids |-> IF o \in S THEN last[o] ELSE None]
  OBVIOUS
<1>4. \A o \in Oids : /\ delta[o] = IF o \in S THEN last[o] ELSE None
                      /\ last[o] \in Nat
  BY <1>3, Constants
<1>5. ASSUME NEW o \in Oids, delta[o] # None
      PROVE  delta[o] <= writes /\ Matches(object, o, delta[o], o)
  <2>1. PICK r \in receipts[c] : r = [oid |-> o, stat |-> delta[o]]
    BY <1>2, <1>4, <1>5
  <2>2. r.oid = o /\ r.stat = delta[o]
    BY <2>1
  <2> QED
    BY <2>2 DEF Bounded, Honest
<1>6. /\ proofs' \in [Oids -> Nat]
      /\ \A o \in Oids : \/ proofs'[o] = proofs[o]
                         \/ delta[o] # None /\ proofs'[o] = delta[o]
  <2>1. \A o \in Oids : delta[o] \in Nat \cup {None}
    BY <1>4
  <2> HIDE DEF S
  <2> QED
    BY <1>2, <1>3, <2>1, PersistUpdates
<1>7. \A o \in Oids : proofs'[o] <= writes /\ Matches(object, o, proofs'[o], o)
  BY <1>5, <1>6 DEF Bounded, Honest
<1>8. /\ memo' \in [Clients -> [Oids -> Statuses \cup {None}]]
      /\ \A d \in Clients, o \in Oids :
           memo'[d][o] = IF d = c /\ o \in S THEN None ELSE memo[d][o]
  <2> DEFINE g == [o \in Oids |-> IF o \in S THEN None ELSE memo[c][o]]
  <2>1. g \in [Oids -> Statuses \cup {None}] /\ memo' = [memo EXCEPT ![c] = g]
    BY <1>1 DEF TypeOK
  <2>2. \A o \in Oids : g[o] = IF o \in S THEN None ELSE memo[c][o]
    OBVIOUS
  <2> HIDE DEF g
  <2> QED
    BY <2>1, <2>2 DEF TypeOK
<1>9. /\ ticket' \in [Clients -> TicketType]
      /\ \A d \in Clients :
           /\ ticket'[d].work = ticket[d].work /\ ticket'[d].known = ticket[d].known
           /\ ticket'[d].current = IF d = c THEN FALSE ELSE ticket[d].current
  <2>1. PICK t : t = [ticket[c] EXCEPT !.current = FALSE]
    OBVIOUS
  <2>2. /\ t \in TicketType /\ t.work = ticket[c].work /\ t.known = ticket[c].known
        /\ t.current = FALSE
    <3>1. ticket[c] \in TicketType
      BY DEF TypeOK
    <3> QED
      BY <2>1, <3>1 DEF TicketType
  <2>3. ticket' = [ticket EXCEPT ![c] = t]
    BY <1>1, <2>1 DEF TypeOK
  <2> QED
    BY <2>2, <2>3 DEF TypeOK
<1>10. \A o : o \in S <=> \E r \in receipts[c] : r.oid = o
  OBVIOUS
<1> QED
  BY <1>1, <1>6, <1>7, <1>8, <1>9, <1>10

\* Applying a receipt keeps the invariant.
LEMMA ApplyPreserves ==
  ASSUME IInv, NEW c \in Clients, Apply(c)
  PROVE  IInv'
<1>1. /\ receipts' \in [Clients -> SUBSET Receipt]
      /\ \A d \in Clients : \A r \in receipts'[d] : r \in receipts[d]
  BY ApplyUpdates DEF IInv, TypeOK
<1>2. seen' \in [Clients -> [Oids -> SUBSET Statuses]]
  BY ApplyUpdates, AskUpdates DEF IInv
<1>3. TypeOK'
  BY <1>1, <1>2, ApplyUpdates DEF IInv, TypeOK
<1> QED
  BY <1>1, <1>3, ApplyUpdates, CarriersPreserve

\* Whoever removes a proof leaves none that lies.
LEMMA ForgetPreserves ==
  ASSUME IInv, ForgetUnlinked \/ RebuildIndex
  PROVE  IInv'
<1> USE DEF IInv
<1>1. UNCHANGED <<object, writes, source, memo, ticket, ingest, receipts, seen>>
  BY DEF ForgetUnlinked, RebuildIndex
<1>2. unlinked' \subseteq Oids /\ acts' \in Nat
  BY DEF ForgetUnlinked, RebuildIndex, Interfere, TypeOK
<1>3. /\ proofs' \in [Oids -> Nat]
      /\ \A o \in Oids : proofs'[o] \in {proofs[o], 0}
  <2>1. CASE ForgetUnlinked
    <3>1. PICK delta : delta = [o \in Oids |-> IF o \in unlinked THEN 0 ELSE None]
      OBVIOUS
    <3>2. \A o \in Oids : delta[o] \in {0, None}
      BY <3>1
    <3>3. Persist(delta)
      BY <2>1, <3>1 DEF ForgetUnlinked
    <3> QED
      BY <3>2, <3>3, PersistUpdates
  <2>2. CASE RebuildIndex
    BY <2>2 DEF RebuildIndex
  <2> QED
    BY <2>1, <2>2
<1>4. TypeOK'
  BY <1>1, <1>2, <1>3 DEF TypeOK
<1>5. ASSUME NEW o \in Oids
      PROVE  proofs'[o] <= writes /\ Matches(object, o, proofs'[o], o)
  <2>1. CASE proofs'[o] = proofs[o]
    BY <2>1 DEF Bounded, Honest
  <2>2. CASE proofs'[o] = 0
    BY <2>2, NoFileHasStatZero DEF TypeOK
  <2> QED
    BY <1>3, <2>1, <2>2
<1> QED
  BY <1>1, <1>4, <1>5, CarriersPreserve

-----------------------------------------------------------------------------
(* The steps that change a file, and the edits of the source.              *)

\* A file is written, replaced or removed, and everybody sees what is true now.
LEMMA PutUpdates ==
  ASSUME TypeOK, NEW o \in Oids, NEW f \in File \cup {Absent, Special}, Put(o, f)
  PROVE  /\ object' \in [Oids -> File \cup {Absent, Special}]
         /\ \A p \in Oids : object'[p] = IF p = o THEN f ELSE object[p]
         /\ seen' \in [Clients -> [Oids -> SUBSET Statuses]]
         /\ \A c \in Clients, p \in Oids :
              seen'[c][p] = IF p = o THEN seen[c][p] \cup {StatusOf(f, o)} ELSE seen[c][p]
<1>1. StatusOf(f, o) \in Statuses
  BY DEF StatusOf, Statuses
<1> QED
  BY <1>1 DEF Put, TypeOK

\* A stat that was in use still says of every object what it said, whether the
\* new file is the object itself or one that nobody has seen yet.
LEMMA PutKeeps ==
  ASSUME IInv, NEW o \in Oids, NEW f \in File \cup {Absent, Special}, Put(o, f),
         NEW p \in Oids, NEW n \in Nat, NEW b, Matches(object, p, n, b),
         \/ f \in {Absent, Special}
         \/ f.stat # n
         \/ f.body = o /\ b = p
  PROVE  Matches(object', p, n, b)
<1>1. object'[p] = IF p = o THEN f ELSE object[p]
  BY PutUpdates DEF IInv
<1> QED
  BY <1>1 DEF Matches

\* A publication keeps the invariant.
LEMMA PublishPreserves ==
  ASSUME IInv, NEW c \in Clients, Publish(c)
  PROVE  IInv'
<1> USE DEF IInv
<1> DEFINE i == ingest[c]
<1>1. /\ UNCHANGED <<proofs, writes, source, memo, ticket, unlinked, acts>>
      /\ i.at = "publish"
  BY DEF Publish
<1>2. /\ i \in IngestType /\ i.oid \in Bodies /\ i.body = i.oid /\ i.stat \in Nat
      /\ i.stat <= writes /\ Staged(i) /\ Knows(i)
  BY <1>1, Constants, StatsTyped DEF Named, Knows, Bounded, TypeOK, Staged
<1>3. PICK r : r = [oid |-> i.oid, stat |-> i.stat]
  OBVIOUS
<1>4. PICK j \in IngestType :
        /\ Ingest(c, j) /\ Knows(j) /\ ~Staged(j) /\ j.stat \in {0, i.stat}
        /\ j.at = "check" => j.oid = i.oid /\ j.stat = i.stat
  <2>1. CASE Ingest(c, NoIngest)
    BY <2>1, NoIngestTyped DEF Knows, Staged
  <2>2. CASE Ingest(c, [i EXCEPT !.at = "check"])
    <3> DEFINE j == [i EXCEPT !.at = "check"]
    <3>1. /\ j \in IngestType /\ j.at = "check" /\ j.oid = i.oid /\ j.stat = i.stat
          /\ j.body = i.body /\ j.how = i.how /\ j.print = i.print /\ j.hash = i.hash
      BY <1>2 DEF IngestType
    <3> HIDE DEF j
    <3>2. Knows(j) /\ ~Staged(j)
      BY <1>1, <1>2, <3>1 DEF Knows, Staged
    <3>3. Ingest(c, j)
      BY <2>2 DEF j
    <3> QED
      BY <3>1, <3>2, <3>3
  <2> QED
    BY <2>1, <2>2 DEF Publish
<1>5. /\ ingest' \in [Clients -> IngestType]
      /\ \A d \in Clients : ingest'[d] = IF d = c THEN j ELSE ingest[d]
  BY <1>4, IngestUpdates
<1>6. /\ receipts' \in [Clients -> SUBSET Receipt]
      /\ \A d \in Clients : \A q \in receipts'[d] : q \in receipts[d] \/ (d = c /\ q = r)
  <2>1. r \in Receipt
    BY <1>2, <1>3 DEF Receipt
  <2>2. receipts' \in {receipts, [receipts EXCEPT ![c] = receipts[c] \cup {r}]}
    BY <1>3 DEF Publish, TypeOK
  <2>3. CASE receipts' = receipts
    BY <2>3 DEF TypeOK
  <2>4. CASE receipts' = [receipts EXCEPT ![c] = receipts[c] \cup {r}]
    <3>1. receipts[c] \cup {r} \in SUBSET Receipt
      BY <2>1 DEF TypeOK
    <3>2. \A d \in Clients : receipts'[d] = IF d = c THEN receipts[c] \cup {r} ELSE receipts[d]
      BY <2>4 DEF TypeOK
    <3> QED
      BY <2>4, <3>1, <3>2 DEF TypeOK
  <2> QED
    BY <2>2, <2>3, <2>4
<1>7. r.oid = i.oid /\ r.stat = i.stat
  BY <1>3
<1> DEFINE f == [body |-> i.body, stat |-> i.stat, by |-> "gat"]
<1>8. CASE i.oid \notin Oids
  <2>1. UNCHANGED <<object, seen>>
    BY <1>8 DEF Publish
  <2>2. TypeOK'
    BY <1>1, <1>5, <1>6, <2>1 DEF TypeOK
  <2>3. Bounded'
    <3>1. j.stat <= writes
      BY <1>2, <1>4 DEF TypeOK
    <3> QED
      BY <1>1, <1>2, <1>5, <1>6, <1>7, <2>1, <3>1 DEF Bounded, Regular
  <2>4. Fresh'
    BY <1>1, <1>4, <1>5, <2>1 DEF Fresh, Regular, Staged
  <2>5. Named'
    BY <1>1, <1>4, <1>5 DEF Named, Knows
  <2>6. Honest'
    BY <1>1, <1>4, <1>5, <1>6, <1>7, <1>8, <2>1 DEF Honest
  <2>7. ObjectsMatchNames'
    BY <2>1 DEF ObjectsMatchNames, Regular
  <2> QED
    BY <2>2, <2>3, <2>4, <2>5, <2>6, <2>7
<1>9. CASE i.oid \in Oids
  <2>1. PICK g : g = f
    OBVIOUS
  <2>2. Put(i.oid, g)
    BY <1>9, <2>1 DEF Publish
  <2>3. i.stat # 0
    BY <1>2 DEF Fresh
  <2>4. g \in File /\ g.body = i.oid /\ g.stat = i.stat
    BY <1>2, <2>1, <2>3 DEF File
  <2>5. /\ object' \in [Oids -> File \cup {Absent, Special}]
        /\ \A p \in Oids : object'[p] = IF p = i.oid THEN g ELSE object[p]
        /\ seen' \in [Clients -> [Oids -> SUBSET Statuses]]
    BY <1>9, <2>2, <2>4, PutUpdates
  <2>6. TypeOK'
    BY <1>1, <1>5, <1>6, <2>5 DEF TypeOK
  <2>7. ASSUME NEW p \in Oids, Regular(p)'
        PROVE  \/ p = i.oid /\ object'[p] = g
               \/ p # i.oid /\ object'[p] = object[p] /\ Regular(p)
    BY <2>5, <2>7 DEF Regular
  <2>8. Bounded'
    <3>1. j.stat <= writes
      BY <1>2, <1>4 DEF TypeOK
    <3>2. \A p \in Oids : Regular(p)' => object'[p].stat <= writes
      BY <1>2, <2>4, <2>7 DEF Bounded
    <3> QED
      BY <1>1, <1>2, <1>5, <1>6, <1>7, <3>1, <3>2 DEF Bounded
  <2>9. Fresh'
    <3>1. ASSUME NEW d \in Clients, Staged(ingest'[d])
          PROVE  d # c /\ ingest'[d] = ingest[d] /\ ingest[d].stat # i.stat
      BY <1>2, <1>4, <1>5, <3>1 DEF Fresh
    <3>2. ASSUME NEW d \in Clients, Staged(ingest'[d]), NEW p \in Oids, Regular(p)'
          PROVE  object'[p].stat # ingest[d].stat
      BY <2>4, <2>7, <3>1, <3>2 DEF Fresh
    <3>3. ASSUME NEW d \in Clients, Staged(ingest'[d])
          PROVE  /\ ingest[d].stat # 0
                 /\ \A e \in Clients :
                      /\ e # d /\ Staged(ingest'[e]) => ingest'[e].stat # ingest[d].stat
                      /\ \A o \in Oids : ticket[e].work[o].at \in {"hash", "confirm"} =>
                                           ticket[e].work[o].stat # ingest[d].stat
      BY <3>1, <3>3 DEF Fresh
    <3> QED
      BY <1>1, <3>1, <3>2, <3>3 DEF Fresh, Staged
  <2>10. Named'
    BY <1>1, <1>4, <1>5 DEF Named, Knows
  <2>11. ASSUME NEW p \in Oids, NEW n \in Nat, Matches(object, p, n, p)
         PROVE  Matches(object', p, n, p)
    BY <1>9, <2>2, <2>4, <2>11, PutKeeps
  <2>12. \A n : Matches(object', i.oid, n, i.oid)
    BY <1>9, <2>4, <2>5 DEF Matches
  <2>13. Honest'
    <3>1. \A p \in Oids : Matches(object', p, proofs[p], p)
      BY <2>11 DEF Honest, TypeOK
    <3>2. ASSUME NEW d \in Clients, ingest'[d].at = "check", ingest'[d].oid \in Oids
          PROVE  Matches(object', ingest'[d].oid, ingest'[d].stat, ingest'[d].oid)
      <4>1. CASE d = c
        BY <1>4, <1>5, <2>12, <3>2, <4>1
      <4>2. CASE d # c
        BY <1>5, <2>11, <3>2, <4>2, StatsTyped DEF Honest
      <4> QED
        BY <4>1, <4>2
    <3>3. ASSUME NEW d \in Clients, NEW q \in receipts'[d], q.oid \in Oids
          PROVE  Matches(object', q.oid, q.stat, q.oid)
      <4>1. CASE q \in receipts[d]
        BY <2>11, <3>3, <4>1, StatsTyped DEF Honest
      <4>2. CASE q = r
        BY <1>7, <2>12, <4>2
      <4> QED
        BY <1>6, <4>1, <4>2
    <3>4. ASSUME NEW d \in Clients, NEW o \in Oids
          PROVE  LET w == ticket[d].work[o]
                 IN /\ w.at = "stat" => Matches(object', o, w.stat, o)
                    /\ w.at = "confirm" => Matches(object', o, w.stat, w.body)
                    /\ w.delta # None => Matches(object', o, w.delta, o)
      <4> DEFINE w == ticket[d].work[o]
      <4>1. w \in WorkType
        BY StatsTyped
      <4>2. w.at = "stat" => Matches(object', o, w.stat, o)
        BY <2>11, <4>1 DEF Honest, WorkType
      <4>3. w.delta # None => Matches(object', o, w.delta, o)
        BY <2>11, <4>1 DEF Honest, WorkType
      <4>4. w.at = "confirm" => Matches(object', o, w.stat, w.body)
        <5>1. w.at = "confirm" => w.stat # i.stat /\ Matches(object, o, w.stat, w.body)
          BY <1>2 DEF Fresh, Honest
        <5> QED
          BY <2>4, <2>5, <5>1 DEF Matches
      <4> QED
        BY <4>2, <4>3, <4>4
    <3> QED
      BY <1>1, <3>1, <3>2, <3>3, <3>4 DEF Honest
  <2>14. ObjectsMatchNames'
    BY <2>4, <2>7 DEF ObjectsMatchNames
  <2> QED
    BY <2>6, <2>8, <2>9, <2>10, <2>13, <2>14
<1> QED
  BY <1>8, <1>9

\* What others do to a file: it is removed, or becomes another that has a stat
\* of its own.
Changes(o) == Unlink(o) \/ Damage(o)

\* A removal or a damage replaces one file by another that no proof matches.
LEMMA ChangesPut ==
  ASSUME TypeOK, NEW o \in Oids, Changes(o)
  PROVE  /\ UNCHANGED <<proofs, source, memo, ticket, ingest, receipts>>
         /\ unlinked' \subseteq Oids /\ acts' \in Nat
         /\ \E f \in File \cup {Absent, Special} :
              /\ Put(o, f)
              /\ \/ f \in {Absent, Special} /\ writes' = writes
                 \/ /\ f \in File /\ f.stat = writes + 1 /\ f.by = "other"
                    /\ writes' = writes + 1
<1>1. /\ UNCHANGED <<proofs, source, memo, ticket, ingest, receipts>>
      /\ unlinked' \subseteq Oids /\ acts' \in Nat
  BY DEF Changes, Unlink, Damage, Interfere, TypeOK
<1>2. CASE Unlink(o)
  BY <1>1, <1>2 DEF Unlink
<1>3. CASE Damage(o) /\ Put(o, Special) /\ writes' = writes
  BY <1>1, <1>3
<1>4. CASE /\ writes' = writes + 1
           /\ \E body \in {o, Junk} : Put(o, [body |-> body, stat |-> writes + 1, by |-> "other"])
  <2>1. PICK body \in {o, Junk} : Put(o, [body |-> body, stat |-> writes + 1, by |-> "other"])
    BY <1>4
  <2>2. PICK f : f = [body |-> body, stat |-> writes + 1, by |-> "other"]
    OBVIOUS
  <2>3. writes + 1 \in Nat \ {0} /\ body \in Bodies
    BY DEF TypeOK, Bodies
  <2>4. f \in File /\ f.stat = writes + 1 /\ f.by = "other"
    BY <2>2, <2>3 DEF File
  <2>5. Put(o, f)
    BY <2>1, <2>2
  <2> QED
    BY <1>1, <1>4, <2>4, <2>5
<1> QED
  BY <1>2, <1>3, <1>4 DEF Changes, Damage

\* A removal or a damage keeps the invariant.
LEMMA ChangesPreserves ==
  ASSUME IInv, NEW o \in Oids, Changes(o)
  PROVE  IInv'
<1> USE DEF IInv
<1>1. /\ UNCHANGED <<proofs, source, memo, ticket, ingest, receipts>>
      /\ unlinked' \subseteq Oids /\ acts' \in Nat
  BY ChangesPut
<1>2. PICK f \in File \cup {Absent, Special} :
        /\ Put(o, f)
        /\ \/ f \in {Absent, Special} /\ writes' = writes
           \/ f \in File /\ f.stat = writes + 1 /\ f.by = "other" /\ writes' = writes + 1
  BY ChangesPut
<1>3. /\ object' \in [Oids -> File \cup {Absent, Special}]
      /\ \A p \in Oids : object'[p] = IF p = o THEN f ELSE object[p]
      /\ seen' \in [Clients -> [Oids -> SUBSET Statuses]]
  BY <1>2, PutUpdates
<1>4. writes \in Nat /\ writes' \in Nat /\ writes <= writes'
  BY <1>2 DEF TypeOK
<1>5. TypeOK'
  BY <1>1, <1>3, <1>4 DEF TypeOK
<1>6. ASSUME NEW p \in Oids, Regular(p)'
      PROVE  \/ /\ p = o /\ object'[p] = f /\ f \in File /\ f.stat = writes + 1
                /\ f.by = "other" /\ writes' = writes + 1
             \/ p # o /\ object'[p] = object[p] /\ Regular(p)
  BY <1>2, <1>3, <1>6 DEF Regular
<1>7. \A n \in Nat : n <= writes => n <= writes' /\ n # writes + 1
  BY <1>4
<1>8. Bounded'
  <2>1. ASSUME NEW p \in Oids
        PROVE  proofs[p] <= writes' /\ (Regular(p)' => object'[p].stat <= writes')
    <3>1. Regular(p) => object[p].stat \in Nat /\ object[p].stat <= writes
      BY DEF TypeOK, Bounded, Regular, File
    <3>2. proofs[p] <= writes'
      BY <1>7 DEF TypeOK, Bounded
    <3> QED
      BY <1>4, <1>6, <1>7, <3>1, <3>2
  <2>2. ASSUME NEW c \in Clients
        PROVE  /\ ingest[c].stat <= writes'
               /\ \A r \in receipts[c] : r.stat <= writes'
    BY <1>7, StatsTyped DEF Bounded
  <2>3. ASSUME NEW c \in Clients, NEW p \in Oids
        PROVE  /\ ticket[c].work[p].stat <= writes'
               /\ ticket[c].work[p].delta # None => ticket[c].work[p].delta <= writes'
    BY <1>7, StatsTyped DEF Bounded, WorkType
  <2> QED
    BY <1>1, <2>1, <2>2, <2>3 DEF Bounded
<1>9. Fresh'
  <2>1. ASSUME NEW c \in Clients, Staged(ingest[c]), NEW p \in Oids, Regular(p)'
        PROVE  object'[p].stat # ingest[c].stat
    <3>1. ingest[c].stat # writes + 1
      BY <1>7, StatsTyped DEF Bounded
    <3> QED
      BY <1>6, <2>1, <3>1 DEF Fresh
  <2> QED
    BY <1>1, <2>1 DEF Fresh, Staged
<1>10. Named'
  BY <1>1 DEF Named, Knows
<1>11. Honest'
  <2>1. ASSUME NEW p \in Oids, NEW n \in Nat, n <= writes, NEW b, Matches(object, p, n, b)
        PROVE  Matches(object', p, n, b)
    BY <1>2, <1>7, <2>1, PutKeeps
  <2>2. ASSUME NEW p \in Oids
        PROVE  Matches(object', p, proofs[p], p)
    BY <2>1 DEF TypeOK, Bounded, Honest
  <2>3. ASSUME NEW c \in Clients
        PROVE  /\ ingest[c].at = "check" /\ ingest[c].oid \in Oids =>
                    Matches(object', ingest[c].oid, ingest[c].stat, ingest[c].oid)
               /\ \A r \in receipts[c] : r.oid \in Oids => Matches(object', r.oid, r.stat, r.oid)
    BY <2>1, StatsTyped DEF Bounded, Honest
  <2>4. ASSUME NEW c \in Clients, NEW p \in Oids
        PROVE  LET w == ticket[c].work[p]
               IN /\ w.at = "stat" => Matches(object', p, w.stat, p)
                  /\ w.at = "confirm" => Matches(object', p, w.stat, w.body)
                  /\ w.delta # None => Matches(object', p, w.delta, p)
    <3> DEFINE w == ticket[c].work[p]
    <3>1. w \in WorkType /\ w.stat \in Nat /\ (w.delta # None => w.delta \in Nat)
      BY StatsTyped DEF WorkType
    <3>2. w.stat <= writes /\ (w.delta # None => w.delta <= writes)
      BY DEF Bounded
    <3>3. /\ w.at = "stat" => Matches(object, p, w.stat, p)
          /\ w.at = "confirm" => Matches(object, p, w.stat, w.body)
          /\ w.delta # None => Matches(object, p, w.delta, p)
      BY DEF Honest
    <3> HIDE DEF w
    <3>4. /\ w.at = "stat" => Matches(object', p, w.stat, p)
          /\ w.at = "confirm" => Matches(object', p, w.stat, w.body)
          /\ w.delta # None => Matches(object', p, w.delta, p)
      BY <2>1, <3>1, <3>2, <3>3
    <3> QED
      BY <3>4 DEF w
  <2> QED
    BY <1>1, <2>2, <2>3, <2>4 DEF Honest
<1>12. ObjectsMatchNames'
  BY <1>6 DEF ObjectsMatchNames
<1> QED
  BY <1>5, <1>8, <1>9, <1>10, <1>11, <1>12

\* An edit of the source makes it another file for every ingest.
LEMMA EditPreserves ==
  ASSUME IInv, EditSource
  PROVE  IInv'
<1> USE DEF IInv
<1>1. UNCHANGED <<object, proofs, writes, memo, ticket, ingest, receipts, unlinked, acts, seen>>
  BY DEF EditSource
<1>2. source' \in [body : Bodies, stat : Nat] /\ source'.stat = source.stat + 1
  <2>1. PICK body \in Bodies : source' = [body |-> body, stat |-> source.stat + 1]
    BY DEF EditSource
  <2>2. source.stat \in Nat /\ source.stat + 1 \in Nat
    BY DEF TypeOK
  <2> QED
    BY <2>1, <2>2
<1>3. TypeOK'
  BY <1>1, <1>2 DEF TypeOK
<1>4. Named'
  <2>1. ASSUME NEW c \in Clients, ingest[c].print # None
        PROVE  ingest[c].print <= source'.stat /\ ingest[c].print # source'.stat
    <3>1. ingest[c].print \in Nat /\ source.stat \in Nat
      BY <2>1 DEF TypeOK, IngestType
    <3>2. ingest[c].print <= source.stat
      BY <2>1 DEF Named, Knows
    <3> QED
      BY <1>2, <3>1, <3>2
  <2> QED
    BY <1>1, <2>1 DEF Named, Knows
<1> QED
  BY <1>1, <1>3, <1>4 DEF Bounded, Fresh, Honest, ObjectsMatchNames, Regular

-----------------------------------------------------------------------------
(* The safety theorems.                                                    *)

\* An empty cache and clients that ask nothing.
LEMMA InitIInv ==
  Init => IInv
<1> SUFFICES ASSUME Init PROVE IInv
  OBVIOUS
<1> USE DEF Init
<1>1. /\ \A c \in Clients : ingest[c] = NoIngest /\ ticket[c] = NoTicket /\ receipts[c] = {}
      /\ \A o \in Oids : object[o] = Absent /\ proofs[o] = 0 /\ ~Regular(o)
  BY DEF Regular
<1>2. TypeOK
  BY NoTicketTyped, NoIngestTyped DEF TypeOK, Statuses
<1>3. Bounded
  BY <1>1, NoTicketTyped, UnaskedTyped, NoIngestTyped DEF Bounded
<1>4. Fresh /\ Named
  BY <1>1, NoIngestTyped DEF Fresh, Named, Knows, Staged
<1>5. Honest
  BY <1>1, NoTicketTyped, UnaskedTyped, NoIngestTyped DEF Honest, Matches, Regular
<1>6. ObjectsMatchNames
  BY <1>1 DEF ObjectsMatchNames
<1> QED
  BY <1>2, <1>3, <1>4, <1>5, <1>6 DEF IInv

\* Next, by the groups of the lemmas.
LEMMA NextGroups ==
  ASSUME Next
  PROVE  \/ \E c \in Clients, o \in Oids : Look(c, o)
         \/ \E c \in Clients : \/ Makes(c) \/ Asks(c) \/ VerifyFails(c) \/ Commit(c)
                               \/ Check(c) \/ IngestFails(c) \/ Apply(c) \/ Publish(c)
         \/ \E o \in Oids : Changes(o)
         \/ ForgetUnlinked \/ RebuildIndex \/ EditSource
BY DEF Next, Others, Verify, Ingesting, Look, Makes, Asks, Changes

\* The invariant holds throughout.
THEOREM Invariance == Spec => []IInv
<1>1. IInv /\ [Next]_vars => IInv'
  <2> SUFFICES ASSUME IInv, [Next]_vars PROVE IInv'
    OBVIOUS
  <2>1. CASE Next
    BY <2>1, NextGroups, LookPreserves, MakesPreserves, AsksPreserves, EndsPreserves,
       IngestEndsPreserves, ApplyPreserves, PublishPreserves, ChangesPreserves,
       ForgetPreserves, EditPreserves
  <2>2. CASE UNCHANGED vars
    BY <2>2 DEF vars, disk, IInv, TypeOK, Bounded, Fresh, Named, Knows, Honest,
                ObjectsMatchNames, Regular, Staged
  <2> QED
    BY <2>1, <2>2
<1> QED
  BY <1>1, InitIInv, PTL DEF Spec

\* Every variable has its type.
THEOREM TypeCorrect == Spec => []TypeOK
<1>1. IInv => TypeOK
  BY DEF IInv
<1> QED
  BY <1>1, Invariance, PTL

\* No proof, recorded or carried by a ticket or a receipt, vouches for other bytes.
THEOREM ProofsAreHonest == Spec => []ProofHonest
<1>1. IInv => ProofHonest
  BY DEF IInv, Honest, ProofHonest, Matches, Regular
<1> QED
  BY <1>1, Invariance, PTL

\* What gat publishes has the bytes of its name, if every edit of a source
\* changes its stat.
THEOREM NamesAreTrue == Spec => []ObjectsMatchNames
<1>1. IInv => ObjectsMatchNames
  BY DEF IInv
<1> QED
  BY <1>1, Invariance, PTL

-----------------------------------------------------------------------------
(* Answers.                                                                *)

AInv == TruthSeen /\ AnswersCurrent

\* AnswersCurrent, of one client and one object.
Answered(c, o) ==
  /\ memo[c][o] \in seen[c][o] \cup {None}
  /\ ticket[c].current => ticket[c].work[o].status \in seen[c][o] \cup {None}
  /\ ticket[c].current => ticket[c].known[o] \in {memo[c][o], None}

\* A change of a file adds to what was true, and takes nothing away.
LEMMA PutAnswers ==
  ASSUME TypeOK, AInv, UNCHANGED <<memo, ticket>>,
         NEW o \in Oids, NEW f \in File \cup {Absent, Special}, Put(o, f)
  PROVE  AInv'
<1>1. /\ \A p \in Oids : object'[p] = IF p = o THEN f ELSE object[p]
      /\ \A c \in Clients, p \in Oids :
           seen'[c][p] = IF p = o THEN seen[c][p] \cup {StatusOf(f, o)} ELSE seen[c][p]
  BY PutUpdates
<1>2. ASSUME NEW c \in Clients, NEW p \in Oids
      PROVE  /\ seen[c][p] \subseteq seen'[c][p]
             /\ StatusOf(object'[p], p) \in seen'[c][p]
  <2>1. StatusOf(object[p], p) \in seen[c][p]
    BY <1>2 DEF AInv, TruthSeen, Truth
  <2>2. CASE p = o
    BY <1>1, <1>2, <2>2
  <2>3. CASE p # o
    BY <1>1, <1>2, <2>1, <2>3
  <2> QED
    BY <2>2, <2>3
<1>3. TruthSeen'
  BY <1>2 DEF TruthSeen, Truth
<1>4. AnswersCurrent'
  <2> SUFFICES ASSUME NEW c \in Clients, NEW p \in Oids
               PROVE  Answered(c, p)'
    BY DEF AnswersCurrent, Answered
  <2>1. Answered(c, p)
    BY DEF AInv, AnswersCurrent, Answered
  <2>2. seen[c][p] \subseteq seen'[c][p]
    BY <1>2
  <2> QED
    BY <2>1, <2>2 DEF Answered
<1> QED
  BY <1>3, <1>4 DEF AInv

\* A look learns what is true at that moment.
LEMMA LookAnswers ==
  ASSUME IInv, AInv, NEW c \in Clients, NEW o \in Oids, Look(c, o)
  PROVE  AInv'
<1>1. UNCHANGED <<object, memo, seen>>
  BY LookLearns DEF IInv, disk
<1>2. PICK v \in WorkType : Work(c, o, v) /\ Learns(o, ticket[c].work[o], v)
  BY LookLearns DEF IInv
<1>3. \A d \in Clients :
        /\ ticket'[d].current = ticket[d].current /\ ticket'[d].known = ticket[d].known
        /\ \A p \in Oids :
             ticket'[d].work[p] = IF d = c /\ p = o THEN v ELSE ticket[d].work[p]
  BY <1>2, WorkUpdates DEF IInv
<1>4. v.status \in {None, ticket[c].work[o].status, Truth(o)}
  BY <1>2 DEF Learns
<1>5. TruthSeen'
  BY <1>1 DEF AInv, TruthSeen, Truth
<1>6. AnswersCurrent'
  BY <1>1, <1>3, <1>4 DEF AInv, TruthSeen, AnswersCurrent
<1> QED
  BY <1>5, <1>6 DEF AInv

\* After asking anew the truth has been seen.
LEMMA AskTruth ==
  ASSUME TypeOK, TruthSeen, NEW c \in Clients, NEW Q, AskAnew(c, Q)
  PROVE  UNCHANGED object => TruthSeen'
<1>1. \A d \in Clients, o \in Oids :
        seen'[d][o] = IF d = c /\ o \in Q THEN {Truth(o)} ELSE seen[d][o]
  BY AskUpdates DEF AskAnew
<1> SUFFICES ASSUME UNCHANGED object, NEW d \in Clients, NEW o \in Oids
             PROVE  Truth(o)' \in seen'[d][o]
  BY DEF TruthSeen
<1>2. Truth(o)' = Truth(o)
  BY DEF Truth
<1>3. Truth(o) \in seen[d][o]
  BY DEF TruthSeen
<1> QED
  BY <1>1, <1>2, <1>3

\* A ticket starts with no answer older than its question.
LEMMA AsksAnswers ==
  ASSUME IInv, AInv, NEW c \in Clients, Asks(c)
  PROVE  AInv'
<1>0. TypeOK
  BY DEF IInv
<1>1. UNCHANGED <<object, memo>>
  BY <1>0, AsksPrepared DEF disk
<1>2. PICK kind \in {"worker", "here", "bare"}, S \in SUBSET Oids, indexed \in BOOLEAN :
        ticket' = [ticket EXCEPT ![c] = Prepared(c, kind, S, indexed)]
  BY <1>0, AsksPrepared
<1>3. PICK t : t = Prepared(c, kind, S, indexed)
  OBVIOUS
<1>4. \A o \in Oids : t.known[o] \in {memo[c][o], None} /\ t.work[o].status = None
  BY <1>0, <1>3, PreparedTyped
<1>5. \A d \in Clients : ticket'[d] = IF d = c THEN t ELSE ticket[d]
  BY <1>0, <1>2, <1>3 DEF TypeOK
<1>6. PICK Q : Q = Asked(c, ticket'[c])
  OBVIOUS
<1>7. AskAnew(c, Q)
  BY <1>0, <1>6, AsksPrepared
<1>8. \A d \in Clients, o \in Oids :
        seen'[d][o] = IF d = c /\ o \in Q THEN {Truth(o)} ELSE seen[d][o]
  BY <1>0, <1>7, AskUpdates
<1>9. \A o \in Q : memo[c][o] = None
  BY <1>6 DEF Asked
<1>10. TruthSeen'
  BY <1>0, <1>1, <1>7, AskTruth DEF AInv
<1>11. AnswersCurrent'
  <2> SUFFICES ASSUME NEW d \in Clients, NEW o \in Oids
               PROVE  Answered(d, o)'
    BY DEF AnswersCurrent, Answered
  <2>1. Answered(d, o) /\ memo'[d][o] = memo[d][o]
    BY <1>1 DEF AInv, AnswersCurrent, Answered
  <2>2. CASE d # c
    BY <1>5, <1>8, <2>1, <2>2 DEF Answered
  <2>3. CASE d = c
    <3>1. memo'[c][o] \in seen'[c][o] \cup {None}
      BY <1>8, <1>9, <2>1, <2>3 DEF Answered
    <3>2. ticket'[c] = t /\ t.work[o].status = None /\ t.known[o] \in {memo[c][o], None}
      BY <1>4, <1>5
    <3> QED
      BY <2>1, <2>3, <3>1, <3>2 DEF Answered
  <2> QED
    BY <2>2, <2>3
<1> QED
  BY <1>10, <1>11 DEF AInv

\* What a ticket commits to the memo is still current.
LEMMA EndsAnswers ==
  ASSUME IInv, AInv, NEW c \in Clients, VerifyFails(c) \/ Commit(c)
  PROVE  AInv'
<1>1. UNCHANGED <<object, seen>> /\ ticket' = [ticket EXCEPT ![c] = NoTicket]
  BY DEF VerifyFails, Commit, disk
<1>2. \A d \in Clients : ticket'[d] = IF d = c THEN NoTicket ELSE ticket[d]
  BY <1>1 DEF IInv, TypeOK
<1>3. /\ \A d \in Clients : d # c => memo'[d] = memo[d]
      /\ \A o \in Oids : memo'[c][o] \in seen[c][o] \cup {None}
  <2>1. CASE UNCHANGED memo
    BY <2>1 DEF AInv, AnswersCurrent
  <2>2. CASE /\ ticket[c].current
             /\ memo' = [memo EXCEPT ![c] = [o \in Oids |->
                  IF ticket[c].work[o].at = "done" THEN ticket[c].work[o].status
                  ELSE memo[c][o]]]
    <3> DEFINE g == [o \in Oids |-> IF ticket[c].work[o].at = "done"
                                    THEN ticket[c].work[o].status ELSE memo[c][o]]
    <3>1. \A o \in Oids : g[o] \in seen[c][o] \cup {None}
      BY <2>2 DEF AInv, AnswersCurrent
    <3>2. memo' = [memo EXCEPT ![c] = g]
      BY <2>2
    <3> HIDE DEF g
    <3> QED
      BY <3>1, <3>2 DEF IInv, TypeOK
  <2>3. UNCHANGED memo \/ (/\ ticket[c].current
                           /\ memo' = [memo EXCEPT ![c] = [o \in Oids |->
                                IF ticket[c].work[o].at = "done" THEN ticket[c].work[o].status
                                ELSE memo[c][o]]])
    BY DEF VerifyFails, Commit, IInv, TypeOK
  <2> QED
    BY <2>1, <2>2, <2>3
<1>4. TruthSeen'
  BY <1>1 DEF AInv, TruthSeen, Truth
<1>5. AnswersCurrent'
  BY <1>1, <1>2, <1>3, NoTicketTyped, UnaskedTyped DEF AInv, AnswersCurrent
<1> QED
  BY <1>4, <1>5 DEF AInv

\* What a receipt brings into the memo is true.
LEMMA ApplyAnswers ==
  ASSUME IInv, AInv, NEW c \in Clients, Apply(c)
  PROVE  AInv'
<1>0. TypeOK
  BY DEF IInv
<1>1. PICK Q : Q = {r.oid : r \in receipts[c]}
  OBVIOUS
<1>2. AskAnew(c, Q)
  BY <1>1, ApplyUpdates
<1>3. \A d \in Clients, o \in Oids :
        seen'[d][o] = IF d = c /\ o \in Q THEN {Truth(o)} ELSE seen[d][o]
  BY <1>0, <1>2, AskUpdates DEF AskAnew
<1>4. \A o : o \in Q <=> \E r \in receipts[c] : r.oid = o
  BY <1>1
<1>5. \A d \in Clients, o \in Oids :
        memo'[d][o] = IF d = c /\ (\E r \in receipts[c] : r.oid = o) THEN None
                      ELSE memo[d][o]
  BY ApplyUpdates
<1>6. \A d \in Clients :
        /\ ticket'[d].work = ticket[d].work /\ ticket'[d].known = ticket[d].known
        /\ ticket'[d].current = IF d = c THEN FALSE ELSE ticket[d].current
  BY ApplyUpdates
<1>7. TruthSeen'
  <2>1. UNCHANGED object
    BY ApplyUpdates
  <2> QED
    BY <1>0, <1>2, <2>1, AskTruth DEF AInv
<1>8. AnswersCurrent'
  <2> SUFFICES ASSUME NEW d \in Clients, NEW o \in Oids
               PROVE  Answered(d, o)'
    BY DEF AnswersCurrent, Answered
  <2>1. Answered(d, o)
    BY DEF AInv, AnswersCurrent, Answered
  <2>2. CASE d # c
    BY <1>3, <1>5, <1>6, <2>1, <2>2 DEF Answered
  <2>3. CASE d = c
    <3>1. memo'[c][o] = IF o \in Q THEN None ELSE memo[c][o]
      BY <1>4, <1>5
    <3>2. memo'[c][o] \in seen'[c][o] \cup {None}
      BY <1>3, <2>1, <2>3, <3>1 DEF Answered
    <3> QED
      BY <1>6, <2>3, <3>2 DEF Answered
  <2> QED
    BY <2>2, <2>3
<1> QED
  BY <1>7, <1>8 DEF AInv

\* A publication makes the remembered status true or forgets it.
LEMMA PublishAnswers ==
  ASSUME IInv, AInv, NEW c \in Clients, Publish(c)
  PROVE  AInv'
<1> DEFINE i == ingest[c]
<1>1. UNCHANGED <<memo, ticket>> /\ i.at = "publish"
  BY DEF Publish
<1>2. CASE i.oid \notin Oids
  BY <1>1, <1>2 DEF Publish, AInv, TruthSeen, Truth, AnswersCurrent
<1>3. CASE i.oid \in Oids
  <2>1. PICK f : f = [body |-> i.body, stat |-> i.stat, by |-> "gat"]
    OBVIOUS
  <2>2. Put(i.oid, f)
    BY <1>3, <2>1 DEF Publish
  <2>3. i.body \in Bodies /\ i.stat \in Nat /\ Staged(i)
    BY <1>1, StatsTyped, Constants DEF IInv, Named, Knows, Staged
  <2>4. f \in File
    BY <2>1, <2>3 DEF File, IInv, Fresh
  <2> QED
    BY <1>1, <1>3, <2>2, <2>4, PutAnswers DEF IInv
<1> QED
  BY <1>2, <1>3

\* Every answer, and everything remembered, was true since the client asked.
THEOREM AnswersAreCurrent == Spec => []AnswersCurrent
<1>1. Init => AInv
  <2> SUFFICES ASSUME Init PROVE AInv
    OBVIOUS
  <2>1. TruthSeen
    BY DEF Init, TruthSeen, Truth, StatusOf
  <2>2. AnswersCurrent
    BY NoTicketTyped, UnaskedTyped DEF Init, AnswersCurrent
  <2> QED
    BY <2>1, <2>2 DEF AInv
<1>2. IInv /\ AInv /\ [Next]_vars => AInv'
  <2> SUFFICES ASSUME IInv, AInv, [Next]_vars PROVE AInv'
    OBVIOUS
  <2>1. CASE UNCHANGED <<object, memo, ticket, seen>>
    BY <2>1 DEF AInv, TruthSeen, Truth, AnswersCurrent
  <2>2. ASSUME NEW o \in Oids, Changes(o)
        PROVE  AInv'
    BY <2>2, ChangesPut, PutAnswers DEF IInv
  <2>3. ASSUME NEW c \in Clients, Makes(c) \/ Check(c) \/ IngestFails(c)
        PROVE  UNCHANGED <<object, memo, ticket, seen>>
    BY <2>3, MakesKnows DEF IInv, Check, IngestFails, disk
  <2>4. ASSUME ForgetUnlinked \/ RebuildIndex \/ EditSource
        PROVE  UNCHANGED <<object, memo, ticket, seen>>
    BY <2>4 DEF ForgetUnlinked, RebuildIndex, EditSource
  <2>5. CASE Next
    BY <2>1, <2>2, <2>3, <2>4, <2>5, NextGroups, LookAnswers, AsksAnswers, EndsAnswers,
       ApplyAnswers, PublishAnswers
  <2>6. CASE UNCHANGED vars
    BY <2>1, <2>6 DEF vars, disk
  <2> QED
    BY <2>5, <2>6
<1>3. AInv => AnswersCurrent
  BY DEF AInv
<1> QED
  BY <1>1, <1>2, <1>3, Invariance, PTL DEF Spec
=============================================================================
