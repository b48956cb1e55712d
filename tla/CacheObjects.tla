---------------------------- MODULE CacheObjects ----------------------------
(***************************************************************************)
(* The object cache: one file per oid, the index of stat proofs beside it, *)
(* and the clients of one or several gat processes that verify, ingest and *)
(* publish objects, while another process sweeps them, rebuilds the index, *)
(* and anybody may damage a file.                                          *)
(*                                                                         *)
(* A proof says that the file with this stat has the bytes of the oid, so  *)
(* that a later verification need not hash.  A client remembers what it    *)
(* verified in its memo.  Verification works on a ticket that the          *)
(* coordinator prepares and commits and that a worker fills in, one file   *)
(* system call after the other; workers never open the index.  A publica-  *)
(* tion leaves a receipt that the coordinator applies later: the memo is   *)
(* forgotten and the generation of outstanding tickets ends.               *)
(*                                                                         *)
(* Sources: gat-io/src/cache/object.rs, proof.rs, enumeration.rs,          *)
(* maintenance.rs, file_state.rs and worktree.rs.                          *)
(***************************************************************************)
EXTENDS Naturals, FiniteSets

CONSTANTS
  Clients,     \* operations, each with its client, its coordinator, a worker
  Oids,
  Junk,        \* any other bytes; their own object is not in the model
  Absent, Special, None,
  Window,      \* oids of one ticket
  MaxWrites,   \* bound: files that come to be in the cache
  MaxEdits,    \* bound: edits of the source that is ingested
  MaxActs      \* bound: what others do to the cache

ASSUME CacheAssumption ==
  /\ Junk \notin Oids /\ None \notin Oids \cup {Junk} /\ Absent # Special
  /\ Window \in Nat \ {0} /\ MaxWrites \in Nat /\ MaxEdits \in Nat /\ MaxActs \in Nat

Bodies == Oids \cup {Junk}

VARIABLES
  object,    \* the file at the path of each oid
  proofs,    \* the index: the stat it has on record, or 0
  writes,    \* stats given out: no two files of the cache share one
  source,    \* the worktree file that is added: its body and its stat
  memo,      \* client -> oid -> what it remembers
  ticket,    \* client -> the verification under way
  ingest,    \* client -> the ingest under way
  receipts,  \* client -> publications not applied yet
  unlinked,  \* objects a sweep has unlinked and whose proofs it still keeps
  acts,      \* how often others have interfered
  seen       \* history: what was true of an object since the client asked

disk == <<object, proofs, writes, source>>
vars == <<disk, memo, ticket, ingest, receipts, unlinked, acts, seen>>

Regular(o) == object[o] \notin {Absent, Special}

StatusOf(f, o) ==
  IF f = Absent THEN "missing" ELSE IF f # Special /\ f.body = o THEN "valid" ELSE "corrupt"
Truth(o) == StatusOf(object[o], o)
Statuses == {"missing", "valid", "corrupt"}

Unasked == [at |-> "none", stat |-> 0, body |-> None, status |-> None, delta |-> None]
NoTicket ==
  [kind |-> "none", oids |-> {}, known |-> [o \in Oids |-> None], current |-> TRUE,
   work |-> [o \in Oids |-> Unasked]]
NoIngest == [at |-> "none", how |-> "none", oid |-> None, before |-> None,
             print |-> None, body |-> None, hash |-> None, stat |-> 0]

Init ==
  /\ object = [o \in Oids |-> Absent] /\ proofs = [o \in Oids |-> 0]
  /\ writes = 0 /\ source \in [body : Bodies, stat : {0}]
  /\ memo = [c \in Clients |-> [o \in Oids |-> None]]
  /\ ticket = [c \in Clients |-> NoTicket]
  /\ ingest = [c \in Clients |-> NoIngest]
  /\ receipts = [c \in Clients |-> {}] /\ unlinked = {} /\ acts = 0
  /\ seen = [c \in Clients |-> [o \in Oids |-> {"missing"}]]

\* Every change of a file adds to what has been true.
Put(o, f) ==
  /\ object' = [object EXCEPT ![o] = f]
  /\ seen' = [c \in Clients |-> [seen[c] EXCEPT ![o] = @ \cup {StatusOf(f, o)}]]

\* What was true before is of no account any more.
AskAnew(c, S) ==
  seen' = [seen EXCEPT ![c] = [o \in Oids |-> IF o \in S THEN {Truth(o)} ELSE @[o]]]

-----------------------------------------------------------------------------
(* Verification.  The kinds: a worker's ticket, which leaves the           *)
(* coordinator free; verify and verify_windows, which keep it; and the     *)
(* unmemoized window, which neither reads the memo nor fills it.           *)

Free(c) == ticket[c].kind \in {"none", "worker"}

\* A failing index leaves every prior unknown.
Prepared(c, kind, S, indexed) ==
  LET known == [o \in Oids |-> IF kind = "bare" \/ o \notin S THEN None ELSE memo[c][o]]
  IN [kind |-> kind, oids |-> S, known |-> known, current |-> TRUE,
      work |-> [o \in Oids |->
        IF o \in S /\ known[o] = None
        THEN [Unasked EXCEPT !.at = "stat", !.stat = IF indexed THEN proofs[o] ELSE 0]
        ELSE Unasked]]

\* What the memo holds was asked before.
Asked(c, t) == {o \in Oids : t.work[o].at # "none" /\ memo[c][o] = None}

Prepare(c) ==
  /\ ticket[c].kind = "none"
  /\ \E kind \in {"worker", "here", "bare"}, S \in SUBSET Oids \ {{}}, indexed \in BOOLEAN :
       /\ Cardinality(S) <= Window
       /\ ticket' = [ticket EXCEPT ![c] = Prepared(c, kind, S, indexed)]
       /\ AskAnew(c, Asked(c, ticket'[c]))
  /\ UNCHANGED <<disk, memo, ingest, receipts, unlinked, acts>>

Work(c, o, w) == ticket' = [ticket EXCEPT ![c].work[o] = w]
Found(c, o, status, delta) ==
  Work(c, o, [Unasked EXCEPT !.at = "done", !.status = status, !.delta = delta])

\* verify_object_path_fs: a file whose stat is on record is not read.
Stat(c, o) ==
  /\ ticket[c].work[o].at = "stat"
  /\ LET f == object[o]
     IN CASE f = Absent -> Found(c, o, "missing", None)
          [] f = Special -> Found(c, o, "corrupt", 0)
          [] Regular(o) /\ f.stat = ticket[c].work[o].stat -> Found(c, o, "valid", None)
          [] OTHER -> Work(c, o, [Unasked EXCEPT !.at = "observe"])
  /\ UNCHANGED <<disk, memo, ingest, receipts, unlinked, acts, seen>>

\* coherent_observation looks at the file again before the hash.
Observe(c, o) ==
  /\ ticket[c].work[o].at = "observe" /\ Regular(o)
  /\ Work(c, o, [Unasked EXCEPT !.at = "hash", !.stat = object[o].stat])
  /\ UNCHANGED <<disk, memo, ingest, receipts, unlinked, acts, seen>>

Hash(c, o) ==
  /\ ticket[c].work[o].at = "hash" /\ Regular(o)
  /\ Work(c, o, [ticket[c].work[o] EXCEPT !.at = "confirm", !.body = object[o].body])
  /\ UNCHANGED <<disk, memo, ingest, receipts, unlinked, acts, seen>>

\* Fault: the stat of the file as it is now goes with the bytes as they were.
ConfirmLate(c, o) ==
  /\ ticket[c].work[o].at = "confirm" /\ Regular(o)
  /\ IF ticket[c].work[o].body = o
     THEN Found(c, o, "valid", object[o].stat)
     ELSE Found(c, o, "corrupt", 0)
  /\ UNCHANGED <<disk, memo, ingest, receipts, unlinked, acts, seen>>

\* And after it: the file is the one that was there before the hash.
Confirm(c, o) ==
  /\ ticket[c].work[o].at = "confirm"
  /\ Regular(o) /\ object[o].stat = ticket[c].work[o].stat
  /\ IF ticket[c].work[o].body = o
     THEN Found(c, o, "valid", object[o].stat)
     ELSE Found(c, o, "corrupt", 0)
  /\ UNCHANGED <<disk, memo, ingest, receipts, unlinked, acts, seen>>

\* A file that cannot be read, or that changed: nothing of the ticket is kept.
VerifyFails(c) ==
  /\ \E o \in Oids : ticket[c].work[o].at \in {"stat", "observe", "hash", "confirm"}
  /\ ticket' = [ticket EXCEPT ![c] = NoTicket]
  /\ UNCHANGED <<disk, memo, ingest, receipts, unlinked, acts, seen>>

\* apply_many, best effort: one transaction, or nothing.
Persist(delta) ==
  \/ UNCHANGED proofs
  \/ proofs' = [o \in Oids |-> IF delta[o] = None THEN proofs[o] ELSE delta[o]]

Verified(c) ==
  /\ ticket[c].kind # "none"
  /\ \A o \in Oids : ticket[c].work[o].at \in {"none", "done"}

\* Fault: nobody compares generations.
CommitAnyway(c) ==
  /\ Verified(c)
  /\ memo' = IF ticket[c].kind = "bare" THEN memo
             ELSE [memo EXCEPT ![c] = [o \in Oids |->
               IF ticket[c].work[o].at = "done" THEN ticket[c].work[o].status ELSE @[o]]]
  /\ Persist([o \in Oids |-> ticket[c].work[o].delta])
  /\ ticket' = [ticket EXCEPT ![c] = NoTicket]
  /\ UNCHANGED <<object, writes, source, ingest, receipts, unlinked, acts, seen>>

\* The answer is ticket.known, and for the rest what the memo now holds.
Commit(c) ==
  /\ Verified(c) /\ ticket[c].current
  /\ memo' = IF ticket[c].kind = "bare" THEN memo
             ELSE [memo EXCEPT ![c] = [o \in Oids |->
               IF ticket[c].work[o].at = "done" THEN ticket[c].work[o].status ELSE @[o]]]
  /\ Persist([o \in Oids |-> ticket[c].work[o].delta])
  /\ ticket' = [ticket EXCEPT ![c] = NoTicket]
  /\ UNCHANGED <<object, writes, source, ingest, receipts, unlinked, acts, seen>>

\* A ticket of an ended generation is verified again, on the coordinator.
Reverify(c) ==
  /\ Verified(c) /\ ~ticket[c].current
  /\ \E indexed \in BOOLEAN :
       ticket' = [ticket EXCEPT ![c] = Prepared(c, "here", ticket[c].oids, indexed)]
  /\ AskAnew(c, Asked(c, ticket'[c]))
  /\ UNCHANGED <<disk, memo, ingest, receipts, unlinked, acts>>

-----------------------------------------------------------------------------
(* Ingest, by a worker: of the source (add), which is observed before and  *)
(* after, or of bytes received for an oid that is known (fetch, repair).   *)

Ingest(c, i) == ingest' = [ingest EXCEPT ![c] = i]

BeginAdd(c) ==
  /\ ingest[c].at = "none"
  /\ \E how \in {"stream", "safe", "hybrid"} :
       Ingest(c, [NoIngest EXCEPT !.at = "copy", !.how = how, !.before = source.stat])
  /\ UNCHANGED <<disk, memo, ticket, receipts, unlinked, acts, seen>>

\* hybrid takes a fingerprint of its own before it copies and hashes.
Fingerprint(c) ==
  /\ ingest[c].at = "copy" /\ ingest[c].how = "hybrid" /\ ingest[c].print = None
  /\ Ingest(c, [ingest[c] EXCEPT !.print = source.stat])
  /\ UNCHANGED <<disk, memo, ticket, receipts, unlinked, acts, seen>>

\* The bytes go to a new file.  stream hashes what it writes.
Copy(c) ==
  /\ ingest[c].at = "copy" /\ writes < MaxWrites
  /\ ingest[c].body = None /\ (ingest[c].how = "hybrid" => ingest[c].print # None)
  /\ writes' = writes + 1
  /\ LET i == [ingest[c] EXCEPT !.body = source.body, !.stat = writes + 1]
     IN Ingest(c, IF i.how = "stream" THEN [i EXCEPT !.oid = i.body, !.at = "publish"]
                  ELSE i)
  /\ UNCHANGED <<object, proofs, source, memo, ticket, receipts, unlinked, acts, seen>>

\* safe hashes the copy.
HashCopy(c) ==
  /\ ingest[c].at = "copy" /\ ingest[c].how = "safe" /\ ingest[c].body # None
  /\ Ingest(c, [ingest[c] EXCEPT !.oid = ingest[c].body, !.at = "publish"])
  /\ UNCHANGED <<disk, memo, ticket, receipts, unlinked, acts, seen>>

\* hybrid hashes the source, beside the copy.
HashSource(c) ==
  /\ ingest[c].at = "copy" /\ ingest[c].print # None /\ ingest[c].hash = None
  /\ Ingest(c, [ingest[c] EXCEPT !.hash = source.body])
  /\ UNCHANGED <<disk, memo, ticket, receipts, unlinked, acts, seen>>

\* Fault: the hash of the source names the copy whatever became of the source.
TrustAlways(c) ==
  /\ ingest[c].at = "copy" /\ ingest[c].hash # None /\ ingest[c].body # None
  /\ Ingest(c, [ingest[c] EXCEPT !.at = "publish", !.oid = ingest[c].hash])
  /\ UNCHANGED <<disk, memo, ticket, receipts, unlinked, acts, seen>>

\* It trusts that hash when the source has not changed, or hashes the copy.
Trust(c) ==
  /\ ingest[c].at = "copy" /\ ingest[c].hash # None /\ ingest[c].body # None
  /\ Ingest(c, [ingest[c] EXCEPT !.at = "publish",
                  !.oid = IF source.stat = ingest[c].print THEN ingest[c].hash
                          ELSE ingest[c].body])
  /\ UNCHANGED <<disk, memo, ticket, receipts, unlinked, acts, seen>>

\* CacheIngest.finish: bytes that are not the object's are never published.
Receive(c) ==
  /\ ingest[c].at = "none" /\ writes < MaxWrites
  /\ \E o \in Oids :
       Ingest(c, [NoIngest EXCEPT !.at = "publish", !.how = "receive", !.oid = o,
                    !.body = o, !.stat = writes + 1])
  /\ writes' = writes + 1
  /\ UNCHANGED <<object, proofs, source, memo, ticket, receipts, unlinked, acts, seen>>

\* publish_tmp: the proof is that of the temporary file, renamed over whatever
\* is there.  A source still has to be looked at once more.
Publish(c) ==
  /\ ingest[c].at = "publish"
  /\ LET o == ingest[c].oid
         receipt == [oid |-> o, stat |-> ingest[c].stat]
     IN /\ IF o \in Oids
           THEN Put(o, [body |-> ingest[c].body, stat |-> ingest[c].stat, by |-> "gat"])
           ELSE UNCHANGED <<object, seen>>
        /\ IF ingest[c].how = "receive"
           THEN /\ receipts' = [receipts EXCEPT ![c] = @ \cup {receipt}]
                /\ Ingest(c, NoIngest)
           ELSE /\ Ingest(c, [ingest[c] EXCEPT !.at = "check"])
                /\ UNCHANGED receipts
  /\ UNCHANGED <<proofs, writes, source, memo, ticket, unlinked, acts>>

\* worktree::ingest_file, after the callback.
Check(c) ==
  /\ ingest[c].at = "check" /\ source.stat = ingest[c].before
  /\ receipts' = [receipts EXCEPT ![c] =
       @ \cup {[oid |-> ingest[c].oid, stat |-> ingest[c].stat]}]
  /\ Ingest(c, NoIngest)
  /\ UNCHANGED <<disk, memo, ticket, unlinked, acts, seen>>

\* An error, an interrupt, a purge of temporary files, or a source that changed:
\* the window returns its error and drops the receipts it has.
IngestFails(c) ==
  /\ ingest[c].at # "none"
  /\ Ingest(c, NoIngest)
  /\ receipts' = [receipts EXCEPT ![c] = {}]
  /\ UNCHANGED <<disk, memo, ticket, unlinked, acts, seen>>

\* apply_publications: the memo first, the index if it can.  Of two receipts of
\* one oid the later one, by the order of the window, is either.
Apply(c) ==
  /\ receipts[c] # {} /\ ingest[c].at = "none" /\ Free(c)
  /\ LET S == {r.oid : r \in receipts[c]}
     IN /\ memo' = [memo EXCEPT ![c] = [o \in Oids |-> IF o \in S THEN None ELSE @[o]]]
        /\ ticket' = [ticket EXCEPT ![c].current = FALSE]
        /\ AskAnew(c, S)
        /\ \E last \in [Oids -> 0 .. MaxWrites] :
             /\ \A o \in Oids : IF o \in S THEN [oid |-> o, stat |-> last[o]] \in receipts[c]
                                ELSE last[o] = 0
             /\ Persist([o \in Oids |-> IF o \in S THEN last[o] ELSE None])
  /\ receipts' = [receipts EXCEPT ![c] = {}]
  /\ UNCHANGED <<object, writes, source, ingest, unlinked, acts>>

-----------------------------------------------------------------------------
(* Others: a sweep (gat gc) unlinks first and removes proofs in batches,   *)
(* gat repair rebuilds the index, and anybody edits the source or damages  *)
(* the cache.                                                              *)

Interfere == acts < MaxActs /\ acts' = acts + 1

Unlink(o) ==
  /\ Interfere /\ object[o] # Absent
  /\ Put(o, Absent)
  /\ unlinked' = unlinked \cup {o}
  /\ UNCHANGED <<proofs, writes, source, memo, ticket, ingest, receipts>>

\* Also what is left of it when the process dies in between.
ForgetUnlinked ==
  /\ unlinked # {}
  /\ unlinked' = {}
  /\ Persist([o \in Oids |-> IF o \in unlinked THEN 0 ELSE None])
  /\ UNCHANGED <<object, writes, source, memo, ticket, ingest, receipts, acts, seen>>

RebuildIndex ==
  /\ Interfere
  /\ \E o \in Oids : proofs[o] # 0
  /\ proofs' = [o \in Oids |-> 0]
  /\ UNCHANGED <<object, writes, source, memo, ticket, ingest, receipts, unlinked, seen>>

Damage(o) ==
  /\ Interfere
  /\ \/ object[o] # Special /\ Put(o, Special) /\ UNCHANGED writes
     \/ /\ writes < MaxWrites
        /\ \E body \in {o, Junk} : Put(o, [body |-> body, stat |-> writes + 1, by |-> "other"])
        /\ writes' = writes + 1
  /\ UNCHANGED <<proofs, source, memo, ticket, ingest, receipts, unlinked>>

EditSource ==
  /\ source.stat < MaxEdits
  /\ \E body \in Bodies \ {source.body} : source' = [body |-> body, stat |-> source.stat + 1]
  /\ UNCHANGED <<object, proofs, writes, memo, ticket, ingest, receipts, unlinked, acts, seen>>

Verify(c) ==
  \/ Prepare(c) \/ VerifyFails(c) \/ Commit(c) \/ Reverify(c)
  \/ \E o \in Oids : Stat(c, o) \/ Observe(c, o) \/ Hash(c, o) \/ Confirm(c, o)

Ingesting(c) ==
  \/ BeginAdd(c) \/ Fingerprint(c) \/ Copy(c) \/ HashCopy(c) \/ HashSource(c) \/ Trust(c) \/ Receive(c)
  \/ Publish(c) \/ Check(c) \/ IngestFails(c) \/ Apply(c)

Others ==
  \/ \E o \in Oids : Unlink(o) \/ Damage(o)
  \/ ForgetUnlinked \/ RebuildIndex \/ EditSource

Next == Others \/ \E c \in Clients : Verify(c) \/ Ingesting(c)

Spec == Init /\ [][Next]_vars

-----------------------------------------------------------------------------
\* A proof on record never vouches for a file with other bytes, and neither does
\* one that a ticket or a receipt carries, whoever replaced, unlinked, damaged or
\* ingested the object since and in whatever order the index learns of it
\* (object.rs, publish_tmp; proof.rs, verify_object_path_fs).
ProofHonest ==
  \A o \in Oids : Regular(o) =>
    LET Vouched(stat) == stat = object[o].stat => object[o].body = o
    IN /\ Vouched(proofs[o])
       /\ \A c \in Clients :
            /\ ticket[c].work[o].at = "stat" => Vouched(ticket[c].work[o].stat)
            /\ ticket[c].work[o].at = "done" /\ ticket[c].work[o].delta # None =>
                 Vouched(ticket[c].work[o].delta)
            /\ \A r \in receipts[c] : r.oid = o => Vouched(r.stat)

\* What gat published under an oid has its bytes, also when the source was edited
\* while it was copied and hashed, and although the source is looked at again only
\* after the publication (object.rs, ingest_file_hybrid_to_tmp; worktree.rs,
\* ingest_file).  Every edit changes the stat of the source: hybrid says that it
\* does not defend against one that keeps size and mtime.
ObjectsMatchNames ==
  \A o \in Oids : Regular(o) /\ object[o].by = "gat" => object[o].body = o

\* What a client remembers, and what its next commit will answer, was true at some
\* moment since it asked, and since it last applied a publication of that object:
\* a worker's ticket that a publication has overtaken never enters the memo
\* (object.rs, commit_verification_with and forget_memo).
AnswersCurrent ==
  \A c \in Clients : \A o \in Oids :
    /\ memo[c][o] \in seen[c][o] \cup {None}
    /\ ticket[c].current => ticket[c].work[o].status \in seen[c][o] \cup {None}
    /\ ticket[c].current => ticket[c].known[o] \in {memo[c][o], None}
=============================================================================
