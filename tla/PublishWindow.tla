--------------------------- MODULE PublishWindow ---------------------------
(***************************************************************************)
(* One window of gat push: publish_window (gat-engine, transfer/publish).  *)
(*                                                                         *)
(* A window is a list of obligations, each an object (oid) owed to a       *)
(* remote.  One coordinator asks the remotes what they have, verifies the  *)
(* cache objects of what is missing, once per oid however many remotes     *)
(* want it, and uploads them.  Probes, uploads and the verification run    *)
(* beside it and answer in any order; whatever has answered is taken in,   *)
(* then the next verification is started and the freed permits are handed  *)
(* out, remote by remote, probes and uploads in turn.  Uploads are         *)
(* admitted by the executor's Admission, which keeps a queue of waiting    *)
(* remotes so that a large upload is not overtaken forever.                *)
(*                                                                         *)
(* A failure does not end the window: it becomes the frontier, work at or  *)
(* beyond it is dropped, and what comes before it goes on, so that the     *)
(* error reported is that of the earliest obligation that fails.           *)
(*                                                                         *)
(* What a worker answers is chosen when it answers.  The window starts     *)
(* with its remotes open: an identity or open failure ends it before any   *)
(* work is begun.                                                          *)
(***************************************************************************)
EXTENDS Naturals, Sequences, FiniteSets, SequencesExt, Collections

CONSTANTS
  Objects,      \* the obligations, in the order of the input
  Remotes, Oids,
  BytesOf,      \* what the buffer of each upload takes
  ProbeLimit,   \* Remotes -> Nat, the size of a presence batch
  Capacities,   \* network.request_concurrency, one of these
  RemoteBytes, GlobalBytes,
  BatchSize,    \* VERIFICATION_BATCH_SIZE
  None

Indices == DOMAIN Objects
RemoteOf(i) == Objects[i].remote
OidOf(i) == Objects[i].oid
NoError == Len(Objects) + 1

ASSUME ObjectsAssumption ==
  /\ Objects \in Seq([remote : Remotes, oid : Oids]) /\ Objects # << >>
  /\ \A i, j \in Indices : Objects[i] = Objects[j] => i = j
  /\ IsFiniteSet(Remotes)
ASSUME NoneAssumption ==
  None \notin {"present", "uploaded", "missing", "corrupt", "running", "valid"}
ASSUME BudgetAssumption ==
  /\ Capacities \subseteq Nat \ {0} /\ BatchSize \in Nat \ {0}
  /\ RemoteBytes \in Nat /\ GlobalBytes \in Nat /\ RemoteBytes <= GlobalBytes
  /\ BytesOf \in [Indices -> 0 .. RemoteBytes]
  /\ ProbeLimit \in [Remotes -> Nat \ {0}]

\* The remotes in the order in which the input first names them.
RemoteOrder ==
  LET first == {i \in Indices : \A j \in 1 .. i - 1 : RemoteOf(j) # RemoteOf(i)}
      firsts == Keep([i \in Indices |-> i], first)
  IN [k \in DOMAIN firsts |-> RemoteOf(firsts[k])]

Statuses == {"present", "uploaded", "missing", "corrupt"}
Kinds == {"presence", "upload"}
Phases == {"wait", "drain", "refill", "done"}

VARIABLES
  capacity,    \* the permits of the operation
  phase,       \* wait for a completion, drain the ready ones, refill, done
  pending,     \* remote -> obligations still to be probed
  forming,     \* remote -> obligations admitted to a batch not yet started
  probing,     \* the presence batches under way
  verified,    \* oid -> what the cache said of it
  waiting,     \* oid -> obligations that wait for its verification
  unverified,  \* oids that are to be verified
  batch,       \* the oids being verified
  ready,       \* remote -> obligations that can be uploaded
  uploading,   \* obligations being uploaded
  queue,       \* Admission: the remotes that wait for a permit
  nextRemote, lastKind, scan,   \* the round robin, and where a scan stands
  statuses, error, cancelled,
  late         \* history: joined a verification that no longer runs

admissionVars == <<uploading, queue>>
robinVars == <<nextRemote, lastKind, scan>>
cacheVars == <<verified, waiting, unverified, batch, late>>
workVars == <<pending, forming, probing, ready>>
vars == <<capacity, phase, workVars, cacheVars, admissionVars, robinVars,
          statuses, error, cancelled>>

Batch == [left : Seq(Indices), permits : Nat]

TypeOK ==
  /\ capacity \in Capacities /\ phase \in Phases /\ cancelled \in BOOLEAN
  /\ pending \in [Remotes -> Seq(Indices)] /\ ready \in [Remotes -> Seq(Indices)]
  /\ forming \in [Remotes -> Seq(Indices)]
  /\ probing \subseteq Batch
  /\ verified \in [Oids -> {None, "running", "valid", "missing", "corrupt"}]
  /\ waiting \in [Oids -> SUBSET Indices]
  /\ unverified \in Seq(Oids) /\ batch \in Seq(Oids)
  /\ uploading \subseteq Indices
  /\ queue \in Seq([remote : Remotes, bytes : Nat])
  /\ nextRemote \in 0 .. Len(RemoteOrder) - 1 /\ scan \in 0 .. Len(RemoteOrder)
  /\ lastKind \in [Remotes -> Kinds \cup {None}]
  /\ statuses \in [Indices -> Statuses \cup {None}]
  /\ error \in 1 .. NoError /\ late \subseteq Indices

Init ==
  /\ capacity \in Capacities /\ phase = "refill" /\ scan = 0
  /\ pending = [r \in Remotes |->
        Keep([i \in Indices |-> i], {i \in Indices : RemoteOf(i) = r})]
  /\ forming = [r \in Remotes |-> << >>] /\ probing = {}
  /\ verified = [o \in Oids |-> None] /\ waiting = [o \in Oids |-> {}]
  /\ unverified = << >> /\ batch = << >>
  /\ ready = [r \in Remotes |-> << >>] /\ uploading = {} /\ queue = << >>
  /\ nextRemote = 0 /\ lastKind = [r \in Remotes |-> None]
  /\ statuses = [i \in Indices |-> None] /\ error = NoError
  /\ cancelled = FALSE /\ late = {}

-----------------------------------------------------------------------------
(***************************************************************************)
(* Permits.  Each remote may use half of the capacity, rounded up.         *)
(***************************************************************************)
PerRemote == (capacity + 1) \div 2

Probes(r) == Len(forming[r]) +
  Sum([b \in probing |-> b.permits], {b \in probing : RemoteOf(b.left[1]) = r})
AllProbes == Sum([r \in Remotes |-> Probes(r)], Remotes)
Uploads(r) == {i \in uploading : RemoteOf(i) = r}
Bytes(S) == Sum(BytesOf, S)

\* Fault: one permit too many for the operation.
CanProbeOneMore(r) == Probes(r) < PerRemote /\ AllProbes <= capacity

CanProbe(r) == Probes(r) < PerRemote /\ AllProbes < capacity

\* A remote has one place in the queue; asking again replaces its cost.
Queued(r, bytes) ==
  IF \E k \in DOMAIN queue : queue[k].remote = r
  THEN [k \in DOMAIN queue |->
          IF queue[k].remote = r THEN [queue[k] EXCEPT !.bytes = bytes] ELSE queue[k]]
  ELSE Append(queue, [remote |-> r, bytes |-> bytes])
Forgotten(r) == Keep(queue, {w \in ToSet(queue) : w.remote # r})

HasRoom(w) ==
  /\ Cardinality(Uploads(w.remote)) < PerRemote
  /\ Bytes(Uploads(w.remote)) + w.bytes <= RemoteBytes

\* The first waiting remote with room of its own gets the next permit.
CanUpload(r) ==
  /\ ready[r] # << >>
  /\ LET bytes == BytesOf[Head(ready[r])]
         line == Keep(Queued(r, bytes), {w \in ToSet(Queued(r, bytes)) : HasRoom(w)})
     IN /\ line # << >> /\ Head(line).remote = r
        /\ Cardinality(uploading) < capacity
        /\ Bytes(uploading) + bytes <= GlobalBytes

\* Fault: a remote with nothing to upload keeps its place.
AskedOnly(r) ==
  IF ready[r] = << >> THEN queue ELSE Queued(r, BytesOf[Head(ready[r])])

\* The queue after a request that was not granted.
Asked(r) ==
  IF ready[r] = << >> THEN Forgotten(r) ELSE Queued(r, BytesOf[Head(ready[r])])

-----------------------------------------------------------------------------
(***************************************************************************)
(* Refilling.  A scan visits the remotes from nextRemote on; an admission  *)
(* starts the next scan, and a scan that admits nothing ends the refill.   *)
(***************************************************************************)
Position == (nextRemote + scan) % Len(RemoteOrder)
Visited == RemoteOrder[Position + 1]

Preferred(r) ==
  IF pending[r] # << >> /\ (ready[r] = << >> \/ lastKind[r] # "presence")
  THEN "presence" ELSE "upload"

Scanning == phase = "refill" /\ scan < Len(RemoteOrder) /\ (scan = 0 => ~cancelled)

\* Fault: the round robin does not wrap.
AdmittedUnwrapped(r, kind) ==
  /\ nextRemote' = Position + 1
  /\ lastKind' = [lastKind EXCEPT ![r] = kind]
  /\ scan' = 0

Admitted(r, kind) ==
  /\ nextRemote' = (Position + 1) % Len(RemoteOrder)
  /\ lastKind' = [lastKind EXCEPT ![r] = kind]
  /\ scan' = 0

\* A batch starts as soon as it is full.
AdmitProbe ==
  /\ Scanning
  /\ LET r == Visited
         i == Head(pending[r])
         full == Len(forming[r]) + 1 = ProbeLimit[r]
         entries == Append(forming[r], i)
     IN /\ pending[r] # << >> /\ CanProbe(r)
        /\ Preferred(r) = "presence" \/ ~CanUpload(r)
        /\ pending' = [pending EXCEPT ![r] = Tail(@)]
        /\ forming' = [forming EXCEPT ![r] = IF full THEN << >> ELSE entries]
        /\ probing' = IF full
                      THEN probing \cup {[left |-> entries, permits |-> Len(entries)]}
                      ELSE probing
        /\ queue' = IF ready[r] = << >> \/ Preferred(r) = "upload" THEN Asked(r) ELSE queue
        /\ Admitted(r, "presence")
  /\ UNCHANGED <<capacity, phase, ready, cacheVars, uploading, statuses, error, cancelled>>

AdmitUpload ==
  /\ Scanning
  /\ LET r == Visited
     IN /\ CanUpload(r)
        /\ Preferred(r) = "upload" \/ ~CanProbe(r)
        /\ uploading' = uploading \cup {Head(ready[r])}
        /\ ready' = [ready EXCEPT ![r] = Tail(@)]
        /\ queue' = Forgotten(r)
        /\ Admitted(r, "upload")
  /\ UNCHANGED <<capacity, phase, pending, forming, probing, cacheVars,
                 statuses, error, cancelled>>

\* Fault: a scan that admits nothing begins again.
PassOverAgain ==
  /\ Scanning
  /\ LET r == Visited
     IN /\ pending[r] = << >> \/ ~CanProbe(r)
        /\ ~CanUpload(r)
        /\ queue' = Asked(r)
  /\ scan' = (scan + 1) % Len(RemoteOrder)
  /\ UNCHANGED <<capacity, phase, workVars, cacheVars, uploading, nextRemote, lastKind,
                 statuses, error, cancelled>>

PassOver ==
  /\ Scanning
  /\ LET r == Visited
     IN /\ pending[r] = << >> \/ ~CanProbe(r)
        /\ ~CanUpload(r)
        /\ queue' = Asked(r)
  /\ scan' = scan + 1
  /\ UNCHANGED <<capacity, phase, workVars, cacheVars, uploading, nextRemote, lastKind,
                 statuses, error, cancelled>>

\* What is left of the batches starts at once.
EndRefill ==
  /\ phase = "refill" /\ ~Scanning
  /\ probing' = probing \cup
       {[left |-> forming[r], permits |-> Len(forming[r])] :
          r \in {s \in Remotes : forming[s] # << >>}}
  /\ forming' = [r \in Remotes |-> << >>]
  /\ phase' = "wait" /\ scan' = 0
  /\ UNCHANGED <<capacity, pending, ready, cacheVars, admissionVars, nextRemote, lastKind,
                 statuses, error, cancelled>>

-----------------------------------------------------------------------------
(***************************************************************************)
(* Completions.  All that are ready are taken in before anything starts.   *)
(***************************************************************************)
Draining == phase \in {"wait", "drain"} /\ phase' = "drain"

Complete(S, status) ==
  statuses' = [i \in Indices |-> IF i \in S THEN status ELSE statuses[i]]

\* Fault: a failure drops everything that is queued.
RecordErrorDropping(i) ==
  IF i < error
  THEN /\ error' = i
       /\ pending' = [r \in Remotes |-> << >>]
       /\ ready' = [r \in Remotes |-> << >>]
  ELSE UNCHANGED <<error, pending, ready>>

\* A failure earlier than every other one drops what lies beyond it.
RecordError(i) ==
  LET Kept(s) == Keep(s, {j \in Indices : j < i})
  IN IF i < error
     THEN /\ error' = i
          /\ pending' = [r \in Remotes |-> Kept(pending[r])]
          /\ ready' = [r \in Remotes |-> Kept(ready[r])]
     ELSE UNCHANGED <<error, pending, ready>>

\* Fault: what becomes ready late is not held against the frontier.
EnqueueAlways(S) ==
  ready' = [r \in Remotes |->
    LET mine == {i \in S : RemoteOf(i) = r}
    IN IF mine = {} THEN ready[r] ELSE Append(ready[r], CHOOSE i \in mine : TRUE)]

\* enqueue_upload, for the obligations in S, each of another remote.
Enqueue(S) ==
  ready' = [r \in Remotes |->
    LET mine == {i \in S : RemoteOf(i) = r /\ i < error}
    IN IF mine = {} THEN ready[r] ELSE Append(ready[r], CHOOSE i \in mine : TRUE)]

\* One result of a batch; its permits are returned with the last one.
Delivered(b) ==
  probing' = (probing \ {b}) \cup
    (IF Len(b.left) = 1 THEN {} ELSE {[b EXCEPT !.left = Tail(@)]})

ProbePresent(b) ==
  /\ Draining /\ Delivered(b)
  /\ Complete({Head(b.left)}, "present")
  /\ UNCHANGED <<capacity, pending, forming, ready, cacheVars, admissionVars, robinVars,
                 error, cancelled>>

\* register_verification: join, start, or use what is known of the oid.
ProbeAbsent(b) ==
  /\ Draining /\ Delivered(b)
  /\ LET i == Head(b.left)
         o == OidOf(i)
     IN \/ /\ verified[o] \in {None, "running"}
           /\ verified' = [verified EXCEPT ![o] = "running"]
           /\ waiting' = [waiting EXCEPT ![o] = @ \cup {i}]
           /\ unverified' = IF verified[o] = None THEN Append(unverified, o) ELSE unverified
           /\ late' = IF o \in ToSet(unverified') \cup ToSet(batch) THEN late
                      ELSE late \cup {i}
           /\ UNCHANGED <<ready, statuses>>
        \/ /\ verified[o] = "valid"
           /\ Enqueue({i})
           /\ UNCHANGED <<verified, waiting, unverified, late, statuses>>
        \/ /\ verified[o] \in {"missing", "corrupt"}
           /\ Complete({i}, verified[o])
           /\ UNCHANGED <<verified, waiting, unverified, late, ready>>
  /\ UNCHANGED <<capacity, pending, forming, batch, admissionVars, robinVars, error, cancelled>>

ProbeFails(b) ==
  /\ Draining /\ Delivered(b)
  /\ RecordError(Head(b.left))
  /\ UNCHANGED <<capacity, forming, cacheVars, admissionVars, robinVars, statuses, cancelled>>

UploadSucceeds(i) ==
  /\ Draining
  /\ uploading' = uploading \ {i}
  /\ Complete({i}, "uploaded")
  /\ UNCHANGED <<capacity, workVars, cacheVars, queue, robinVars, error, cancelled>>

UploadFails(i) ==
  /\ Draining
  /\ uploading' = uploading \ {i}
  /\ RecordError(i)
  /\ UNCHANGED <<capacity, forming, probing, cacheVars, queue, robinVars, statuses, cancelled>>

-----------------------------------------------------------------------------
(***************************************************************************)
(* Verification, one batch at a time.                                      *)
(***************************************************************************)
\* Fault: an oid is only tried again when nobody beyond the frontier wants it.
NeededByAll(o, frontier) == \A i \in waiting[o] : i < frontier

Needed(o, frontier) == \E i \in waiting[o] : i < frontier

\* All that is found valid is queued in the order of the batch.
VerifySucceeds(found) ==
  /\ Draining /\ batch # << >>
  /\ LET Of(o, r) == {i \in waiting[o] : RemoteOf(i) = r /\ i < error}
         Valid(r) == Keep(batch, {o \in ToSet(batch) : found[o] = "valid" /\ Of(o, r) # {}})
         rejected == {o \in ToSet(batch) : found[o] # "valid"}
     IN /\ ready' = [r \in Remotes |-> ready[r] \o
              [k \in DOMAIN Valid(r) |-> CHOOSE i \in Of(Valid(r)[k], r) : TRUE]]
        /\ statuses' = [i \in Indices |->
              IF OidOf(i) \in rejected /\ i \in waiting[OidOf(i)]
              THEN found[OidOf(i)] ELSE statuses[i]]
  /\ verified' = [o \in Oids |-> IF o \in ToSet(batch) THEN found[o] ELSE verified[o]]
  /\ waiting' = [o \in Oids |-> IF o \in ToSet(batch) THEN {} ELSE waiting[o]]
  /\ batch' = << >>
  /\ UNCHANGED <<capacity, pending, forming, probing, unverified, late, admissionVars,
                 robinVars, error, cancelled>>

\* Nothing of a failed batch is kept.  The error belongs to the first
\* obligation that waits for one of culprits: an oid, or the whole batch
\* when the worker itself failed.  Earlier obligations are tried again.
VerifyFails(culprits) ==
  /\ Draining /\ batch # << >>
  /\ LET blamed == UNION {waiting[o] : o \in culprits}
         index == CHOOSE i \in blamed : \A j \in blamed : i <= j
     IN /\ RecordError(index)
        /\ unverified' = unverified \o Keep(batch, {o \in Oids : Needed(o, index)})
  /\ batch' = << >>
  /\ UNCHANGED <<capacity, forming, probing, verified, waiting, late, admissionVars, robinVars,
                 statuses, cancelled>>

\* After draining: start the next batch, then refill.
StartVerification ==
  /\ phase = "drain"
  /\ IF batch # << >> \/ cancelled
     THEN UNCHANGED <<unverified, batch>>
     ELSE LET kept == IF error = NoError THEN unverified
                      ELSE Keep(unverified, {o \in Oids : Needed(o, error)})
              size == IF Len(kept) < BatchSize THEN Len(kept) ELSE BatchSize
          IN /\ batch' = SubSeq(kept, 1, size)
             /\ unverified' = SubSeq(kept, size + 1, Len(kept))
  /\ phase' = "refill" /\ scan' = 0
  /\ UNCHANGED <<capacity, workVars, verified, waiting, late, admissionVars, nextRemote,
                 lastKind, statuses, error, cancelled>>

-----------------------------------------------------------------------------
\* Nothing is under way: no completion will ever come.
Idle == probing = {} /\ uploading = {} /\ batch = << >>

Finish ==
  /\ phase = "wait" /\ Idle
  /\ phase' = "done"
  /\ UNCHANGED <<capacity, workVars, cacheVars, admissionVars, robinVars,
                 statuses, error, cancelled>>

\* An interrupt, noticed at the next check of the flag.
Cancel ==
  /\ phase # "done" /\ ~cancelled
  /\ cancelled' = TRUE
  /\ UNCHANGED <<capacity, phase, workVars, cacheVars, admissionVars, robinVars,
                 statuses, error>>

Answer ==
  \/ \E b \in probing : ProbePresent(b) \/ ProbeAbsent(b) \/ ProbeFails(b)
  \/ \E i \in uploading : UploadSucceeds(i) \/ UploadFails(i)
  \/ \E found \in [ToSet(batch) -> {"valid", "missing", "corrupt"}] : VerifySucceeds(found)
  \/ \E culprits \in {{o} : o \in ToSet(batch)} \cup {ToSet(batch)} : VerifyFails(culprits)

Coordinate == AdmitProbe \/ AdmitUpload \/ PassOver \/ EndRefill \/ StartVerification \/ Finish

\* The window has returned.
Returned == phase = "done" /\ UNCHANGED vars

Next == Answer \/ Coordinate \/ Cancel \/ Returned

Spec == Init /\ [][Next]_vars

\* Probes, uploads and verifications end, in success or failure, and the
\* coordinator goes on while something is left for it to do.
FairSpec == Spec /\ WF_vars(Answer) /\ WF_vars(Coordinate)

-----------------------------------------------------------------------------
(***************************************************************************)
(* Properties.                                                             *)
(***************************************************************************)
Places(i) ==
  {p \in {"pending", "forming", "probing", "waiting", "ready", "uploading"} :
     CASE p = "pending"   -> i \in ToSet(pending[RemoteOf(i)])
       [] p = "forming"   -> i \in ToSet(forming[RemoteOf(i)])
       [] p = "probing"   -> \E b \in probing : i \in ToSet(b.left)
       [] p = "waiting"   -> i \in waiting[OidOf(i)]
       [] p = "ready"     -> i \in ToSet(ready[RemoteOf(i)])
       [] p = "uploading" -> i \in uploading}

\* An obligation is in one queue or with one worker until it has its status
\* and in none from then on, whatever the order of the answers, batches that
\* fail and are tried again included: it never completes twice (the assertion
\* of complete_obligation), and only failures and what lies beyond the
\* frontier may get lost.
Accounted ==
  \A i \in Indices :
    /\ Cardinality(Places(i)) <= 1
    /\ statuses[i] # None => Places(i) = {}
    /\ statuses[i] = None /\ i < error => Places(i) # {}

\* The bounds hold for probes and for uploads, together and per remote, in
\* jobs and in bytes, however batches return their permits and uploads of
\* different size follow each other.
LimitsHeld ==
  /\ AllProbes <= capacity /\ Cardinality(uploading) <= capacity
  /\ Bytes(uploading) <= GlobalBytes
  /\ \A r \in Remotes :
       /\ Probes(r) <= PerRemote /\ Cardinality(Uploads(r)) <= PerRemote
       /\ Bytes(Uploads(r)) <= RemoteBytes

\* While the coordinator waits, only a remote with something to upload is
\* queued for a permit, once, for the upload that is its next: a place kept
\* for work that a failure has dropped would hold up every other remote.
NoGhostWaiter ==
  phase = "wait" /\ ~cancelled =>
    \A k \in DOMAIN queue :
      /\ ready[queue[k].remote] # << >>
      /\ queue[k].bytes = BytesOf[Head(ready[queue[k].remote])]
      /\ \A l \in DOMAIN queue : queue[l].remote = queue[k].remote => l = k

\* Two ways in which an obligation before the frontier is left behind.  It
\* joined a verification that had failed, or had been dropped because until
\* then only obligations beyond the frontier wanted it: the oid is still noted
\* as running, but nothing runs.
Abandoned(i) == i \in late
\* Or its upload was refused in the last scan in favour of a remote whose own
\* uploads the frontier had dropped and that was forgotten only afterwards.
Overtaken(i) == i \in ToSet(ready[RemoteOf(i)])

\* A window that was not interrupted gives every obligation a status, which
\* terminal_statuses expects, or reports a failure and has settled what comes
\* before it but for the two cases above.
Settled ==
  phase = "done" /\ ~cancelled =>
    \A i \in Indices :
      i < error /\ statuses[i] = None => error # NoError /\ (Abandoned(i) \/ Overtaken(i))

\* "Its earlier obligations must resolve before the final semantic error can
\* be selected" (publish.rs:274).
EarlierErrorsWin ==
  phase = "done" /\ ~cancelled => \A i \in Indices : i < error => statuses[i] # None

\* Nothing at or beyond the frontier is begun: not what was queued when the
\* failure came in, nor what a verification under way makes ready later.
FrontierHeld ==
  [][\A i \in Indices :
       error <= i /\ Places(i) \cap {"forming", "probing", "uploading"} = {} =>
         Places(i)' \cap {"forming", "probing", "uploading"} = {}]_vars

\* The window returns, under whatever contention for permits and bytes, after
\* failed batches and after an interrupt.
Returns == <>(phase = "done")

=============================================================================
