--------------------------- MODULE DownloadWindow ---------------------------
(***************************************************************************)
(* Windows of downloads and repairs that share one remote executor:        *)
(* run_transfer_window_until and the Admission, the local workers and the  *)
(* cancellation it uses (gat-engine, remote_executor), with the job every  *)
(* window runs, receive (transfer/receive): read an object from its remote *)
(* and write it into the cache.                                            *)
(*                                                                         *)
(* A coordinator keeps a queue of jobs per remote.  In turns it subscribes *)
(* to changes of the Admission, offers the head of every queue until a     *)
(* round admits nothing, and waits for one of its jobs to end; with no job *)
(* of its own under way it waits for the subscription, because another     *)
(* coordinator may hold the capacity.  A download that fails becomes the   *)
(* frontier: jobs at or beyond it are dropped.  A repair tries every job.  *)
(*                                                                         *)
(* A job reads chunks from the network while a local worker appends the    *)
(* one before; the last worker publishes the object.  Workers outlive the  *)
(* future that waits for them, the network reads do not.                   *)
(*                                                                         *)
(* A change of the Admission and the notification that follows its unlock  *)
(* are one step: later it could only wake a coordinator once more.         *)
(***************************************************************************)
EXTENDS Naturals, Sequences, FiniteSets, SequencesExt, Collections

CONSTANTS
  Windows,                 \* the coordinators
  Remotes, FileRemotes,    \* a file remote is read by the worker itself
  Jobs,                    \* window -> its jobs, in the order of the input; the
                           \* chunks of a body that overflow its buffer are bounded
  Downloads,               \* the windows that stop at an error; the others repair
  GlobalJobs, RemoteJobs, GlobalBytes, RemoteBytes,
  Workers,                 \* LOCAL_TRANSFER_CONCURRENCY
  None

Indices(w) == DOMAIN Jobs[w]
All == UNION {{w} \X Indices(w) : w \in Windows}
RemoteOf(j) == Jobs[j[1]][j[2]].remote
BytesOf(j) == Jobs[j[1]][j[2]].bytes
ChunksOf(j) == Jobs[j[1]][j[2]].chunks
NoError(w) == Len(Jobs[w]) + 1

ASSUME JobsAssumption ==
  /\ FileRemotes \subseteq Remotes /\ Downloads \subseteq Windows
  /\ \A w \in Windows : Jobs[w] \in Seq([remote : Remotes, bytes : 0 .. RemoteBytes, chunks : Nat])
ASSUME LimitsAssumption ==
  /\ {GlobalJobs, RemoteJobs, Workers} \subseteq Nat \ {0}
  /\ RemoteBytes \in Nat /\ GlobalBytes \in Nat /\ RemoteBytes <= GlobalBytes
ASSUME NoneAssumption == None \notin {"ok", "error", "cancelled"}

VARIABLES
  cancelled,   \* the capability that all windows share
  phase,       \* window -> arm, scan, wait (for a job), sleep (for capacity), done
  queues,      \* window -> its queues, one per remote, as sequences of indices
  at,          \* window -> the queue that the round visits
  admitted,    \* window -> whether the round has admitted a job
  woken,       \* window -> its subscription has been notified
  deaf,        \* window -> the wait began after the cancellation
  due,         \* window -> progress that is not yet reported
  frontier,    \* window -> the earliest failure
  results,     \* window -> job -> what the window recorded
  net,         \* job -> idle, busy, more (a chunk), end (of body), or its failure
  local,       \* job -> none, or the append or publish that waits or runs
  appends,     \* job -> chunks appended
  ended,       \* job -> ok, error or cancelled once it has ended
  leases,      \* Admission: the jobs that hold a lease
  line         \* Admission: the remotes that wait, with the cost last asked for

turnVars == <<phase, queues, at, admitted, deaf, due>>
recordVars == <<frontier, results>>
jobVars == <<net, local, appends, ended>>
vars == <<cancelled, turnVars, woken, recordVars, jobVars, leases, line>>

\* One queue per remote, in the order in which the jobs first name them.
Queue(w, i) ==
  Keep([j \in Indices(w) |-> j], {j \in Indices(w) : RemoteOf(<<w, j>>) = RemoteOf(<<w, i>>)})
Queues(w) ==
  LET firsts == Keep([i \in Indices(w) |-> i], {i \in Indices(w) : Head(Queue(w, i)) = i})
  IN  [k \in DOMAIN firsts |-> Queue(w, firsts[k])]

Init ==
  /\ cancelled = FALSE
  /\ phase = [w \in Windows |-> "arm"]
  /\ queues = [w \in Windows |-> Queues(w)]
  /\ at = [w \in Windows |-> 1] /\ admitted = [w \in Windows |-> FALSE]
  /\ woken = [w \in Windows |-> FALSE] /\ deaf = [w \in Windows |-> FALSE]
  /\ due = [w \in Windows |-> FALSE]
  /\ frontier = [w \in Windows |-> NoError(w)]
  /\ results = [w \in Windows |-> [i \in Indices(w) |-> None]]
  /\ net = [j \in All |-> "idle"] /\ local = [j \in All |-> "none"]
  /\ appends = [j \in All |-> 0] /\ ended = [j \in All |-> None]
  /\ leases = {} /\ line = << >>

-----------------------------------------------------------------------------
(***************************************************************************)
(* Admission.                                                              *)
(***************************************************************************)
Held(r) == {j \in leases : RemoteOf(j) = r}
Bytes(S) == MapThenSumSet(BytesOf, S)

\* A remote has one place in the line, whichever windows ask for it.
Waiting(r, bytes) ==
  LET place == SelectInSeq(line, LAMBDA p : p.remote = r)
      asked == [remote |-> r, bytes |-> bytes]
  IN IF place = 0 THEN Append(line, asked) ELSE [line EXCEPT ![place] = asked]

HasRoom(p) ==
  /\ Cardinality(Held(p.remote)) < RemoteJobs
  /\ Bytes(Held(p.remote)) + p.bytes <= RemoteBytes

\* try_acquire: the first in line with room of its own is next.
Eligible(j) ==
  LET r == RemoteOf(j)
      able == SelectSeq(Waiting(r, BytesOf(j)), HasRoom)
  IN /\ able # << >> /\ Head(able).remote = r
     /\ Cardinality(leases) < GlobalJobs
     /\ Bytes(leases) + BytesOf(j) <= GlobalBytes

\* forget_waiter, for every remote of S.
Forget(S) == line' = SelectSeq(line, LAMBDA p : p.remote \notin S)

\* notify_waiters, of those that have not returned.
Notify(changed) ==
  woken' = [w \in Windows |-> phase[w] # "done" /\ (woken[w] \/ changed)]
NotifyIfLeft == Notify(Len(line') < Len(line))

-----------------------------------------------------------------------------
(***************************************************************************)
(* The turns of a coordinator.                                             *)
(***************************************************************************)
Goto(w, p) == phase' = [phase EXCEPT ![w] = p]

RemotesIn(w) == {RemoteOf(<<w, Head(q)>>) : q \in {q \in ToSet(queues[w]) : q # << >>}}

\* Subscribe; drain the queues if the operation has been cancelled.
Arm(w) ==
  /\ phase[w] = "arm"
  /\ IF cancelled
     THEN /\ results' = [results EXCEPT ![w] = [i \in Indices(w) |->
                IF \E q \in ToSet(queues[w]) : i \in ToSet(q) THEN "cancelled" ELSE @[i]]]
          /\ queues' = [queues EXCEPT ![w] = << >>]
          /\ Forget(RemotesIn(w))
          /\ woken' = [v \in Windows |->
                IF v = w THEN Len(line') < Len(line)
                ELSE phase[v] # "done" /\ (woken[v] \/ Len(line') < Len(line))]
     ELSE /\ woken' = [woken EXCEPT ![w] = FALSE]
          /\ UNCHANGED <<results, queues, line>>
  /\ Goto(w, "scan")
  /\ at' = [at EXCEPT ![w] = 1] /\ deaf' = [deaf EXCEPT ![w] = FALSE]
  /\ UNCHANGED <<cancelled, admitted, due, frontier, jobVars, leases>>

Visiting(w) == phase[w] = "scan" /\ at[w] <= Len(queues[w])
Visited(w) == queues[w][at[w]]
SetVisited(w, q) ==
  /\ queues' = [queues EXCEPT ![w][at[w]] = q]
  /\ at' = [at EXCEPT ![w] = @ + 1]

\* Fault: a failure ends the admission of earlier jobs too.
BeyondAny(w) == frontier[w] # NoError(w)

Beyond(w) == Head(Visited(w)) >= frontier[w]

DropBeyond(w) ==
  /\ Visiting(w) /\ Beyond(w)
  /\ Forget({RemoteOf(<<w, Head(Visited(w))>>)})
  /\ NotifyIfLeft
  /\ SetVisited(w, << >>)
  /\ UNCHANGED <<cancelled, phase, admitted, deaf, due, recordVars, jobVars, leases>>

\* A file remote is read by the local worker that publishes.
Admit(w) ==
  /\ Visiting(w) /\ ~Beyond(w)
  /\ LET j == <<w, Head(Visited(w))>>
         file == RemoteOf(j) \in FileRemotes
     IN /\ Eligible(j)
        /\ leases' = leases \cup {j}
        /\ Forget({RemoteOf(j)})
        /\ net' = [net EXCEPT ![j] = IF file THEN "end" ELSE "busy"]
        /\ local' = [local EXCEPT ![j] = IF file THEN "publish" ELSE "none"]
  /\ Notify(TRUE)
  /\ SetVisited(w, Tail(Visited(w)))
  /\ admitted' = [admitted EXCEPT ![w] = TRUE]
  /\ UNCHANGED <<cancelled, phase, deaf, due, recordVars, appends, ended>>

Refuse(w) ==
  /\ Visiting(w) /\ ~Beyond(w)
  /\ LET j == <<w, Head(Visited(w))>>
     IN ~Eligible(j) /\ line' = Waiting(RemoteOf(j), BytesOf(j))
  /\ at' = [at EXCEPT ![w] = @ + 1]
  /\ UNCHANGED <<cancelled, phase, queues, admitted, woken, deaf, due, recordVars, jobVars,
                 leases>>

\* Fault: the round is not repeated, and the subscription made after it.
EndRoundArmed(w) ==
  /\ phase[w] = "scan" /\ at[w] > Len(queues[w])
  /\ queues' = [queues EXCEPT ![w] = Keep(@, ToSet(@) \ {<< >>})]
  /\ at' = [at EXCEPT ![w] = 1] /\ admitted' = [admitted EXCEPT ![w] = FALSE]
  /\ IF admitted[w] THEN UNCHANGED <<phase, deaf, woken>>
     ELSE Goto(w, "wait") /\ deaf' = [deaf EXCEPT ![w] = cancelled]
          /\ woken' = [woken EXCEPT ![w] = FALSE]
  /\ UNCHANGED <<cancelled, due, recordVars, jobVars, leases, line>>

\* Empty queues are retired; a round that admitted something is repeated.
EndRound(w) ==
  /\ phase[w] = "scan" /\ at[w] > Len(queues[w])
  /\ queues' = [queues EXCEPT ![w] = Keep(@, ToSet(@) \ {<< >>})]
  /\ at' = [at EXCEPT ![w] = 1] /\ admitted' = [admitted EXCEPT ![w] = FALSE]
  /\ IF admitted[w] THEN UNCHANGED <<phase, deaf>>
     ELSE Goto(w, "wait") /\ deaf' = [deaf EXCEPT ![w] = cancelled]
  /\ UNCHANGED <<cancelled, woken, due, recordVars, jobVars, leases, line>>

Active(w) == {j \in leases : j[1] = w}

\* A wait that began before the cancellation is ended by it.
Heed(w) ==
  /\ phase[w] \in {"wait", "sleep"} /\ cancelled
  /\ phase[w] = "wait" => ~deaf[w]
  /\ Goto(w, "arm")
  /\ UNCHANGED <<cancelled, queues, at, admitted, woken, deaf, due, recordVars, jobVars,
                 leases, line>>

\* The timer runs only while completions are unreported.
Refresh(w) ==
  /\ phase[w] \in {"wait", "sleep"} /\ due[w]
  /\ due' = [due EXCEPT ![w] = FALSE]
  /\ Goto(w, "arm")
  /\ UNCHANGED <<cancelled, queues, at, admitted, woken, deaf, recordVars, jobVars,
                 leases, line>>

Record(w, i) ==
  /\ results' = [results EXCEPT ![w][i] = ended[<<w, i>>]]
  /\ frontier' = [frontier EXCEPT ![w] =
        IF w \in Downloads /\ ended[<<w, i>>] # "ok" /\ i < @ THEN i ELSE @]

\* The future of a job ends and is dropped, its lease with it.
Completed(w, i) ==
  /\ phase[w] = "wait" /\ <<w, i>> \in leases /\ ended[<<w, i>>] # None
  /\ leases' = leases \ {<<w, i>>}
  /\ Notify(TRUE)
  /\ Record(w, i)
  /\ due' = [due EXCEPT ![w] = TRUE]
  /\ Goto(w, "arm")
  /\ net' = [net EXCEPT ![<<w, i>>] = "idle"]
  /\ appends' = [appends EXCEPT ![<<w, i>>] = 0]
  /\ ended' = [ended EXCEPT ![<<w, i>>] = None]
  /\ UNCHANGED <<cancelled, queues, at, admitted, deaf, local, line>>

\* Nothing of its own under way: return, or wait for another coordinator.
NoneActive(w) ==
  /\ phase[w] = "wait" /\ Active(w) = {}
  /\ IF queues[w] # << >> THEN Goto(w, "sleep") /\ UNCHANGED <<woken, due>>
     ELSE /\ Goto(w, "done")
          /\ woken' = [woken EXCEPT ![w] = FALSE] /\ due' = [due EXCEPT ![w] = FALSE]
  /\ UNCHANGED <<cancelled, queues, at, admitted, deaf, recordVars, jobVars, leases, line>>

Wake(w) ==
  /\ phase[w] = "sleep" /\ woken[w]
  /\ Goto(w, "arm")
  /\ UNCHANGED <<cancelled, queues, at, admitted, woken, deaf, due, recordVars, jobVars,
                 leases, line>>

Coordinate(w) ==
  \/ Arm(w) \/ DropBeyond(w) \/ Admit(w) \/ Refuse(w) \/ EndRound(w)
  \/ Heed(w) \/ NoneActive(w) \/ Wake(w)
  \/ \E i \in Indices(w) : Completed(w, i)

-----------------------------------------------------------------------------
(***************************************************************************)
(* The jobs.                                                               *)
(***************************************************************************)
Running(j) == ended[j] = None /\ j \in leases
Busy == {j \in All : local[j] \in {"appending", "publishing"}}
ReadFailed(j) == net[j] \in {"error", "cancelled"}
Failure == {"error"} \cup (IF cancelled THEN {"cancelled"} ELSE {})

jobUnchanged == UNCHANGED <<cancelled, turnVars, woken, recordVars, leases, line>>
End(j, how) == ended' = [ended EXCEPT ![j] = how]

\* A chunk that overflows the buffer, or comes while the one before is
\* still being appended.
Chunk(j) ==
  /\ Running(j) /\ net[j] = "busy" /\ appends[j] < ChunksOf(j)
  /\ appends' = [appends EXCEPT ![j] = @ + 1]
  /\ IF local[j] = "none"
     THEN local' = [local EXCEPT ![j] = "append"] /\ UNCHANGED net
     ELSE net' = [net EXCEPT ![j] = "more"] /\ UNCHANGED local
  /\ UNCHANGED ended /\ jobUnchanged

\* The end of the body.
BodyEnds(j) ==
  /\ Running(j) /\ net[j] = "busy"
  /\ net' = [net EXCEPT ![j] = "end"]
  /\ local' = [local EXCEPT ![j] = IF @ = "none" THEN "publish" ELSE @]
  /\ UNCHANGED <<appends, ended>> /\ jobUnchanged

\* Fault: a failed read does not wait for the append beside it.
ReadFailsUndrained(j) ==
  /\ Running(j) /\ net[j] = "busy"
  /\ \E how \in Failure : net' = [net EXCEPT ![j] = how] /\ End(j, how)
  /\ UNCHANGED <<local, appends>> /\ jobUnchanged

\* Failed or cancelled: an append beside it is waited for first.
ReadFails(j) ==
  /\ Running(j) /\ net[j] = "busy"
  /\ \E how \in Failure :
       /\ net' = [net EXCEPT ![j] = how]
       /\ IF local[j] = "none" THEN End(j, how) ELSE UNCHANGED ended
  /\ UNCHANGED <<local, appends>> /\ jobUnchanged

WorkerStarts(j) ==
  /\ local[j] \in {"append", "publish"} /\ Cardinality(Busy) < Workers
  /\ local' = [local EXCEPT ![j] = IF @ = "append" THEN "appending" ELSE "publishing"]
  /\ UNCHANGED <<net, appends, ended>> /\ jobUnchanged

\* Cancelled: before it was given a worker, before the worker began, or at a
\* checkpoint of the worker that reads a file remote.
Stopped(j) ==
  /\ local[j] # "none" /\ cancelled
  /\ local' = [local EXCEPT ![j] = "none"]
  /\ IF Running(j) THEN End(j, IF ReadFailed(j) THEN net[j] ELSE "cancelled")
     ELSE UNCHANGED ended
  /\ UNCHANGED <<net, appends>> /\ jobUnchanged

\* The worker fails, or finds other bytes than the object's.
WorkerFails(j) ==
  /\ j \in Busy
  /\ local' = [local EXCEPT ![j] = "none"]
  /\ IF Running(j) THEN End(j, IF ReadFailed(j) THEN net[j] ELSE "error")
     ELSE UNCHANGED ended
  /\ UNCHANGED <<net, appends>> /\ jobUnchanged

Appended(j) ==
  /\ local[j] = "appending"
  /\ local' = [local EXCEPT ![j] =
        CASE net[j] = "more" -> "append"
          [] net[j] = "end" -> "publish"
          [] OTHER -> "none"]
  /\ net' = [net EXCEPT ![j] = IF @ = "more" THEN "busy" ELSE @]
  /\ IF ReadFailed(j) /\ Running(j) THEN End(j, net[j]) ELSE UNCHANGED ended
  /\ UNCHANGED appends /\ jobUnchanged

Published(j) ==
  /\ local[j] = "publishing"
  /\ local' = [local EXCEPT ![j] = "none"]
  /\ IF Running(j) THEN End(j, "ok") ELSE UNCHANGED ended
  /\ UNCHANGED <<net, appends>> /\ jobUnchanged

\* A read ends, and a local task that waits or runs goes on.
Reads(j) == Chunk(j) \/ BodyEnds(j) \/ ReadFails(j)
Works(j) ==
  WorkerStarts(j) \/ Stopped(j) \/ WorkerFails(j) \/ Appended(j) \/ Published(j)

-----------------------------------------------------------------------------
Cancel ==
  /\ ~cancelled /\ \E w \in Windows : phase[w] # "done"
  /\ cancelled' = TRUE
  /\ UNCHANGED <<turnVars, woken, recordVars, jobVars, leases, line>>

Returned == (\A w \in Windows : phase[w] = "done") /\ UNCHANGED vars

Next ==
  \/ \E w \in Windows : Coordinate(w) \/ Refresh(w)
  \/ \E j \in All : Reads(j) \/ Works(j)
  \/ Cancel \/ Returned

Spec == Init /\ [][Next]_vars

\* While one can, some coordinator, some read and some local task goes on:
\* coordinators have threads, reads end (with a timeout if need be) and so does
\* local work.  The progress timer and the user who interrupts owe nothing.
FairSpec ==
  /\ Spec
  /\ WF_vars(\E w \in Windows : Coordinate(w))
  /\ WF_vars(\E j \in All : Reads(j)) /\ WF_vars(\E j \in All : Works(j))

-----------------------------------------------------------------------------
(***************************************************************************)
(* Properties.                                                             *)
(***************************************************************************)
Failed(w) == {i \in Indices(w) : results[w][i] \in {"error", "cancelled"}}

\* What a download reports: the first result that is an error.
Reported(w) ==
  IF Failed(w) = {} THEN "ok"
  ELSE results[w][CHOOSE i \in Failed(w) : \A k \in Failed(w) : i <= k]

\* A window that has returned gives its caller what the caller relies on.
\* For a repair every job has a result (the expect of run_repair_window).
\* For a download every job before the error that is reported has succeeded
\* (jobs without a result are skipped silently, and without an error all of
\* them must be there), and unless the operation was cancelled the error is
\* one of a job.  And no worker of the window still writes into the cache.
Settled ==
  \A w \in Windows :
    phase[w] = "done" =>
      /\ \A i \in Indices(w) :
           results[w][i] = None => w \in Downloads /\ \E k \in Failed(w) : k < i
      /\ Reported(w) = "cancelled" => cancelled
      /\ Active(w) = {} /\ ~\E j \in Busy : j[1] = w

\* Every window returns: no wait misses the change it waits for, no place in
\* the line is left by a remote that nobody asks for any more, and leases held
\* while waiting for a worker do not block each other.
Returns == \A w \in Windows : <>(phase[w] = "done")

=============================================================================
