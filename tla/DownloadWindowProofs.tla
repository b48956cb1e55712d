------------------------- MODULE DownloadWindowProofs -------------------------
(***************************************************************************)
(* Proofs about DownloadWindow, for every set of windows, remotes and jobs *)
(* and every limit of the executor: what a window that has returned gives  *)
(* its caller, whatever failed, was cancelled or had to wait.              *)
(*                                                                         *)
(* The inductive invariant follows each job: it is in one queue of its     *)
(* window, or has a lease, or a result, or lies beyond the frontier of a   *)
(* download; and a local task belongs to a job that has not ended.         *)
(***************************************************************************)
EXTENDS DownloadWindow, SequenceTheorems, WellFoundedInduction, TLAPS

-----------------------------------------------------------------------------
(***************************************************************************)
(* The inductive invariant.                                                *)
(***************************************************************************)
Phases == {"arm", "scan", "wait", "sleep", "done"}
Outcomes == {None, "ok", "error", "cancelled"}
Tasks == {"none", "append", "publish", "appending", "publishing"}

\* The types of what the invariant speaks of.
Typed ==
  /\ cancelled \in BOOLEAN
  /\ phase \in [Windows -> Phases]
  /\ DOMAIN queues = Windows /\ \A w \in Windows : queues[w] \in Seq(Seq(Indices(w)))
  /\ at \in [Windows -> Nat \ {0}]
  /\ frontier \in [Windows -> Nat]
  /\ DOMAIN results = Windows /\ \A w \in Windows : results[w] \in [Indices(w) -> Outcomes]
  /\ net \in [All -> {"idle", "busy", "more", "end", "error", "cancelled"}]
  /\ local \in [All -> Tasks]
  /\ ended \in [All -> Outcomes]
  /\ leases \subseteq All

\* The queues hold increasing indices, no two of them the same one.
Increasing(q) == \A a, b \in 1 .. Len(q) : a < b => q[a] < q[b]
Apart(q, r) == \A a \in 1 .. Len(q), b \in 1 .. Len(r) : q[a] # r[b]
Ordered(qs) ==
  /\ \A k \in 1 .. Len(qs) : Increasing(qs[k])
  /\ \A k, l \in 1 .. Len(qs) : k # l => Apart(qs[k], qs[l])

Among(i, qs) == \E k \in 1 .. Len(qs) : \E a \in 1 .. Len(qs[k]) : qs[k][a] = i
Queued(w, i) == Among(i, queues[w])
Leased(w, i) == <<w, i>> \in leases
Settles(w, i) == results[w][i] # None \/ (w \in Downloads /\ frontier[w] < i)

\* Where each job is.
Placed(w) ==
  /\ Ordered(queues[w])
  /\ \A i \in Indices(w) :
       /\ Queued(w, i) \/ Leased(w, i) \/ Settles(w, i)
       /\ Queued(w, i) => ~Leased(w, i)
       /\ Queued(w, i) \/ Leased(w, i) => results[w][i] = None

\* The frontier of a download is a failure; a repair has none.
Bounded(w) ==
  frontier[w] # NoError(w) =>
    w \in Downloads /\ frontier[w] \in Indices(w) /\ results[w][frontier[w]] \in {"error", "cancelled"}

\* Nothing is cancelled that nobody cancelled.
Asked ==
  ~cancelled =>
    /\ \A j \in All : net[j] # "cancelled" /\ ended[j] # "cancelled"
    /\ \A w \in Windows : \A i \in Indices(w) : results[w][i] # "cancelled"

\* A local task is that of a job under way, whose lease is its window's.
Working ==
  \A j \in All :
    /\ local[j] # "none" => j \in leases /\ ended[j] = None
    /\ j \notin leases => ended[j] = None

\* A round finds jobs in every queue that it has not visited.
Full(w) ==
  \A k \in 1 .. Len(queues[w]) :
    queues[w][k] # << >> \/ (phase[w] = "scan" /\ k < at[w])

\* A window returns with nothing left to do.
Ended(w) == phase[w] = "done" => queues[w] = << >> /\ Active(w) = {}

WindowInv(w) == Placed(w) /\ Bounded(w) /\ Full(w) /\ Ended(w)

IInv ==
  /\ Typed /\ Asked /\ Working
  /\ \A w \in Windows : WindowInv(w)
-----------------------------------------------------------------------------
(***************************************************************************)
(* Induction over the natural numbers, as a fact about sets.               *)
(***************************************************************************)
\* A set that has 0 and with each number the next has all of them.
LEMMA Induction ==
  ASSUME NEW S, 0 \in S, \A n \in Nat : n \in S => n + 1 \in S
  PROVE  Nat \subseteq S
<1> DEFINE T == Nat \ S
           R == OpToRel(<, Nat)
<1>1. IsWellFoundedOn(R, Nat)
  BY NatLessThanWellFounded
<1>2. ASSUME T # {} PROVE FALSE
  <2>1. PICK x \in T : \A y \in T : ~(<<y, x>> \in R)
    BY <1>1, <1>2, WFMin
  <2>2. x # 0 /\ x - 1 \in Nat
    OBVIOUS
  <2>3. <<x - 1, x>> \in R
    BY <2>2 DEF OpToRel
  <2>4. x - 1 \in S
    BY <2>1, <2>2, <2>3
  <2> QED BY <2>2, <2>4
<1> QED BY <1>2

\* Of any natural numbers there is a least.
LEMMA Least ==
  ASSUME NEW T \in SUBSET Nat, T # {}
  PROVE  \E x \in T : \A y \in T : x <= y
<1> DEFINE R == OpToRel(<, Nat)
<1>1. IsWellFoundedOn(R, Nat)
  BY NatLessThanWellFounded
<1>2. PICK x \in T : \A y \in T : ~(<<y, x>> \in R)
  BY <1>1, WFMin
<1>3. ASSUME NEW y \in T, y < x PROVE FALSE
  <2>1. <<y, x>> \in R
    BY <1>3 DEF OpToRel
  <2> QED BY <1>2, <2>1
<1>4. \A y \in T : x \in Nat /\ y \in Nat
  OBVIOUS
<1>5. \A y \in T : x <= y
  BY <1>3, <1>4
<1> QED BY <1>5

-----------------------------------------------------------------------------
(***************************************************************************)
(* What Keep returns.                                                      *)
(***************************************************************************)
\* The elements of S in s, found one by one.
Scan(s, S, f) ==
  f = [n \in 0 .. Len(s) |->
         IF n = 0 THEN << >>
         ELSE IF s[n] \in S THEN Append(f[n - 1], s[n]) ELSE f[n - 1]]

\* The recursion of Keep has a solution.
LEMMA ScanExists ==
  ASSUME NEW R, NEW s \in Seq(R), NEW S
  PROVE  \E f : Scan(s, S, f)
<1> DEFINE Upto(n, f) ==
             /\ f[0] = << >>
             /\ \A m \in 1 .. n : f[m] = IF s[m] \in S THEN Append(f[m - 1], s[m]) ELSE f[m - 1]
           Some == {n \in Nat : \E f : Upto(n, f)}
<1>0. Len(s) \in Nat
  BY LenProperties
<1>1. 0 \in Some
  <2> DEFINE f == [m \in 0 .. 0 |-> << >>]
  <2>1. Upto(0, f)
    OBVIOUS
  <2> QED BY <2>1
<1>2. ASSUME NEW n \in Nat, n \in Some PROVE n + 1 \in Some
  <2>1. PICK f : Upto(n, f)
    BY <1>2
  <2> DEFINE g == [m \in 0 .. (n + 1) |->
                     IF m = n + 1 THEN IF s[m] \in S THEN Append(f[n], s[m]) ELSE f[n]
                     ELSE f[m]]
  <2>3. g[0] = << >> /\ g[n] = f[n] /\ \A m \in 1 .. n : g[m] = f[m] /\ g[m - 1] = f[m - 1]
    BY <2>1
  <2>4. g[n + 1] = IF s[n + 1] \in S THEN Append(g[n], s[n + 1]) ELSE g[n]
    BY <2>3
  <2> HIDE DEF g
  <2>5. ASSUME NEW m \in 1 .. (n + 1)
        PROVE  g[m] = IF s[m] \in S THEN Append(g[m - 1], s[m]) ELSE g[m - 1]
    <3>1. CASE m = n + 1
      <4>1. m - 1 = n
        BY <3>1
      <4> QED BY <3>1, <4>1, <2>4
    <3>2. CASE m \in 1 .. n
      BY <2>1, <2>3, <3>2
    <3> QED BY <3>1, <3>2
  <2>6. Upto(n + 1, g)
    BY <2>3, <2>5
  <2> QED BY <2>6
<1>3. Len(s) \in Some
  <2> HIDE DEF Some
  <2> QED BY <1>0, <1>1, <1>2, Induction
<1>4. PICK f : Upto(Len(s), f)
  BY <1>3
<1> DEFINE g == [m \in 0 .. Len(s) |-> f[m]]
<1>5. \A n \in 0 .. Len(s) :
        g[n] = IF n = 0 THEN << >>
               ELSE IF s[n] \in S THEN Append(g[n - 1], s[n]) ELSE g[n - 1]
  BY <1>0, <1>4
<1> HIDE DEF g
<1>6. g = [n \in 0 .. Len(s) |->
             IF n = 0 THEN << >>
             ELSE IF s[n] \in S THEN Append(g[n - 1], s[n]) ELSE g[n - 1]]
  BY <1>5 DEF g
<1> QED BY <1>6 DEF Scan

\* Keep is the last of its values.
LEMMA KeepScan ==
  ASSUME NEW R, NEW s \in Seq(R), NEW S
  PROVE  \E f : Scan(s, S, f) /\ Keep(s, S) = f[Len(s)]
<1> DEFINE f == CHOOSE f : Scan(s, S, f)
<1>1. Scan(s, S, f)
  BY ScanExists
<1>2. Keep(s, S) = f[Len(s)]
  BY DEF Keep, Scan
<1> QED BY <1>1, <1>2

\* q is the part of s1, .., sn in S: e tells where its elements stand.
Picks(s, S, n, q, e) ==
  /\ e \in [1 .. Len(q) -> 1 .. n]
  /\ \A k, l \in 1 .. Len(q) : k < l => e[k] < e[l]
  /\ \A k \in 1 .. Len(q) : q[k] = s[e[k]] /\ q[k] \in S
  /\ \A m \in 1 .. n : s[m] \in S => \E k \in 1 .. Len(q) : e[k] = m

\* Keep returns the elements of S, all of them, in the order of s.
LEMMA KeepPicks ==
  ASSUME NEW R, NEW s \in Seq(R), NEW S
  PROVE  Keep(s, S) \in Seq(R) /\ \E e : Picks(s, S, Len(s), Keep(s, S), e)
<1>0. Len(s) \in Nat /\ \A m \in 1 .. Len(s) : s[m] \in R
  BY LenProperties, ElementOfSeq
<1>1. PICK f : Scan(s, S, f) /\ Keep(s, S) = f[Len(s)]
  BY KeepScan
<1>2. /\ f[0] = << >>
      /\ \A m \in 1 .. Len(s) : f[m] = IF s[m] \in S THEN Append(f[m - 1], s[m]) ELSE f[m - 1]
  <2>1. f[0] = << >>
    BY <1>0, <1>1 DEF Scan
  <2>2. ASSUME NEW m \in 1 .. Len(s)
        PROVE  f[m] = IF s[m] \in S THEN Append(f[m - 1], s[m]) ELSE f[m - 1]
    <3>1. m \in 0 .. Len(s) /\ m # 0
      BY <1>0
    <3> QED BY <1>1, <3>1 DEF Scan
  <2> QED BY <2>1, <2>2
<1> DEFINE Good == {n \in Nat : n <= Len(s) =>
                      f[n] \in Seq(R) /\ \E e : Picks(s, S, n, f[n], e)}
<1>3. 0 \in Good
  <2>1. f[0] \in Seq(R) /\ Len(f[0]) = 0
    BY <1>2, EmptySeq
  <2>2. Picks(s, S, 0, f[0], [k \in 1 .. 0 |-> 0])
    BY <2>1 DEF Picks
  <2> QED BY <2>1, <2>2
<1>4. ASSUME NEW n \in Nat, n \in Good PROVE n + 1 \in Good
  <2>1. SUFFICES ASSUME n + 1 <= Len(s)
                 PROVE  f[n + 1] \in Seq(R) /\ \E e : Picks(s, S, n + 1, f[n + 1], e)
    OBVIOUS
  <2>2. f[n] \in Seq(R) /\ n + 1 \in 1 .. Len(s) /\ (n + 1) - 1 = n
    BY <1>0, <1>4, <2>1
  <2>3. PICK e : Picks(s, S, n, f[n], e)
    BY <1>0, <1>4, <2>1
  <2>4. Len(f[n]) \in Nat
    BY <2>2, LenProperties
  <2>5. CASE s[n + 1] \notin S
    <3>1. f[n + 1] = f[n]
      BY <1>2, <2>2, <2>5
    <3>2. e \in [1 .. Len(f[n]) -> 1 .. (n + 1)]
      BY <2>3 DEF Picks
    <3>3. \A m \in 1 .. (n + 1) : s[m] \in S => m \in 1 .. n
      BY <2>5
    <3>4. Picks(s, S, n + 1, f[n], e)
      BY <2>3, <3>2, <3>3 DEF Picks
    <3> QED BY <2>2, <3>1, <3>4
  <2>6. CASE s[n + 1] \in S
    <3> DEFINE q == f[n + 1]
               L == Len(f[n])
               d == [k \in 1 .. (L + 1) |-> IF k = L + 1 THEN n + 1 ELSE e[k]]
    <3>1. q = Append(f[n], s[n + 1])
      BY <1>2, <2>2, <2>6
    <3>2. /\ q \in Seq(R) /\ Len(q) = L + 1 /\ q[L + 1] = s[n + 1]
          /\ \A k \in 1 .. L : q[k] = f[n][k]
      BY <1>0, <2>2, <3>1, AppendProperties
    <3>3. /\ \A k \in 1 .. L : d[k] = e[k] /\ d[k] \in 1 .. n
          /\ d[L + 1] = n + 1
          /\ d \in [1 .. (L + 1) -> 1 .. (n + 1)]
      <4> HIDE DEF q, L
      <4>0. e \in [1 .. L -> 1 .. n] /\ L \in Nat
        BY <2>3, <2>4 DEF Picks, L
      <4>1. \A k \in 1 .. L : e[k] \in 1 .. n /\ k # L + 1 /\ k \in 1 .. (L + 1)
        BY <4>0
      <4>2. L + 1 \in 1 .. (L + 1) /\ n + 1 \in 1 .. (n + 1)
        BY <2>4 DEF L
      <4>3. \A k \in 1 .. (L + 1) : k # L + 1 => k \in 1 .. L
        BY <2>4 DEF L
      <4> QED BY <4>1, <4>2, <4>3
    <3> HIDE DEF d, q
    <3>4. \A k \in 1 .. (L + 1) : k \in 1 .. L \/ k = L + 1
      BY <2>4
    <3>5. \A k, l \in 1 .. (L + 1) : k < l => d[k] < d[l]
      BY <2>3, <2>4, <3>3, <3>4 DEF Picks
    <3>6. \A k \in 1 .. (L + 1) : q[k] = s[d[k]] /\ q[k] \in S
      BY <2>3, <2>6, <3>2, <3>3, <3>4 DEF Picks
    <3>7. \A m \in 1 .. (n + 1) : s[m] \in S => \E k \in 1 .. (L + 1) : d[k] = m
      BY <2>3, <2>4, <3>3 DEF Picks
    <3>8. Picks(s, S, n + 1, q, d)
      BY <3>2, <3>3, <3>5, <3>6, <3>7 DEF Picks
    <3> QED BY <3>2, <3>8 DEF q
  <2> QED BY <2>5, <2>6
<1>5. Len(s) \in Good
  <2> HIDE DEF Good
  <2> QED BY <1>0, <1>3, <1>4, Induction
<1> QED BY <1>0, <1>1, <1>5

-----------------------------------------------------------------------------
(***************************************************************************)
(* The queues.                                                             *)
(***************************************************************************)
\* The jobs of a window are numbered.
LEMMA Numbered ==
  ASSUME NEW w \in Windows
  PROVE  /\ Len(Jobs[w]) \in Nat /\ Indices(w) = 1 .. Len(Jobs[w])
         /\ NoError(w) \in Nat /\ \A i \in Indices(w) : i \in Nat /\ i < NoError(w)
<1>1. Jobs[w] \in Seq([remote : Remotes, bytes : 0 .. RemoteBytes, chunks : Nat])
  BY JobsAssumption
<1>2. Len(Jobs[w]) \in Nat /\ DOMAIN Jobs[w] = 1 .. Len(Jobs[w])
  BY <1>1, LenProperties
<1> QED BY <1>2 DEF Indices, NoError

\* Without its empty queues a window has the same jobs in the same order.
LEMMA KeepOrdered ==
  ASSUME NEW R \in SUBSET Nat, NEW qs \in Seq(Seq(R)), Ordered(qs)
  PROVE  LET rest == Keep(qs, ToSet(qs) \ {<< >>}) IN
         /\ rest \in Seq(Seq(R)) /\ Ordered(rest)
         /\ \A k \in 1 .. Len(rest) : rest[k] # << >>
         /\ \A i : Among(i, rest) <=> Among(i, qs)
<1> DEFINE S == ToSet(qs) \ {<< >>}
           rest == Keep(qs, S)
<1>1. rest \in Seq(Seq(R)) /\ \E e : Picks(qs, S, Len(qs), rest, e)
  BY KeepPicks
<1>2. PICK e : Picks(qs, S, Len(qs), rest, e)
  BY <1>1
<1>3. \A k \in 1 .. Len(qs) : qs[k] \in Seq(R) /\ (qs[k] # << >> => qs[k] \in S)
  BY ElementOfSeq, LenProperties DEF ToSet
<1>9. << >> \notin S
  OBVIOUS
<1> HIDE DEF S, rest
<1>4. /\ \A k \in 1 .. Len(rest) : e[k] \in 1 .. Len(qs) /\ rest[k] = qs[e[k]]
      /\ \A k, l \in 1 .. Len(rest) : k < l => e[k] < e[l]
      /\ \A m \in 1 .. Len(qs) : qs[m] \in S => \E k \in 1 .. Len(rest) : e[k] = m
  BY <1>2 DEF Picks
<1>5. \A k, l \in 1 .. Len(rest) : k # l => e[k] # e[l]
  <2>1. Len(rest) \in Nat /\ Len(qs) \in Nat
    BY <1>1, LenProperties
  <2> QED BY <1>4, <2>1
<1>6. Ordered(rest)
  <2>1. \A k \in 1 .. Len(rest) : Increasing(rest[k])
    BY <1>4 DEF Ordered
  <2>2. ASSUME NEW k \in 1 .. Len(rest), NEW l \in 1 .. Len(rest), k # l
        PROVE  Apart(rest[k], rest[l])
    <3>1. e[k] \in 1 .. Len(qs) /\ e[l] \in 1 .. Len(qs) /\ e[k] # e[l]
      BY <1>4, <1>5, <2>2
    <3>2. Apart(qs[e[k]], qs[e[l]])
      BY <3>1 DEF Ordered
    <3> QED BY <1>4, <3>2
  <2> QED BY <2>1, <2>2 DEF Ordered
<1>7. ASSUME NEW i, Among(i, rest) PROVE Among(i, qs)
  <2>1. PICK k \in 1 .. Len(rest) : \E a \in 1 .. Len(rest[k]) : rest[k][a] = i
    BY <1>7 DEF Among
  <2>2. e[k] \in 1 .. Len(qs) /\ rest[k] = qs[e[k]]
    BY <1>4
  <2>3. \E a \in 1 .. Len(qs[e[k]]) : qs[e[k]][a] = i
    BY <2>1, <2>2
  <2> QED BY <2>2, <2>3 DEF Among
<1>8. ASSUME NEW i, Among(i, qs) PROVE Among(i, rest)
  <2>1. PICK k \in 1 .. Len(qs) : \E a \in 1 .. Len(qs[k]) : qs[k][a] = i
    BY <1>8 DEF Among
  <2>2. qs[k] # << >>
    BY <2>1, EmptySeq
  <2>3. PICK l \in 1 .. Len(rest) : e[l] = k
    BY <1>3, <1>4, <2>2
  <2>4. rest[l] = qs[k]
    BY <1>4, <2>3
  <2> QED BY <2>1, <2>4 DEF Among
<1>10. \A k \in 1 .. Len(rest) : rest[k] # << >>
  BY <1>2, <1>9 DEF Picks
<1> QED BY <1>1, <1>6, <1>7, <1>8, <1>10 DEF rest, S

\* s counts from 1 to n.
Counts(s, n) == s = [i \in 1 .. n |-> i]

\* q lists the numbers of S, increasing.
Lists(q, S, n) ==
  /\ q \in Seq(1 .. n) /\ Increasing(q)
  /\ \A a \in 1 .. Len(q) : q[a] \in S
  /\ \A i \in S : \E a \in 1 .. Len(q) : q[a] = i

\* Of the numbers from 1, Keep returns those in S, increasing.
LEMMA KeepNumbers ==
  ASSUME NEW n \in Nat, NEW S \in SUBSET (1 .. n), NEW s, Counts(s, n)
  PROVE  Lists(Keep(s, S), S, n)
<1>1. s \in Seq(1 .. n) /\ Len(s) = n /\ \A i \in 1 .. n : s[i] = i
  BY IsASeq, LenProperties DEF Counts
<1> DEFINE q == Keep(s, S)
<1>3. q \in Seq(1 .. n) /\ \E e : Picks(s, S, Len(s), q, e)
  BY <1>1, KeepPicks
<1>4. PICK e : Picks(s, S, n, q, e)
  BY <1>1, <1>3
<1> HIDE DEF q
<1>5. \A a \in 1 .. Len(q) : q[a] = e[a] /\ q[a] \in S
  BY <1>1, <1>4 DEF Picks
<1>6. Increasing(q)
  BY <1>4, <1>5 DEF Picks, Increasing
<1>7. \A i \in S : \E a \in 1 .. Len(q) : q[a] = i
  BY <1>1, <1>4, <1>5 DEF Picks
<1>8. Lists(q, S, n)
  BY <1>3, <1>5, <1>6, <1>7 DEF Lists
<1> QED BY <1>8 DEF q

\* The queue of a job holds the jobs of its remote, itself among them.
LEMMA QueueOf ==
  ASSUME NEW w \in Windows, NEW i \in Indices(w)
  PROVE  /\ Queue(w, i) \in Seq(Indices(w)) /\ Increasing(Queue(w, i))
         /\ \A a \in 1 .. Len(Queue(w, i)) :
              /\ Queue(w, i)[a] \in Indices(w)
              /\ RemoteOf(<<w, Queue(w, i)[a]>>) = RemoteOf(<<w, i>>)
         /\ \A j \in Indices(w) : RemoteOf(<<w, j>>) = RemoteOf(<<w, i>>) =>
              \E a \in 1 .. Len(Queue(w, i)) : Queue(w, i)[a] = j
         /\ Head(Queue(w, i)) \in Indices(w)
         /\ RemoteOf(<<w, Head(Queue(w, i))>>) = RemoteOf(<<w, i>>)
         /\ \E a \in 1 .. Len(Queue(w, i)) : Head(Queue(w, i)) = Queue(w, i)[a]
<1> DEFINE S == {j \in Indices(w) : RemoteOf(<<w, j>>) = RemoteOf(<<w, i>>)}
           q == Queue(w, i)
           s == [j \in Indices(w) |-> j]
<1>1. Indices(w) = 1 .. Len(Jobs[w]) /\ Len(Jobs[w]) \in Nat /\ S \in SUBSET (1 .. Len(Jobs[w]))
  BY Numbered
<1> DEFINE n == Len(Jobs[w])
<1>2. q = Keep(s, S) /\ Counts(s, n)
  BY <1>1 DEF Queue, Counts
<1>4. i \in S /\ S \subseteq Indices(w)
      /\ \A j \in Indices(w) : j \in S <=> RemoteOf(<<w, j>>) = RemoteOf(<<w, i>>)
  OBVIOUS
<1> HIDE DEF q, S, n, s
<1>3. /\ q \in Seq(Indices(w)) /\ Increasing(q)
      /\ \A a \in 1 .. Len(q) : q[a] \in S
      /\ \A j \in S : \E a \in 1 .. Len(q) : q[a] = j
  <2>1. n \in Nat /\ S \in SUBSET (1 .. n) /\ Indices(w) = 1 .. n
    BY <1>1 DEF n
  <2>2. Lists(q, S, n)
    BY <1>2, <2>1, KeepNumbers
  <2> QED BY <2>1, <2>2 DEF Lists
<1>5. Len(q) \in Nat /\ 1 \in 1 .. Len(q)
  BY <1>3, <1>4, LenProperties
<1>6. Head(q) = q[1]
  BY <1>3, <1>5, HeadTailProperties, EmptySeq
<1>7. Head(q) \in S
  BY <1>3, <1>5, <1>6
<1> QED BY <1>3, <1>4, <1>5, <1>6, <1>7 DEF q

\* The queues a window starts with hold each of its jobs, once.
LEMMA QueuesOrdered ==
  ASSUME NEW w \in Windows
  PROVE  /\ Queues(w) \in Seq(Seq(Indices(w))) /\ Ordered(Queues(w))
         /\ \A k \in 1 .. Len(Queues(w)) : Queues(w)[k] # << >>
         /\ \A i \in Indices(w) : Among(i, Queues(w))
<1> DEFINE S == {i \in Indices(w) : Head(Queue(w, i)) = i}
           s == [i \in Indices(w) |-> i]
           firsts == Keep(s, S)
           qs == Queues(w)
<1>1. Indices(w) = 1 .. Len(Jobs[w]) /\ Len(Jobs[w]) \in Nat
  BY Numbered
<1>2. /\ firsts \in Seq(Indices(w)) /\ Increasing(firsts)
      /\ \A k \in 1 .. Len(firsts) : firsts[k] \in S
      /\ \A i \in S : \E k \in 1 .. Len(firsts) : firsts[k] = i
  <2> DEFINE n == Len(Jobs[w])
  <2>1. n \in Nat /\ S \in SUBSET (1 .. n) /\ Indices(w) = 1 .. n
    BY <1>1
  <2>2. Counts(s, n)
    BY <2>1 DEF Counts
  <2> HIDE DEF n, S, s
  <2>3. Lists(firsts, S, n)
    BY <2>1, <2>2, KeepNumbers
  <2> HIDE DEF firsts
  <2> QED BY <2>1, <2>3 DEF Lists
<1>3. Len(firsts) \in Nat /\ DOMAIN firsts = 1 .. Len(firsts)
  BY <1>2, LenProperties
<1>4. qs = [k \in 1 .. Len(firsts) |-> Queue(w, firsts[k])]
  BY <1>3 DEF Queues
<1> HIDE DEF firsts, qs
<1>5. \A k \in 1 .. Len(firsts) : qs[k] = Queue(w, firsts[k]) /\ firsts[k] \in Indices(w)
  BY <1>2, <1>4
<1>6. qs \in Seq(Seq(Indices(w))) /\ Len(qs) = Len(firsts)
  <2>1. \A k \in 1 .. Len(firsts) : qs[k] \in Seq(Indices(w))
    BY <1>5, QueueOf
  <2> QED BY <1>3, <1>4, <2>1, IsASeq, LenProperties
<1>7. ASSUME NEW k \in 1 .. Len(firsts), NEW l \in 1 .. Len(firsts), k # l
      PROVE  RemoteOf(<<w, firsts[k]>>) # RemoteOf(<<w, firsts[l]>>)
  <2>1. firsts[k] # firsts[l]
    BY <1>1, <1>2, <1>3, <1>7 DEF Increasing
  <2>2. ASSUME RemoteOf(<<w, firsts[k]>>) = RemoteOf(<<w, firsts[l]>>) PROVE FALSE
    <3>1. Queue(w, firsts[k]) = Queue(w, firsts[l])
      BY <2>2 DEF Queue
    <3> QED BY <1>2, <2>1, <3>1
  <2> QED BY <2>2
<1>8. \A k, l \in 1 .. Len(firsts) : k # l => Apart(qs[k], qs[l])
  <2>1. ASSUME NEW k \in 1 .. Len(firsts), NEW a \in 1 .. Len(qs[k])
        PROVE  RemoteOf(<<w, qs[k][a]>>) = RemoteOf(<<w, firsts[k]>>)
    <3>1. firsts[k] \in Indices(w) /\ qs[k] = Queue(w, firsts[k])
      BY <1>5
    <3> DEFINE i == firsts[k]
    <3>2. i \in Indices(w) /\ qs[k] = Queue(w, i)
      BY <3>1
    <3> HIDE DEF i
    <3>3. \A b \in 1 .. Len(Queue(w, i)) : RemoteOf(<<w, Queue(w, i)[b]>>) = RemoteOf(<<w, i>>)
      BY <3>2, QueueOf
    <3>4. RemoteOf(<<w, qs[k][a]>>) = RemoteOf(<<w, i>>)
      BY <3>2, <3>3
    <3> QED BY <3>4 DEF i
  <2>2. ASSUME NEW k \in 1 .. Len(firsts), NEW l \in 1 .. Len(firsts), k # l,
               NEW a \in 1 .. Len(qs[k]), NEW b \in 1 .. Len(qs[l]), qs[k][a] = qs[l][b]
        PROVE  FALSE
    <3>1. RemoteOf(<<w, qs[k][a]>>) = RemoteOf(<<w, firsts[k]>>)
      BY <2>1
    <3>2. RemoteOf(<<w, qs[l][b]>>) = RemoteOf(<<w, firsts[l]>>)
      BY <2>1
    <3> QED BY <1>7, <2>2, <3>1, <3>2
  <2> QED BY <2>2 DEF Apart
<1>9. \A k \in 1 .. Len(firsts) : Increasing(qs[k])
  BY <1>5, QueueOf
<1>10. ASSUME NEW i \in Indices(w) PROVE Among(i, qs)
  <2> DEFINE f == Head(Queue(w, i))
  <2>1. f \in Indices(w) /\ RemoteOf(<<w, f>>) = RemoteOf(<<w, i>>)
    BY QueueOf
  <2>2. Queue(w, f) = Queue(w, i)
    BY <2>1 DEF Queue
  <2>3. f \in S
    BY <2>1, <2>2
  <2>4. PICK k \in 1 .. Len(firsts) : firsts[k] = f
    BY <1>2, <2>3
  <2>5. \E a \in 1 .. Len(Queue(w, i)) : Queue(w, i)[a] = i
    BY QueueOf
  <2> QED BY <1>5, <1>6, <2>2, <2>4, <2>5 DEF Among
<1>11. \A k \in 1 .. Len(qs) : qs[k] # << >>
  <2>1. ASSUME NEW i \in Indices(w) PROVE Queue(w, i) # << >>
    <3>1. \E a \in 1 .. Len(Queue(w, i)) : Queue(w, i)[a] = i
      BY QueueOf
    <3> QED BY <3>1, EmptySeq
  <2> QED BY <1>5, <1>6, <2>1
<1> QED BY <1>6, <1>8, <1>9, <1>10, <1>11 DEF Ordered, qs

\* r has elements of q only, and rest is qs with r for its queue m.
Part(r, q) == \A a \in 1 .. Len(r) : \E b \in 1 .. Len(q) : q[b] = r[a]
Replaced(rest, qs, m, r, R) ==
  /\ rest \in Seq(Seq(R)) /\ Len(rest) = Len(qs) /\ Ordered(rest)
  /\ rest[m] = r /\ \A k \in 1 .. Len(qs) : k # m => rest[k] = qs[k]
  /\ \A i : Among(i, rest) => Among(i, qs)
  /\ \A i : Among(i, qs) => Among(i, rest) \/ \E b \in 1 .. Len(qs[m]) : qs[m][b] = i

\* A queue that is replaced by a part of it leaves the queues in order.
LEMMA ReplaceOrdered ==
  ASSUME NEW R \in SUBSET Nat, NEW qs \in Seq(Seq(R)), Ordered(qs),
         NEW m \in 1 .. Len(qs), NEW r \in Seq(R), Increasing(r),
         Part(r, qs[m])
  PROVE  Replaced([qs EXCEPT ![m] = r], qs, m, r, R)
<1> DEFINE rest == [qs EXCEPT ![m] = r]
<1>1. rest \in Seq(Seq(R)) /\ Len(rest) = Len(qs)
  BY ExceptSeq
<1>2. rest[m] = r /\ \A k \in 1 .. Len(qs) : k # m => rest[k] = qs[k]
  BY LenProperties
<1> HIDE DEF rest
<1>3. ASSUME NEW k \in 1 .. Len(qs), NEW a \in 1 .. Len(rest[k])
      PROVE  \E b \in 1 .. Len(qs[k]) : qs[k][b] = rest[k][a]
  BY <1>2, <1>3 DEF Part
<1>4. Ordered(rest)
  <2>1. \A k \in 1 .. Len(rest) : Increasing(rest[k])
    BY <1>1, <1>2 DEF Ordered
  <2>2. ASSUME NEW k \in 1 .. Len(rest), NEW l \in 1 .. Len(rest), k # l,
               NEW a \in 1 .. Len(rest[k]), NEW b \in 1 .. Len(rest[l]), rest[k][a] = rest[l][b]
        PROVE  FALSE
    <3>1. PICK c \in 1 .. Len(qs[k]) : qs[k][c] = rest[k][a]
      BY <1>1, <1>3
    <3>2. PICK d \in 1 .. Len(qs[l]) : qs[l][d] = rest[l][b]
      BY <1>1, <1>3
    <3>3. Apart(qs[k], qs[l])
      BY <1>1, <2>2 DEF Ordered
    <3> QED BY <2>2, <3>1, <3>2, <3>3 DEF Apart
  <2> QED BY <2>1, <2>2 DEF Ordered, Apart
<1>5. ASSUME NEW i, Among(i, rest) PROVE Among(i, qs)
  <2>1. PICK k \in 1 .. Len(rest) : \E a \in 1 .. Len(rest[k]) : rest[k][a] = i
    BY <1>5 DEF Among
  <2>2. \E b \in 1 .. Len(qs[k]) : qs[k][b] = i
    <3>1. PICK a \in 1 .. Len(rest[k]) : rest[k][a] = i
      BY <2>1
    <3>2. k \in 1 .. Len(qs) /\ \E b \in 1 .. Len(qs[k]) : qs[k][b] = rest[k][a]
      BY <1>1, <1>3
    <3> QED BY <3>1, <3>2
  <2> QED BY <1>1, <2>2 DEF Among
<1>6. ASSUME NEW i, Among(i, qs)
      PROVE  Among(i, rest) \/ \E b \in 1 .. Len(qs[m]) : qs[m][b] = i
  <2>1. PICK k \in 1 .. Len(qs) : \E a \in 1 .. Len(qs[k]) : qs[k][a] = i
    BY <1>6 DEF Among
  <2>2. CASE k = m
    BY <2>1, <2>2
  <2>3. CASE k # m
    BY <1>1, <1>2, <2>1, <2>3 DEF Among
  <2> QED BY <2>2, <2>3
<1>7. Replaced(rest, qs, m, r, R)
  BY <1>1, <1>2, <1>4, <1>5, <1>6 DEF Replaced
<1> QED BY <1>7 DEF rest

\* rest is qs without the head of its queue m.
Taken(rest, qs, m, R) ==
  /\ rest \in Seq(Seq(R)) /\ Len(rest) = Len(qs) /\ Ordered(rest)
  /\ \A k \in 1 .. Len(qs) : k # m => rest[k] = qs[k]
  /\ Head(qs[m]) \in R /\ Among(Head(qs[m]), qs)
  /\ \A i : Among(i, rest) <=> Among(i, qs) /\ i # Head(qs[m])

\* A queue that gives up its head leaves the queues in order.
LEMMA TailOrdered ==
  ASSUME NEW R \in SUBSET Nat, NEW qs \in Seq(Seq(R)), Ordered(qs),
         NEW m \in 1 .. Len(qs), qs[m] # << >>
  PROVE  Taken([qs EXCEPT ![m] = Tail(qs[m])], qs, m, R)
<1> DEFINE r == Tail(qs[m])
           rest == [qs EXCEPT ![m] = r]
           head == Head(qs[m])
<1>0. qs[m] \in Seq(R) /\ Len(qs[m]) \in Nat /\ Len(qs) \in Nat /\ Increasing(qs[m])
  BY ElementOfSeq, LenProperties DEF Ordered
<1>1. /\ r \in Seq(R) /\ Len(r) = Len(qs[m]) - 1 /\ 1 \in 1 .. Len(qs[m])
      /\ \A a \in 1 .. Len(r) : r[a] = qs[m][a + 1] /\ a + 1 \in 1 .. Len(qs[m])
      /\ head = qs[m][1] /\ head \in R
  <2>1. Len(qs[m]) # 0
    BY <1>0, EmptySeq
  <2>2. r \in Seq(R) /\ Len(r) = Len(qs[m]) - 1 /\ head = qs[m][1] /\ head \in R
    BY <1>0, HeadTailProperties
  <2>3. \A a \in 1 .. Len(r) : r[a] = qs[m][a + 1]
    BY <1>0, HeadTailProperties
  <2> HIDE DEF r, head
  <2> QED BY <1>0, <2>1, <2>2, <2>3
<1> HIDE DEF r, head
<1>2. Increasing(r)
  BY <1>0, <1>1 DEF Increasing
<1>3. Part(r, qs[m])
  BY <1>1 DEF Part
<1>3a. Replaced(rest, qs, m, r, R)
  BY <1>1, <1>2, <1>3, ReplaceOrdered
<1> HIDE DEF rest
<1>4. /\ rest \in Seq(Seq(R)) /\ Len(rest) = Len(qs) /\ Ordered(rest)
      /\ rest[m] = r /\ \A k \in 1 .. Len(qs) : k # m => rest[k] = qs[k]
      /\ \A i : Among(i, rest) => Among(i, qs)
      /\ \A i : Among(i, qs) =>
           Among(i, rest) \/ \E b \in 1 .. Len(qs[m]) : qs[m][b] = i
  BY <1>3a DEF Replaced
<1>5. Among(head, qs)
  BY <1>1 DEF Among
<1>6. ~Among(head, rest)
  <2>1. SUFFICES ASSUME NEW k \in 1 .. Len(qs), NEW a \in 1 .. Len(rest[k]), rest[k][a] = head
                 PROVE  FALSE
    BY <1>4 DEF Among
  <2>2. CASE k = m
    <3>1. a \in 1 .. Len(r) /\ a + 1 \in 1 .. Len(qs[m]) /\ qs[m][a + 1] = qs[m][1]
      BY <1>1, <1>4, <2>1, <2>2
    <3>0. a \in Nat /\ a # 0
      OBVIOUS
    <3>4. head \in Nat /\ qs[m][1] = head /\ 1 \in 1 .. Len(qs[m])
      BY <1>1
    <3>2. 1 < a + 1 /\ 1 \in 1 .. Len(qs[m]) /\ qs[m][1] \in Nat
      BY <3>0, <3>4
    <3>3. qs[m][1] < qs[m][a + 1]
      BY <1>0, <3>1, <3>2 DEF Increasing
    <3> QED BY <3>1, <3>2, <3>3
  <2>3. CASE k # m
    <3>1. Apart(qs[k], qs[m]) /\ rest[k] = qs[k]
      BY <1>4, <2>3 DEF Ordered
    <3> QED BY <1>1, <2>1, <3>1 DEF Apart
  <2> QED BY <2>2, <2>3
<1>7. ASSUME NEW i, Among(i, qs), i # head PROVE Among(i, rest)
  <2>1. SUFFICES ASSUME NEW b \in 1 .. Len(qs[m]), qs[m][b] = i PROVE Among(i, rest)
    BY <1>4, <1>7
  <2>2. b # 1 /\ b - 1 \in 1 .. Len(r) /\ (b - 1) + 1 = b
    BY <1>0, <1>1, <1>7, <2>1
  <2>3. rest[m][b - 1] = i
    BY <1>1, <1>4, <2>1, <2>2
  <2> QED BY <1>4, <2>2, <2>3 DEF Among
<1>8. \A i : Among(i, rest) <=> Among(i, qs) /\ i # head
  BY <1>4, <1>6, <1>7
<1>9. Taken(rest, qs, m, R)
  BY <1>1, <1>4, <1>5, <1>8 DEF Taken, head
<1> QED BY <1>9 DEF rest, r

\* A queue that is dropped: its jobs are its head and later ones.
LEMMA DropOrdered ==
  ASSUME NEW R \in SUBSET Nat, NEW qs \in Seq(Seq(R)), Ordered(qs),
         NEW m \in 1 .. Len(qs), qs[m] # << >>
  PROVE  LET rest == [qs EXCEPT ![m] = << >>]
             head == Head(qs[m])
         IN
         /\ rest \in Seq(Seq(R)) /\ Len(rest) = Len(qs) /\ Ordered(rest)
         /\ \A k \in 1 .. Len(qs) : k # m => rest[k] = qs[k]
         /\ head \in R
         /\ \A i : Among(i, rest) => Among(i, qs)
         /\ \A i : Among(i, qs) => Among(i, rest) \/ (i \in R /\ head <= i)
<1> DEFINE r == << >>
           rest == [qs EXCEPT ![m] = r]
           head == Head(qs[m])
<1>0. qs[m] \in Seq(R) /\ Len(qs[m]) \in Nat /\ Len(qs) \in Nat /\ Increasing(qs[m])
  BY ElementOfSeq, LenProperties DEF Ordered
<1>1. head = qs[m][1] /\ head \in R /\ 1 \in 1 .. Len(qs[m])
  <2>1. Len(qs[m]) # 0
    BY <1>0, EmptySeq
  <2>2. head = qs[m][1] /\ head \in R
    BY <1>0, HeadTailProperties
  <2> QED BY <1>0, <2>1, <2>2
<1> HIDE DEF head
<1>2. r \in Seq(R) /\ Len(r) = 0 /\ Increasing(r) /\ \A a \in 1 .. Len(r) : FALSE
  BY EmptySeq DEF Increasing
<1> HIDE DEF r
<1>3. Part(r, qs[m])
  BY <1>2 DEF Part
<1>3a. Replaced(rest, qs, m, r, R)
  BY <1>2, <1>3, ReplaceOrdered
<1> HIDE DEF rest
<1>4. /\ rest \in Seq(Seq(R)) /\ Len(rest) = Len(qs) /\ Ordered(rest)
      /\ rest[m] = r /\ \A k \in 1 .. Len(qs) : k # m => rest[k] = qs[k]
      /\ \A i : Among(i, rest) => Among(i, qs)
      /\ \A i : Among(i, qs) =>
           Among(i, rest) \/ \E b \in 1 .. Len(qs[m]) : qs[m][b] = i
  BY <1>3a DEF Replaced
<1>5. ASSUME NEW b \in 1 .. Len(qs[m]) PROVE qs[m][b] \in R /\ head <= qs[m][b]
  <2>1. qs[m][b] \in R
    BY <1>0, ElementOfSeq
  <2>2. b = 1 \/ 1 < b
    BY <1>0
  <2>3. b = 1 \/ qs[m][1] < qs[m][b]
    BY <1>0, <1>1, <2>2 DEF Increasing
  <2>4. qs[m][1] \in Nat /\ qs[m][b] \in Nat
    BY <1>1, <2>1
  <2>5. CASE b = 1
    BY <1>1, <2>1, <2>4, <2>5
  <2>6. CASE qs[m][1] < qs[m][b]
    BY <1>1, <2>1, <2>4, <2>6
  <2> QED BY <2>3, <2>5, <2>6
<1>6. \A i : Among(i, qs) => Among(i, rest) \/ (i \in R /\ head <= i)
  BY <1>4, <1>5
<1> QED BY <1>1, <1>4, <1>6 DEF rest, r, head

-----------------------------------------------------------------------------
(***************************************************************************)
(* The steps of the jobs.                                                  *)
(***************************************************************************)
\* A job is a window and one of its indices.
LEMMA Pairs ==
  /\ \A j \in All : j[1] \in Windows /\ j[2] \in Indices(j[1]) /\ j = <<j[1], j[2]>>
  /\ \A w \in Windows : \A i \in Indices(w) : <<w, i>> \in All
BY DEF All

\* The part of the invariant about a window that a step leaves alone.
LEMMA WindowKept ==
  ASSUME NEW v \in Windows, WindowInv(v), leases \subseteq All, leases' \subseteq All,
         queues'[v] = queues[v], phase'[v] = phase[v], at'[v] = at[v],
         frontier'[v] = frontier[v], results'[v] = results[v],
         \A j \in All : j[1] = v => (j \in leases' <=> j \in leases)
  PROVE  WindowInv(v)'
<1>1. \A i \in Indices(v) : <<v, i>> \in leases' <=> <<v, i>> \in leases
  BY Pairs
<1>2. Placed(v)'
  BY <1>1 DEF WindowInv, Placed, Queued, Leased, Settles
<1>3. Bounded(v)' /\ Full(v)'
  BY DEF WindowInv, Bounded, Full
<1>4. Ended(v)'
  BY DEF WindowInv, Ended, Active
<1> QED BY <1>2, <1>3, <1>4 DEF WindowInv

\* What the steps of job j have in common: they change nothing but j, whose
\* local task is that of a job under way, and cancel only what was cancelled.
JobStep(j) ==
  /\ jobUnchanged
  /\ net' \in [All -> {"idle", "busy", "more", "end", "error", "cancelled"}]
  /\ local' \in [All -> Tasks]
  /\ ended' \in [All -> Outcomes]
  /\ \A k \in All : k # j => net'[k] = net[k] /\ local'[k] = local[k] /\ ended'[k] = ended[k]
  /\ net'[j] = "cancelled" => cancelled \/ net[j] = "cancelled"
  /\ ended'[j] = "cancelled" => cancelled \/ net[j] = "cancelled" \/ ended[j] = "cancelled"
  /\ local'[j] # "none" => j \in leases /\ ended'[j] = None
  /\ j \notin leases => ended'[j] = None

\* Every read is such a step.
LEMMA ReadsStep ==
  ASSUME IInv, NEW j \in All, Reads(j)
  PROVE  JobStep(j)
<1> USE DEF IInv, Typed, Working, JobStep, Tasks, Outcomes, Running
<1>1. CASE Chunk(j)
  BY <1>1 DEF Chunk
<1>2. CASE BodyEnds(j)
  BY <1>2 DEF BodyEnds
<1>3. CASE ReadFails(j)
  <2>1. PICK how \in Failure : /\ net' = [net EXCEPT ![j] = how]
                               /\ IF local[j] = "none" THEN End(j, how) ELSE UNCHANGED ended
    BY <1>3 DEF ReadFails
  <2>2. how \in {"error", "cancelled"} /\ (how = "cancelled" => cancelled)
    BY DEF Failure
  <2>3. jobUnchanged /\ UNCHANGED local /\ Running(j)
    BY <1>3 DEF ReadFails
  <2>4. CASE local[j] = "none"
    BY <2>1, <2>2, <2>3, <2>4 DEF End
  <2>5. CASE local[j] # "none"
    BY <2>1, <2>2, <2>3, <2>5
  <2> QED BY <2>4, <2>5
<1> QED BY <1>1, <1>2, <1>3 DEF Reads

\* So is every step of a local task.
LEMMA WorksStep ==
  ASSUME IInv, NEW j \in All, Works(j)
  PROVE  JobStep(j)
<1> USE DEF IInv, Typed, Working, JobStep, Tasks, Outcomes, Running
<1>1. CASE WorkerStarts(j)
  BY <1>1 DEF WorkerStarts
<1>2. CASE Stopped(j)
  BY <1>2 DEF Stopped, End, ReadFailed
<1>3. CASE WorkerFails(j)
  BY <1>3 DEF WorkerFails, End, ReadFailed, Busy
<1>4. CASE Appended(j)
  BY <1>4 DEF Appended, End, ReadFailed
<1>5. CASE Published(j)
  BY <1>5 DEF Published, End
<1> QED BY <1>1, <1>2, <1>3, <1>4, <1>5 DEF Works

\* And it keeps the invariant.
LEMMA JobStepKeeps ==
  ASSUME IInv, NEW j \in All, JobStep(j)
  PROVE  IInv'
<1>0. UNCHANGED <<cancelled, phase, queues, at, frontier, results, leases>>
  BY DEF JobStep, jobUnchanged, turnVars, recordVars
<1>1. Typed'
  BY <1>0 DEF IInv, Typed, JobStep
<1>2. Asked'
  BY <1>0 DEF IInv, Asked, JobStep
<1>3. Working'
  BY <1>0 DEF IInv, Working, JobStep
<1>4. ASSUME NEW w \in Windows PROVE WindowInv(w)'
  BY <1>0, WindowKept DEF IInv, Typed
<1> QED BY <1>1, <1>2, <1>3, <1>4 DEF IInv

-----------------------------------------------------------------------------
(***************************************************************************)
(* The steps of the coordinators.                                          *)
(***************************************************************************)
\* What a step of window w leaves to the others.
OthersKept(w) ==
  \A v \in Windows : v # w =>
    /\ queues'[v] = queues[v] /\ phase'[v] = phase[v] /\ at'[v] = at[v]
    /\ frontier'[v] = frontier[v] /\ results'[v] = results[v]
    /\ \A j \in All : j[1] = v => (j \in leases' <=> j \in leases)

\* A step keeps the invariant if it keeps what is said of its window and of
\* the jobs.
LEMMA CoordinatorKeeps ==
  ASSUME IInv, NEW w \in Windows, OthersKept(w), Typed', Asked', Working', WindowInv(w)'
  PROVE  IInv'
<1>1. ASSUME NEW v \in Windows, v # w PROVE WindowInv(v)'
  <2>1. /\ queues'[v] = queues[v] /\ phase'[v] = phase[v] /\ at'[v] = at[v]
        /\ frontier'[v] = frontier[v] /\ results'[v] = results[v]
        /\ \A j \in All : j[1] = v => (j \in leases' <=> j \in leases)
    BY <1>1 DEF OthersKept
  <2>2. leases \subseteq All /\ leases' \subseteq All /\ WindowInv(v)
    BY DEF IInv, Typed
  <2> QED BY <2>1, <2>2, WindowKept
<1> QED BY <1>1 DEF IInv

\* A step that changes only the phase of its window, and not to return.
LEMMA PhaseKeeps ==
  ASSUME IInv, NEW w \in Windows, NEW p \in Phases \ {"done", "scan"},
         phase[w] \in {"wait", "sleep"}, Goto(w, p),
         UNCHANGED <<cancelled, queues, at, recordVars, jobVars, leases>>
  PROVE  IInv'
<1>1. Typed'
  BY DEF IInv, Typed, Goto, recordVars, jobVars
<1>2. Asked' /\ Working'
  BY DEF IInv, Asked, Working, recordVars, jobVars
<1>3. phase'[w] = p /\ p # "done" /\ \A v \in Windows : v # w => phase'[v] = phase[v]
  BY DEF IInv, Typed, Goto
<1>4. OthersKept(w)
  BY <1>3 DEF OthersKept, recordVars
<1>5. WindowInv(w)'
  <2>1. Placed(w)' /\ Bounded(w)'
    BY DEF IInv, WindowInv, Placed, Bounded, Queued, Leased, Settles, recordVars
  <2>2. Full(w)' /\ Ended(w)'
    BY <1>3 DEF IInv, WindowInv, Full, Ended
  <2> QED BY <2>1, <2>2 DEF WindowInv
<1> QED BY <1>1, <1>2, <1>4, <1>5, CoordinatorKeeps

\* Heed, Refresh and Wake are such steps.
LEMMA WaitsKeep ==
  ASSUME IInv, NEW w \in Windows, Heed(w) \/ Refresh(w) \/ Wake(w)
  PROVE  IInv'
<1>1. /\ phase[w] \in {"wait", "sleep"} /\ Goto(w, "arm")
      /\ UNCHANGED <<cancelled, queues, at, recordVars, jobVars, leases>>
  BY DEF Heed, Refresh, Wake
<1>2. "arm" \in Phases \ {"done", "scan"}
  BY DEF Phases
<1> QED BY <1>1, <1>2, PhaseKeeps

\* NoneActive: a window goes to sleep, or returns with nothing left.
LEMMA NoneActiveKeeps ==
  ASSUME IInv, NEW w \in Windows, NoneActive(w)
  PROVE  IInv'
<1>0. phase[w] = "wait" /\ Active(w) = {}
      /\ UNCHANGED <<cancelled, queues, at, recordVars, jobVars, leases>>
  BY DEF NoneActive
<1>1. CASE queues[w] # << >>
  <2>1. Goto(w, "sleep") /\ "sleep" \in Phases \ {"done", "scan"}
    BY <1>1 DEF NoneActive, Phases
  <2> QED BY <1>0, <2>1, PhaseKeeps
<1>2. CASE queues[w] = << >>
  <2>0. Goto(w, "done")
    BY <1>2 DEF NoneActive
  <2>1. Typed'
    BY <1>0, <2>0 DEF IInv, Typed, Goto, recordVars, jobVars, Phases
  <2>2. Asked' /\ Working'
    BY <1>0 DEF IInv, Asked, Working, recordVars, jobVars
  <2>3. \A v \in Windows : v # w => phase'[v] = phase[v]
    BY <2>0 DEF IInv, Typed, Goto
  <2>4. OthersKept(w)
    BY <1>0, <2>3 DEF OthersKept, recordVars
  <2>5. Placed(w)' /\ Bounded(w)'
    BY <1>0 DEF IInv, WindowInv, Placed, Bounded, Queued, Leased, Settles, recordVars
  <2>6. Full(w)'
    BY <1>0, <1>2 DEF IInv, WindowInv, Full
  <2>7. Ended(w)'
    BY <1>0, <1>2 DEF Ended, Active
  <2> QED BY <2>1, <2>2, <2>4, <2>5, <2>6, <2>7, CoordinatorKeeps DEF WindowInv
<1> QED BY <1>1, <1>2

\* Refuse: the round goes on to the next queue.
LEMMA RefuseKeeps ==
  ASSUME IInv, NEW w \in Windows, Refuse(w)
  PROVE  IInv'
<1>0. /\ phase[w] = "scan" /\ at' = [at EXCEPT ![w] = @ + 1]
      /\ UNCHANGED <<cancelled, phase, queues, recordVars, jobVars, leases>>
  BY DEF Refuse, Visiting
<1>1. at[w] \in Nat /\ at'[w] = at[w] + 1 /\ \A v \in Windows : v # w => at'[v] = at[v]
  BY <1>0 DEF IInv, Typed
<1>2. Typed'
  BY <1>0, <1>1 DEF IInv, Typed, recordVars, jobVars
<1>3. Asked' /\ Working'
  BY <1>0 DEF IInv, Asked, Working, recordVars, jobVars
<1>4. OthersKept(w)
  BY <1>0, <1>1 DEF OthersKept, recordVars
<1>5. Placed(w)' /\ Bounded(w)'
  BY <1>0 DEF IInv, WindowInv, Placed, Bounded, Queued, Leased, Settles, recordVars
<1>6. Full(w)'
  <2>1. SUFFICES ASSUME NEW k \in 1 .. Len(queues[w])
                 PROVE  queues[w][k] # << >> \/ k < at[w] + 1
    BY <1>0, <1>1 DEF Full
  <2>2. k \in Nat /\ (queues[w][k] # << >> \/ k < at[w])
    BY DEF IInv, WindowInv, Full
  <2> QED BY <1>1, <2>2
<1>7. Ended(w)'
  BY <1>0 DEF Ended
<1> QED BY <1>2, <1>3, <1>4, <1>5, <1>6, <1>7, CoordinatorKeeps DEF WindowInv

\* EndRound: the empty queues are retired.
LEMMA EndRoundKeeps ==
  ASSUME IInv, NEW w \in Windows, EndRound(w)
  PROVE  IInv'
<1> DEFINE qs == queues[w]
           rest == Keep(qs, ToSet(qs) \ {<< >>})
<1>0. /\ phase[w] = "scan" /\ queues' = [queues EXCEPT ![w] = rest]
      /\ at' = [at EXCEPT ![w] = 1]
      /\ phase' = phase \/ Goto(w, "wait")
      /\ UNCHANGED <<cancelled, recordVars, jobVars, leases>>
  BY DEF EndRound
<1>1. Indices(w) \in SUBSET Nat /\ qs \in Seq(Seq(Indices(w))) /\ Ordered(qs)
  BY Numbered DEF IInv, Typed, WindowInv, Placed
<1> HIDE DEF qs
<1>2. /\ rest \in Seq(Seq(Indices(w))) /\ Ordered(rest)
      /\ \A k \in 1 .. Len(rest) : rest[k] # << >>
      /\ \A i : Among(i, rest) <=> Among(i, qs)
  BY <1>1, KeepOrdered
<1> HIDE DEF rest
<1>3. /\ DOMAIN queues' = Windows /\ queues'[w] = rest
      /\ \A v \in Windows : v # w => queues'[v] = queues[v]
  BY <1>0 DEF IInv, Typed
<1>4. /\ phase' \in [Windows -> Phases] /\ phase'[w] # "done" /\ at' \in [Windows -> Nat \ {0}]
      /\ \A v \in Windows : v # w => phase'[v] = phase[v] /\ at'[v] = at[v]
  <2>1. phase \in [Windows -> Phases] /\ at \in [Windows -> Nat \ {0}]
    BY DEF IInv, Typed
  <2>2. at' \in [Windows -> Nat \ {0}] /\ \A v \in Windows : v # w => at'[v] = at[v]
    BY <1>0, <2>1
  <2>3. phase' \in [Windows -> Phases] /\ phase'[w] # "done"
        /\ \A v \in Windows : v # w => phase'[v] = phase[v]
    <3>1. CASE phase' = phase
      BY <1>0, <2>1, <3>1
    <3>2. CASE Goto(w, "wait")
      BY <2>1, <3>2 DEF Goto, Phases
    <3> QED BY <1>0, <3>1, <3>2
  <2> QED BY <2>2, <2>3
<1>5. Typed'
  BY <1>0, <1>2, <1>3, <1>4 DEF IInv, Typed, recordVars, jobVars
<1>6. Asked' /\ Working'
  BY <1>0 DEF IInv, Asked, Working, recordVars, jobVars
<1>7. OthersKept(w)
  BY <1>0, <1>3, <1>4 DEF OthersKept, recordVars
<1>8. Placed(w)'
  <2>1. \A i : Queued(w, i)' <=> Queued(w, i)
    BY <1>2, <1>3 DEF Queued, qs
  <2>2. Ordered(queues'[w])
    BY <1>2, <1>3
  <2> QED BY <1>0, <2>1, <2>2 DEF IInv, WindowInv, Placed, Leased, Settles, recordVars
<1>9. Bounded(w)'
  BY <1>0 DEF IInv, WindowInv, Bounded, recordVars
<1>10. Full(w)' /\ Ended(w)'
  BY <1>2, <1>3, <1>4 DEF Full, Ended
<1> QED BY <1>5, <1>6, <1>7, <1>8, <1>9, <1>10, CoordinatorKeeps DEF WindowInv

\* The head of the queue that a round visits is a job of the window.
LEMMA VisitedHead ==
  ASSUME IInv, NEW w \in Windows, Visiting(w)
  PROVE  /\ Indices(w) \in SUBSET Nat
         /\ queues[w] \in Seq(Seq(Indices(w))) /\ Ordered(queues[w])
         /\ at[w] \in 1 .. Len(queues[w]) /\ queues[w][at[w]] # << >>
<1>1. Indices(w) \in SUBSET Nat
  BY Numbered
<1>2. queues[w] \in Seq(Seq(Indices(w))) /\ Ordered(queues[w]) /\ at[w] \in Nat \ {0}
  BY DEF IInv, Typed, WindowInv, Placed
<1>3. Len(queues[w]) \in Nat
  BY <1>2, LenProperties
<1>4. phase[w] = "scan" /\ at[w] <= Len(queues[w])
  BY DEF Visiting
<1>5. at[w] \in 1 .. Len(queues[w])
  BY <1>2, <1>3, <1>4
<1>6. queues[w][at[w]] # << >>
  <2>1. queues[w][at[w]] # << >> \/ at[w] < at[w]
    BY <1>5 DEF IInv, WindowInv, Full
  <2> QED BY <1>2, <2>1
<1> QED BY <1>1, <1>2, <1>5, <1>6

\* DropBeyond: what is dropped lies beyond the frontier of a download.
LEMMA DropBeyondKeeps ==
  ASSUME IInv, NEW w \in Windows, DropBeyond(w)
  PROVE  IInv'
<1> DEFINE qs == queues[w]
           m == at[w]
           rest == [qs EXCEPT ![m] = << >>]
           head == Head(qs[m])
<1>0. /\ phase[w] = "scan" /\ head >= frontier[w] /\ Visiting(w)
      /\ queues' = [queues EXCEPT ![w][m] = << >>]
      /\ at' = [at EXCEPT ![w] = @ + 1]
      /\ UNCHANGED <<cancelled, phase, recordVars, jobVars, leases>>
  BY DEF DropBeyond, Visiting, Beyond, Visited, SetVisited
<1>1. /\ Indices(w) \in SUBSET Nat /\ qs \in Seq(Seq(Indices(w))) /\ Ordered(qs)
      /\ m \in 1 .. Len(qs) /\ qs[m] # << >>
  BY <1>0, VisitedHead
<1>3. /\ DOMAIN queues' = Windows /\ queues'[w] = rest
      /\ \A v \in Windows : v # w => queues'[v] = queues[v]
  BY <1>0 DEF IInv, Typed
<1>4. /\ at' \in [Windows -> Nat \ {0}] /\ at'[w] = m + 1
      /\ \A v \in Windows : v # w => at'[v] = at[v]
  BY <1>0 DEF IInv, Typed
<1> HIDE DEF qs, m
<1>2. /\ rest \in Seq(Seq(Indices(w))) /\ Len(rest) = Len(qs) /\ Ordered(rest)
      /\ \A k \in 1 .. Len(qs) : k # m => rest[k] = qs[k]
      /\ head \in Indices(w)
      /\ \A i : Among(i, rest) => Among(i, qs)
      /\ \A i : Among(i, qs) => Among(i, rest) \/ (i \in Indices(w) /\ head <= i)
  BY <1>1, DropOrdered
<1> HIDE DEF rest, head
<1>5. Typed'
  BY <1>0, <1>2, <1>3, <1>4 DEF IInv, Typed, recordVars, jobVars
<1>6. Asked' /\ Working'
  BY <1>0 DEF IInv, Asked, Working, recordVars, jobVars
<1>7. OthersKept(w)
  BY <1>0, <1>3, <1>4 DEF OthersKept, recordVars
<1>8. Placed(w)'
  <2>1. Ordered(queues'[w])
    BY <1>2, <1>3
  <2>2. \A i : Queued(w, i)' => Queued(w, i)
    BY <1>2, <1>3 DEF Queued, qs
  <2>3. ASSUME NEW i \in Indices(w), Queued(w, i) PROVE Queued(w, i)' \/ Settles(w, i)'
    <3>1. SUFFICES ASSUME ~Queued(w, i)' PROVE Settles(w, i)'
      OBVIOUS
    <3>2. head <= i
      BY <1>2, <1>3, <2>3, <3>1 DEF Queued, qs
    <3>3. /\ i \in Nat /\ head \in Nat /\ head < NoError(w) /\ NoError(w) \in Nat
          /\ frontier[w] \in Nat
      BY <1>2, Numbered DEF IInv, Typed
    <3>4. frontier[w] # NoError(w) /\ frontier[w] <= i
      BY <1>0, <3>2, <3>3
    <3>5. w \in Downloads /\ results[w][frontier[w]] \in {"error", "cancelled"}
      BY <3>4 DEF IInv, WindowInv, Bounded
    <3>6. results[w][i] = None
      BY <2>3 DEF IInv, WindowInv, Placed
    <3>7. frontier[w] # i
      BY <3>5, <3>6, NoneAssumption
    <3>8. frontier[w] < i
      BY <3>3, <3>4, <3>7
    <3> QED BY <1>0, <3>5, <3>8 DEF Settles, recordVars
  <2> QED BY <1>0, <2>1, <2>2, <2>3 DEF IInv, WindowInv, Placed, Leased, Settles, recordVars
<1>9. Bounded(w)'
  BY <1>0 DEF IInv, WindowInv, Bounded, recordVars
<1>10. Full(w)'
  <2>1. SUFFICES ASSUME NEW k \in 1 .. Len(qs) PROVE rest[k] # << >> \/ k < m + 1
    BY <1>0, <1>2, <1>3, <1>4 DEF Full
  <2>2. m \in Nat /\ k \in Nat
    BY <1>1
  <2>3. CASE k = m
    BY <2>2, <2>3
  <2>4. CASE k # m
    <3>1. rest[k] = qs[k] /\ (qs[k] # << >> \/ k < m)
      BY <1>2, <2>4 DEF IInv, WindowInv, Full, qs, m
    <3> QED BY <2>2, <3>1
  <2> QED BY <2>3, <2>4
<1>11. Ended(w)'
  BY <1>0 DEF Ended
<1> QED BY <1>5, <1>6, <1>7, <1>8, <1>9, <1>10, <1>11, CoordinatorKeeps DEF WindowInv

\* Admit: the head of a queue gets a lease.
LEMMA AdmitKeeps ==
  ASSUME IInv, NEW w \in Windows, Admit(w)
  PROVE  IInv'
<1> DEFINE qs == queues[w]
           m == at[w]
           rest == [qs EXCEPT ![m] = Tail(qs[m])]
           head == Head(qs[m])
           j == <<w, head>>
<1>0. /\ phase[w] = "scan" /\ Visiting(w)
      /\ queues' = [queues EXCEPT ![w][m] = Tail(qs[m])]
      /\ at' = [at EXCEPT ![w] = @ + 1]
      /\ leases' = leases \cup {j}
      /\ net' = [net EXCEPT ![j] = IF RemoteOf(j) \in FileRemotes THEN "end" ELSE "busy"]
      /\ local' = [local EXCEPT ![j] = IF RemoteOf(j) \in FileRemotes THEN "publish" ELSE "none"]
      /\ UNCHANGED <<cancelled, phase, recordVars, ended>>
  BY DEF Admit, Visiting, Visited, SetVisited
<1>1. /\ Indices(w) \in SUBSET Nat /\ qs \in Seq(Seq(Indices(w))) /\ Ordered(qs)
      /\ m \in 1 .. Len(qs) /\ qs[m] # << >>
  BY <1>0, VisitedHead
<1>3. /\ DOMAIN queues' = Windows /\ queues'[w] = rest
      /\ \A v \in Windows : v # w => queues'[v] = queues[v]
  BY <1>0 DEF IInv, Typed
<1>4. /\ at' \in [Windows -> Nat \ {0}] /\ at'[w] = m + 1
      /\ \A v \in Windows : v # w => at'[v] = at[v]
  BY <1>0 DEF IInv, Typed
<1> HIDE DEF qs, m
<1>2. /\ rest \in Seq(Seq(Indices(w))) /\ Len(rest) = Len(qs) /\ Ordered(rest)
      /\ \A k \in 1 .. Len(qs) : k # m => rest[k] = qs[k]
      /\ head \in Indices(w) /\ Among(head, qs)
      /\ \A i : Among(i, rest) <=> Among(i, qs) /\ i # head
  <2>1. Taken(rest, qs, m, Indices(w))
    BY <1>1, TailOrdered
  <2> HIDE DEF rest
  <2> QED BY <2>1 DEF Taken
<1> HIDE DEF rest, head
<1>5. j \in All /\ j \notin leases /\ results[w][head] = None
  <2>1. Queued(w, head)
    BY <1>2 DEF Queued, qs
  <2> QED BY <1>2, <2>1, Pairs DEF IInv, WindowInv, Placed, Leased
<1>6. ended[j] = None
  BY <1>5 DEF IInv, Working
<1> HIDE DEF j
<1>7. /\ net' \in [All -> {"idle", "busy", "more", "end", "error", "cancelled"}]
      /\ local' \in [All -> Tasks] /\ net'[j] # "cancelled"
      /\ \A k \in All : k # j => net'[k] = net[k] /\ local'[k] = local[k]
  BY <1>0, <1>5 DEF IInv, Typed, Tasks
<1>8. Typed'
  BY <1>0, <1>2, <1>3, <1>4, <1>5, <1>7 DEF IInv, Typed, recordVars
<1>9. Asked'
  BY <1>0, <1>7 DEF IInv, Asked, recordVars
<1>10. Working'
  BY <1>0, <1>6, <1>7 DEF IInv, Working
<1>11. OthersKept(w)
  <2>1. \A v \in Windows : v # w => \A k \in All : k[1] = v => (k \in leases' <=> k \in leases)
    BY <1>0 DEF j
  <2> QED BY <1>0, <1>3, <1>4, <2>1 DEF OthersKept, recordVars
<1>12. Placed(w)'
  <2>1. Ordered(queues'[w])
    BY <1>2, <1>3
  <2>2. \A i : Queued(w, i)' <=> Queued(w, i) /\ i # head
    BY <1>2, <1>3 DEF Queued, qs
  <2>3. \A i : Leased(w, i)' <=> Leased(w, i) \/ i = head
    BY <1>0 DEF Leased, j
  <2> QED BY <1>0, <1>5, <2>1, <2>2, <2>3 DEF IInv, WindowInv, Placed, Settles, recordVars
<1>13. Bounded(w)'
  BY <1>0 DEF IInv, WindowInv, Bounded, recordVars
<1>14. Full(w)'
  <2>1. SUFFICES ASSUME NEW k \in 1 .. Len(qs) PROVE rest[k] # << >> \/ k < m + 1
    BY <1>0, <1>2, <1>3, <1>4 DEF Full
  <2>2. m \in Nat /\ k \in Nat
    BY <1>1
  <2>3. CASE k = m
    BY <2>2, <2>3
  <2>4. CASE k # m
    <3>1. rest[k] = qs[k] /\ (qs[k] # << >> \/ k < m)
      BY <1>2, <2>4 DEF IInv, WindowInv, Full, qs, m
    <3> QED BY <2>2, <3>1
  <2> QED BY <2>3, <2>4
<1>15. Ended(w)'
  BY <1>0 DEF Ended
<1> QED BY <1>8, <1>9, <1>10, <1>11, <1>12, <1>13, <1>14, <1>15, CoordinatorKeeps DEF WindowInv

\* Arm: after a cancellation the jobs that are queued are recorded as such.
LEMMA ArmKeeps ==
  ASSUME IInv, NEW w \in Windows, Arm(w)
  PROVE  IInv'
<1> DEFINE listed(i) == \E q \in ToSet(queues[w]) : i \in ToSet(q)
           recorded == [i \in Indices(w) |-> IF listed(i) THEN "cancelled" ELSE results[w][i]]
<1>0. /\ Goto(w, "scan") /\ at' = [at EXCEPT ![w] = 1] /\ phase[w] = "arm"
      /\ UNCHANGED <<cancelled, frontier, jobVars, leases>>
  BY DEF Arm
<1>1. queues[w] \in Seq(Seq(Indices(w)))
  BY DEF IInv, Typed
<1>2. /\ phase' \in [Windows -> Phases] /\ phase'[w] = "scan"
      /\ at' \in [Windows -> Nat \ {0}] /\ at'[w] = 1
      /\ \A v \in Windows : v # w => phase'[v] = phase[v] /\ at'[v] = at[v]
  BY <1>0 DEF IInv, Typed, Goto, Phases
<1>3. Working'
  BY <1>0 DEF IInv, Working, jobVars
<1>4. \A k \in 1 .. Len(queues[w]) : queues[w][k] # << >>
  BY <1>0 DEF IInv, WindowInv, Full
<1>5. CASE ~cancelled
  <2>0. UNCHANGED <<results, queues>>
    BY <1>5 DEF Arm
  <2>1. Typed'
    BY <1>0, <1>2, <2>0 DEF IInv, Typed, jobVars
  <2>2. Asked'
    BY <1>0, <2>0 DEF IInv, Asked, jobVars
  <2>3. OthersKept(w)
    BY <1>0, <1>2, <2>0 DEF OthersKept
  <2>4. Placed(w)' /\ Bounded(w)'
    BY <1>0, <2>0 DEF IInv, WindowInv, Placed, Bounded, Queued, Leased, Settles
  <2>5. Full(w)' /\ Ended(w)'
    BY <1>2, <1>4, <2>0 DEF Full, Ended
  <2> QED BY <1>3, <2>1, <2>2, <2>3, <2>4, <2>5, CoordinatorKeeps DEF WindowInv
<1>6. CASE cancelled
  <2>0. results' = [results EXCEPT ![w] = recorded] /\ queues' = [queues EXCEPT ![w] = << >>]
    BY <1>6 DEF Arm
  <2>1. \A i \in Indices(w) : listed(i) <=> Queued(w, i)
    <3>1. \A k \in 1 .. Len(queues[w]) : queues[w][k] \in Seq(Indices(w))
      BY <1>1, ElementOfSeq
    <3>2. DOMAIN queues[w] = 1 .. Len(queues[w])
          /\ \A k \in 1 .. Len(queues[w]) : DOMAIN queues[w][k] = 1 .. Len(queues[w][k])
      BY <1>1, <3>1, LenProperties
    <3>3. \A i : Queued(w, i) <=> \E k \in DOMAIN queues[w] : \E a \in DOMAIN queues[w][k] : queues[w][k][a] = i
      BY <3>2 DEF Queued, Among
    <3> QED BY <3>3 DEF ToSet
  <2>2. \A i \in Indices(w) : recorded[i] = IF Queued(w, i) THEN "cancelled" ELSE results[w][i]
    BY <2>1
  <2>3. recorded \in [Indices(w) -> Outcomes]
    BY DEF IInv, Typed, Outcomes
  <2> HIDE DEF recorded
  <2>4. /\ DOMAIN results' = Windows /\ DOMAIN queues' = Windows
        /\ results'[w] = recorded /\ queues'[w] = << >>
        /\ \A v \in Windows : v # w => results'[v] = results[v] /\ queues'[v] = queues[v]
    BY <2>0 DEF IInv, Typed
  <2>5. << >> \in Seq(Seq(Indices(w))) /\ Len(<< >>) = 0
    BY EmptySeq
  <2>6. Typed'
    <3>1. \A v \in Windows : queues'[v] \in Seq(Seq(Indices(v)))
      BY <2>4, <2>5 DEF IInv, Typed
    <3>2. \A v \in Windows : results'[v] \in [Indices(v) -> Outcomes]
      BY <2>3, <2>4 DEF IInv, Typed
    <3> QED BY <1>0, <1>2, <2>4, <3>1, <3>2 DEF IInv, Typed, jobVars
  <2>7. Asked'
    BY <1>0, <1>6 DEF Asked
  <2>8. OthersKept(w)
    BY <1>0, <1>2, <2>4 DEF OthersKept
  <2>9. Placed(w)'
    <3>1. Ordered(queues'[w]) /\ \A i : ~Queued(w, i)'
      BY <2>4, <2>5 DEF Ordered, Queued, Among
    <3> QED BY <1>0, <2>2, <2>4, <3>1, NoneAssumption
            DEF IInv, WindowInv, Placed, Leased, Settles
  <2>10. Bounded(w)'
    BY <1>0, <2>2, <2>4 DEF IInv, WindowInv, Bounded
  <2>11. Full(w)' /\ Ended(w)'
    BY <1>2, <2>4, <2>5 DEF Full, Ended
  <2> QED BY <1>3, <2>6, <2>7, <2>8, <2>9, <2>10, <2>11, CoordinatorKeeps DEF WindowInv
<1> QED BY <1>5, <1>6

\* Completed: a job that has ended gives its result, and its lease back.
LEMMA CompletedKeeps ==
  ASSUME IInv, NEW w \in Windows, NEW i \in Indices(w), Completed(w, i)
  PROVE  IInv'
<1> DEFINE j == <<w, i>>
           how == ended[j]
<1>0. /\ phase[w] = "wait" /\ Goto(w, "arm") /\ j \in leases /\ how # None
      /\ leases' = leases \ {j}
      /\ results' = [results EXCEPT ![w][i] = how]
      /\ frontier' = [frontier EXCEPT ![w] =
            IF w \in Downloads /\ how # "ok" /\ i < @ THEN i ELSE @]
      /\ net' = [net EXCEPT ![j] = "idle"] /\ ended' = [ended EXCEPT ![j] = None]
      /\ UNCHANGED <<cancelled, queues, at, local>>
  BY DEF Completed, Record
<1>1. j \in All /\ how \in {"ok", "error", "cancelled"} /\ local[j] = "none"
  BY <1>0, Pairs DEF IInv, Typed, Working, Outcomes
<1>2. results[w][i] = None /\ ~Queued(w, i)
  BY <1>0 DEF IInv, WindowInv, Placed, Leased
<1>3. i \in Nat /\ i < NoError(w) /\ NoError(w) \in Nat /\ frontier[w] \in Nat
  BY Numbered DEF IInv, Typed
<1>4. \A k \in Indices(w) : k # i => <<w, k>> # j
  OBVIOUS
<1>12. how = "cancelled" => cancelled
  BY <1>1 DEF IInv, Asked
<1>13. \A v \in Windows : v # w => \A k \in All : k[1] = v => k # j
  BY Pairs
<1>14. \A k \in Indices(w) : Leased(w, k)' <=> Leased(w, k) /\ k # i
  BY <1>0, <1>4 DEF Leased
<1> HIDE DEF j, how
<1>5. /\ DOMAIN results' = Windows /\ results'[w] \in [Indices(w) -> Outcomes]
      /\ results'[w][i] = how
      /\ \A k \in Indices(w) : k # i => results'[w][k] = results[w][k]
      /\ \A v \in Windows : v # w => results'[v] = results[v]
  <2>1. how \in Outcomes
    BY <1>1 DEF Outcomes
  <2>2. DOMAIN results = Windows /\ results[w] \in [Indices(w) -> Outcomes]
    BY DEF IInv, Typed
  <2>3. results'[w] = [results[w] EXCEPT ![i] = how] /\ DOMAIN results' = Windows
        /\ \A v \in Windows : v # w => results'[v] = results[v]
    BY <1>0, <2>2
  <2> QED BY <2>1, <2>2, <2>3
<1>6. /\ frontier' \in [Windows -> Nat]
      /\ frontier'[w] = IF w \in Downloads /\ how # "ok" /\ i < frontier[w] THEN i ELSE frontier[w]
      /\ \A v \in Windows : v # w => frontier'[v] = frontier[v]
  BY <1>0, <1>3 DEF IInv, Typed
<1>7. /\ phase' \in [Windows -> Phases] /\ phase'[w] = "arm"
      /\ \A v \in Windows : v # w => phase'[v] = phase[v]
  BY <1>0 DEF IInv, Typed, Goto, Phases
<1>8. /\ net' \in [All -> {"idle", "busy", "more", "end", "error", "cancelled"}]
      /\ ended' \in [All -> Outcomes] /\ net'[j] = "idle" /\ ended'[j] = None
      /\ \A k \in All : k # j => net'[k] = net[k] /\ ended'[k] = ended[k]
  BY <1>0, <1>1 DEF IInv, Typed, Outcomes
<1>9. Typed'
  BY <1>0, <1>5, <1>6, <1>7, <1>8 DEF IInv, Typed
<1>10. Asked'
  <2>1. SUFFICES ASSUME ~cancelled
                 PROVE  /\ \A k \in All : net'[k] # "cancelled" /\ ended'[k] # "cancelled"
                        /\ \A v \in Windows : \A k \in Indices(v) : results'[v][k] # "cancelled"
    BY <1>0 DEF Asked
  <2>2. /\ \A k \in All : net[k] # "cancelled" /\ ended[k] # "cancelled"
        /\ \A v \in Windows : \A k \in Indices(v) : results[v][k] # "cancelled"
    BY <2>1 DEF IInv, Asked
  <2>3. \A k \in All : net'[k] # "cancelled" /\ ended'[k] # "cancelled"
    BY <1>8, <2>2, NoneAssumption
  <2>4. ASSUME NEW v \in Windows, NEW k \in Indices(v) PROVE results'[v][k] # "cancelled"
    BY <1>5, <1>12, <2>1, <2>2
  <2> QED BY <2>3, <2>4
<1>11. Working'
  BY <1>0, <1>1, <1>8 DEF IInv, Working
<1>15. OthersKept(w)
  BY <1>0, <1>5, <1>6, <1>7, <1>13 DEF OthersKept
<1>16. Placed(w)'
  <2>1. Ordered(queues'[w]) /\ \A k : Queued(w, k)' <=> Queued(w, k)
    BY <1>0 DEF IInv, WindowInv, Placed, Queued
  <2>2. \A k \in Indices(w) : Settles(w, k) => Settles(w, k)'
    <3>1. SUFFICES ASSUME NEW k \in Indices(w), k # i, Settles(w, k) PROVE Settles(w, k)'
      BY <1>1, <1>5, NoneAssumption DEF Settles
    <3>2. k \in Nat
      BY Numbered
    <3> QED BY <1>3, <1>5, <1>6, <3>1, <3>2 DEF Settles
  <2>3. Settles(w, i)'
    BY <1>1, <1>5, NoneAssumption DEF Settles
  <2>4. \A k \in Indices(w) : /\ Queued(w, k) \/ Leased(w, k) \/ Settles(w, k)
                              /\ Queued(w, k) => ~Leased(w, k)
                              /\ Queued(w, k) \/ Leased(w, k) => results[w][k] = None
    BY DEF IInv, WindowInv, Placed
  <2> QED BY <1>2, <1>5, <1>14, <2>1, <2>2, <2>3, <2>4 DEF Placed
<1>17. Bounded(w)'
  <2>1. CASE w \in Downloads /\ how # "ok" /\ i < frontier[w]
    BY <1>1, <1>5, <1>6, <2>1 DEF Bounded
  <2>2. CASE ~(w \in Downloads /\ how # "ok" /\ i < frontier[w])
    <3>1. SUFFICES ASSUME frontier[w] # NoError(w)
                   PROVE  /\ w \in Downloads /\ frontier[w] \in Indices(w)
                          /\ results'[w][frontier[w]] \in {"error", "cancelled"}
      BY <1>6, <2>2 DEF Bounded
    <3>2. /\ w \in Downloads /\ frontier[w] \in Indices(w)
          /\ results[w][frontier[w]] \in {"error", "cancelled"}
      BY <3>1 DEF IInv, WindowInv, Bounded
    <3>3. frontier[w] # i
      BY <1>2, <3>2, NoneAssumption
    <3> QED BY <1>5, <3>2, <3>3
  <2> QED BY <2>1, <2>2
<1>18. Full(w)' /\ Ended(w)'
  BY <1>0, <1>7 DEF IInv, WindowInv, Full, Ended
<1> QED BY <1>9, <1>10, <1>11, <1>15, <1>16, <1>17, <1>18, CoordinatorKeeps DEF WindowInv

-----------------------------------------------------------------------------
(***************************************************************************)
(* The invariant and the theorem.                                          *)
(***************************************************************************)
\* It holds at first: every job is queued, once.
LEMMA InitInv == Init => IInv
<1> SUFFICES ASSUME Init PROVE IInv
  OBVIOUS
<1> USE DEF Init
<1>1. Typed
  <2>1. \A w \in Windows : Queues(w) \in Seq(Seq(Indices(w))) /\ NoError(w) \in Nat
    BY QueuesOrdered, Numbered
  <2>2. DOMAIN queues = Windows /\ \A w \in Windows : queues[w] \in Seq(Seq(Indices(w)))
    BY <2>1
  <2>3. DOMAIN results = Windows /\ \A w \in Windows : results[w] \in [Indices(w) -> Outcomes]
    BY DEF Outcomes
  <2>4. phase \in [Windows -> Phases] /\ at \in [Windows -> Nat \ {0}]
    BY DEF Phases
  <2>5. frontier \in [Windows -> Nat]
    BY <2>1
  <2>6. /\ net \in [All -> {"idle", "busy", "more", "end", "error", "cancelled"}]
        /\ local \in [All -> Tasks] /\ ended \in [All -> Outcomes]
    BY DEF Tasks, Outcomes
  <2> QED BY <2>2, <2>3, <2>4, <2>5, <2>6 DEF Typed
<1>2. Asked /\ Working
  BY NoneAssumption DEF Asked, Working
<1>3. ASSUME NEW w \in Windows PROVE WindowInv(w)
  <2>0. /\ queues[w] = Queues(w) /\ phase[w] = "arm" /\ frontier[w] = NoError(w)
        /\ \A i \in Indices(w) : results[w][i] = None /\ ~Leased(w, i)
    BY DEF Leased
  <2>1. Placed(w)
    BY <2>0, QueuesOrdered DEF Placed, Queued
  <2>2. Full(w)
    BY <2>0, QueuesOrdered DEF Full
  <2> QED BY <2>0, <2>1, <2>2 DEF WindowInv, Bounded, Ended
<1> QED BY <1>1, <1>2, <1>3 DEF IInv

\* Every step keeps it.
LEMMA NextInv == IInv /\ [Next]_vars => IInv'
<1> SUFFICES ASSUME IInv, [Next]_vars PROVE IInv'
  OBVIOUS
<1>1. ASSUME NEW w \in Windows, Coordinate(w) PROVE IInv'
  <2>1. CASE Arm(w)
    BY <2>1, ArmKeeps
  <2>2. CASE DropBeyond(w)
    BY <2>2, DropBeyondKeeps
  <2>3. CASE Admit(w)
    BY <2>3, AdmitKeeps
  <2>4. CASE Refuse(w)
    BY <2>4, RefuseKeeps
  <2>5. CASE EndRound(w)
    BY <2>5, EndRoundKeeps
  <2>6. CASE Heed(w) \/ Wake(w)
    BY <2>6, WaitsKeep
  <2>7. CASE NoneActive(w)
    BY <2>7, NoneActiveKeeps
  <2>8. ASSUME NEW i \in Indices(w), Completed(w, i) PROVE IInv'
    BY <2>8, CompletedKeeps
  <2> QED BY <1>1, <2>1, <2>2, <2>3, <2>4, <2>5, <2>6, <2>7, <2>8 DEF Coordinate
<1>2. ASSUME NEW w \in Windows, Refresh(w) PROVE IInv'
  BY <1>2, WaitsKeep
<1>3. ASSUME NEW j \in All, Reads(j) \/ Works(j) PROVE IInv'
  BY <1>3, ReadsStep, WorksStep, JobStepKeeps
<1>4. CASE Cancel
  <2>1. /\ cancelled' = TRUE
        /\ UNCHANGED <<phase, queues, at, frontier, results, net, local, ended, leases>>
    BY <1>4 DEF Cancel, turnVars, recordVars, jobVars
  <2>2. Typed' /\ Asked' /\ Working'
    BY <2>1 DEF IInv, Typed, Asked, Working
  <2>3. ASSUME NEW w \in Windows PROVE WindowInv(w)'
    BY <2>1, WindowKept DEF IInv, Typed
  <2> QED BY <2>2, <2>3 DEF IInv
<1>5. CASE UNCHANGED vars
  <2>1. UNCHANGED <<cancelled, phase, queues, at, frontier, results, net, local, ended, leases>>
    BY <1>5 DEF vars, turnVars, recordVars, jobVars
  <2>2. Typed' /\ Asked' /\ Working'
    BY <2>1 DEF IInv, Typed, Asked, Working
  <2>3. ASSUME NEW w \in Windows PROVE WindowInv(w)'
    BY <2>1, WindowKept DEF IInv, Typed
  <2> QED BY <2>2, <2>3 DEF IInv
<1> QED BY <1>1, <1>2, <1>3, <1>4, <1>5 DEF Next, Returned

\* The first of the failures of a window is one of them.
LEMMA FirstFailure ==
  ASSUME NEW w \in Windows, Failed(w) # {}
  PROVE  \E i \in Failed(w) : Reported(w) = results[w][i]
<1>1. Failed(w) \in SUBSET Nat
  BY Numbered DEF Failed
<1>2. \E i \in Failed(w) : \A k \in Failed(w) : i <= k
  BY <1>1, Least
<1>3. (CHOOSE i \in Failed(w) : \A k \in Failed(w) : i <= k) \in Failed(w)
  BY <1>2
<1> QED BY <1>3 DEF Reported

\* What a window returns is what its caller relies on.
LEMMA SettledInv == IInv => Settled
<1> SUFFICES ASSUME IInv, NEW w \in Windows, phase[w] = "done"
             PROVE  /\ \A i \in Indices(w) :
                         results[w][i] = None => w \in Downloads /\ \E k \in Failed(w) : k < i
                    /\ Reported(w) = "cancelled" => cancelled
                    /\ Active(w) = {} /\ ~\E j \in Busy : j[1] = w
  BY DEF Settled
<1>1. queues[w] = << >> /\ Active(w) = {}
  BY DEF IInv, WindowInv, Ended
<1>2. ASSUME NEW i \in Indices(w), results[w][i] = None
      PROVE  w \in Downloads /\ \E k \in Failed(w) : k < i
  <2>1. ~Queued(w, i)
    BY <1>1, EmptySeq DEF Queued, Among
  <2>2. ~Leased(w, i)
    BY <1>1 DEF Active, Leased
  <2>3. w \in Downloads /\ frontier[w] < i
    BY <1>2, <2>1, <2>2 DEF IInv, WindowInv, Placed, Settles
  <2>4. frontier[w] # NoError(w)
    <3>1. i \in Nat /\ i < NoError(w) /\ NoError(w) \in Nat /\ frontier[w] \in Nat
      BY Numbered DEF IInv, Typed
    <3> QED BY <2>3, <3>1
  <2>5. frontier[w] \in Failed(w)
    BY <2>4 DEF IInv, WindowInv, Bounded, Failed
  <2> QED BY <2>3, <2>5
<1>3. ASSUME Reported(w) = "cancelled" PROVE cancelled
  <2>1. Failed(w) # {}
    BY <1>3 DEF Reported
  <2>2. PICK i \in Failed(w) : Reported(w) = results[w][i]
    BY <2>1, FirstFailure
  <2> QED BY <1>3, <2>2 DEF Failed, IInv, Asked
<1>4. ASSUME NEW j \in Busy, j[1] = w PROVE FALSE
  <2>1. j \in All /\ local[j] # "none"
    BY DEF Busy
  <2>2. j \in leases
    BY <2>1 DEF IInv, Working
  <2> QED BY <1>1, <1>4, <2>2 DEF Active
<1> QED BY <1>1, <1>2, <1>3, <1>4

\* A window that has returned gives its caller what the caller relies on, for
\* every set of windows, remotes and jobs and every limit: Settled.
THEOREM WindowsSettle == Spec => []Settled
<1>1. Spec => []IInv
  BY InitInv, NextInv, PTL DEF Spec
<1>2. IInv => Settled
  BY SettledInv
<1> QED BY <1>1, <1>2, PTL

=============================================================================
