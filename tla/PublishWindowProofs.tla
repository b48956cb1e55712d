-------------------------- MODULE PublishWindowProofs --------------------------
(***************************************************************************)
(* Proofs about PublishWindow, for every list of obligations, every number *)
(* of remotes and objects, and every capacity and budget.                  *)
(*                                                                         *)
(* The inductive invariant has four layers, each proved from those before: *)
(* where the obligations and the verifications are (Located), what the     *)
(* frontier leaves in the queues (Before), the budgets (Held), and what a  *)
(* scan has established of the remotes it has passed (Scanned).            *)
(*                                                                         *)
(* The lemmas on Keep are those of DownloadWindowProofs, which belongs to  *)
(* another state and cannot be extended here.                              *)
(***************************************************************************)
EXTENDS PublishWindow, SequenceTheorems, FiniteSetTheorems, WellFoundedInduction, TLAPS

(***************************************************************************)
(* Induction over the natural numbers, as a fact about sets.               *)
(***************************************************************************)
\* A set that has 0 and with each number the next has all of them.
LEMMA Induction ==
  ASSUME NEW S, 0 \in S, \A n \in Nat : n \in S => n + 1 \in S
  PROVE  Nat \subseteq S
<1> DEFINE T == Nat \ S
           R == OpToRel(<, Nat)
<1>1. IsWellFoundedOn(R, Nat)
  BY NatLessThanWellFounded
<1>2. ASSUME T # {} PROVE FALSE
  <2>1. PICK x \in T : \A y \in T : ~(<<y, x>> \in R)
    BY <1>1, <1>2, WFMin
  <2>2. x # 0 /\ x - 1 \in Nat
    OBVIOUS
  <2>3. <<x - 1, x>> \in R
    BY <2>2 DEF OpToRel
  <2>4. x - 1 \in S
    BY <2>1, <2>2, <2>3
  <2> QED BY <2>2, <2>4
<1> QED BY <1>2

\* Of any natural numbers there is a least.
LEMMA Least ==
  ASSUME NEW T \in SUBSET Nat, T # {}
  PROVE  \E x \in T : \A y \in T : x <= y
<1> DEFINE R == OpToRel(<, Nat)
<1>1. IsWellFoundedOn(R, Nat)
  BY NatLessThanWellFounded
<1>2. PICK x \in T : \A y \in T : ~(<<y, x>> \in R)
  BY <1>1, WFMin
<1>3. ASSUME NEW y \in T, y < x PROVE FALSE
  <2>1. <<y, x>> \in R
    BY <1>3 DEF OpToRel
  <2> QED BY <1>2, <2>1
<1>4. \A y \in T : x \in Nat /\ y \in Nat
  OBVIOUS
<1>5. \A y \in T : x <= y
  BY <1>3, <1>4
<1> QED BY <1>5

-----------------------------------------------------------------------------
(***************************************************************************)
(* What Keep returns.                                                      *)
(***************************************************************************)
\* The elements of S in s, found one by one.
Scan(s, S, f) ==
  f = [n \in 0 .. Len(s) |->
         IF n = 0 THEN << >>
         ELSE IF s[n] \in S THEN Append(f[n - 1], s[n]) ELSE f[n - 1]]

\* The recursion of Keep has a solution.
LEMMA ScanExists ==
  ASSUME NEW R, NEW s \in Seq(R), NEW S
  PROVE  \E f : Scan(s, S, f)
<1> DEFINE Upto(n, f) ==
             /\ f[0] = << >>
             /\ \A m \in 1 .. n : f[m] = IF s[m] \in S THEN Append(f[m - 1], s[m]) ELSE f[m - 1]
           Some == {n \in Nat : \E f : Upto(n, f)}
<1>0. Len(s) \in Nat
  BY LenProperties
<1>1. 0 \in Some
  <2> DEFINE f == [m \in 0 .. 0 |-> << >>]
  <2>1. Upto(0, f)
    OBVIOUS
  <2> QED BY <2>1
<1>2. ASSUME NEW n \in Nat, n \in Some PROVE n + 1 \in Some
  <2>1. PICK f : Upto(n, f)
    BY <1>2
  <2> DEFINE g == [m \in 0 .. (n + 1) |->
                     IF m = n + 1 THEN IF s[m] \in S THEN Append(f[n], s[m]) ELSE f[n]
                     ELSE f[m]]
  <2>3. g[0] = << >> /\ g[n] = f[n] /\ \A m \in 1 .. n : g[m] = f[m] /\ g[m - 1] = f[m - 1]
    BY <2>1
  <2>4. g[n + 1] = IF s[n + 1] \in S THEN Append(g[n], s[n + 1]) ELSE g[n]
    BY <2>3
  <2> HIDE DEF g
  <2>5. ASSUME NEW m \in 1 .. (n + 1)
        PROVE  g[m] = IF s[m] \in S THEN Append(g[m - 1], s[m]) ELSE g[m - 1]
    <3>1. CASE m = n + 1
      <4>1. m - 1 = n
        BY <3>1
      <4> QED BY <3>1, <4>1, <2>4
    <3>2. CASE m \in 1 .. n
      BY <2>1, <2>3, <3>2
    <3> QED BY <3>1, <3>2
  <2>6. Upto(n + 1, g)
    BY <2>3, <2>5
  <2> QED BY <2>6
<1>3. Len(s) \in Some
  <2> HIDE DEF Some
  <2> QED BY <1>0, <1>1, <1>2, Induction
<1>4. PICK f : Upto(Len(s), f)
  BY <1>3
<1> DEFINE g == [m \in 0 .. Len(s) |-> f[m]]
<1>5. \A n \in 0 .. Len(s) :
        g[n] = IF n = 0 THEN << >>
               ELSE IF s[n] \in S THEN Append(g[n - 1], s[n]) ELSE g[n - 1]
  BY <1>0, <1>4
<1> HIDE DEF g
<1>6. g = [n \in 0 .. Len(s) |->
             IF n = 0 THEN << >>
             ELSE IF s[n] \in S THEN Append(g[n - 1], s[n]) ELSE g[n - 1]]
  BY <1>5 DEF g
<1> QED BY <1>6 DEF Scan

\* Keep is the last of its values.
LEMMA KeepScan ==
  ASSUME NEW R, NEW s \in Seq(R), NEW S
  PROVE  \E f : Scan(s, S, f) /\ Keep(s, S) = f[Len(s)]
<1> DEFINE f == CHOOSE f : Scan(s, S, f)
<1>1. Scan(s, S, f)
  BY ScanExists
<1>2. Keep(s, S) = f[Len(s)]
  BY DEF Keep, Scan
<1> QED BY <1>1, <1>2

\* q is the part of s1, .., sn in S: e tells where its elements stand.
Picks(s, S, n, q, e) ==
  /\ e \in [1 .. Len(q) -> 1 .. n]
  /\ \A k, l \in 1 .. Len(q) : k < l => e[k] < e[l]
  /\ \A k \in 1 .. Len(q) : q[k] = s[e[k]] /\ q[k] \in S
  /\ \A m \in 1 .. n : s[m] \in S => \E k \in 1 .. Len(q) : e[k] = m

\* Keep returns the elements of S, all of them, in the order of s.
LEMMA KeepPicks ==
  ASSUME NEW R, NEW s \in Seq(R), NEW S
  PROVE  Keep(s, S) \in Seq(R) /\ \E e : Picks(s, S, Len(s), Keep(s, S), e)
<1>0. Len(s) \in Nat /\ \A m \in 1 .. Len(s) : s[m] \in R
  BY LenProperties, ElementOfSeq
<1>1. PICK f : Scan(s, S, f) /\ Keep(s, S) = f[Len(s)]
  BY KeepScan
<1>2. /\ f[0] = << >>
      /\ \A m \in 1 .. Len(s) : f[m] = IF s[m] \in S THEN Append(f[m - 1], s[m]) ELSE f[m - 1]
  <2>1. f[0] = << >>
    BY <1>0, <1>1 DEF Scan
  <2>2. ASSUME NEW m \in 1 .. Len(s)
        PROVE  f[m] = IF s[m] \in S THEN Append(f[m - 1], s[m]) ELSE f[m - 1]
    <3>1. m \in 0 .. Len(s) /\ m # 0
      BY <1>0
    <3> QED BY <1>1, <3>1 DEF Scan
  <2> QED BY <2>1, <2>2
<1> DEFINE Good == {n \in Nat : n <= Len(s) =>
                      f[n] \in Seq(R) /\ \E e : Picks(s, S, n, f[n], e)}
<1>3. 0 \in Good
  <2>1. f[0] \in Seq(R) /\ Len(f[0]) = 0
    BY <1>2, EmptySeq
  <2>2. Picks(s, S, 0, f[0], [k \in 1 .. 0 |-> 0])
    BY <2>1 DEF Picks
  <2> QED BY <2>1, <2>2
<1>4. ASSUME NEW n \in Nat, n \in Good PROVE n + 1 \in Good
  <2>1. SUFFICES ASSUME n + 1 <= Len(s)
                 PROVE  f[n + 1] \in Seq(R) /\ \E e : Picks(s, S, n + 1, f[n + 1], e)
    OBVIOUS
  <2>2. f[n] \in Seq(R) /\ n + 1 \in 1 .. Len(s) /\ (n + 1) - 1 = n
    BY <1>0, <1>4, <2>1
  <2>3. PICK e : Picks(s, S, n, f[n], e)
    BY <1>0, <1>4, <2>1
  <2>4. Len(f[n]) \in Nat
    BY <2>2, LenProperties
  <2>5. CASE s[n + 1] \notin S
    <3>1. f[n + 1] = f[n]
      BY <1>2, <2>2, <2>5
    <3>2. e \in [1 .. Len(f[n]) -> 1 .. (n + 1)]
      BY <2>3 DEF Picks
    <3>3. \A m \in 1 .. (n + 1) : s[m] \in S => m \in 1 .. n
      BY <2>5
    <3>4. Picks(s, S, n + 1, f[n], e)
      BY <2>3, <3>2, <3>3 DEF Picks
    <3> QED BY <2>2, <3>1, <3>4
  <2>6. CASE s[n + 1] \in S
    <3> DEFINE q == f[n + 1]
               L == Len(f[n])
               d == [k \in 1 .. (L + 1) |-> IF k = L + 1 THEN n + 1 ELSE e[k]]
    <3>1. q = Append(f[n], s[n + 1])
      BY <1>2, <2>2, <2>6
    <3>2. /\ q \in Seq(R) /\ Len(q) = L + 1 /\ q[L + 1] = s[n + 1]
          /\ \A k \in 1 .. L : q[k] = f[n][k]
      BY <1>0, <2>2, <3>1, AppendProperties
    <3>3. /\ \A k \in 1 .. L : d[k] = e[k] /\ d[k] \in 1 .. n
          /\ d[L + 1] = n + 1
          /\ d \in [1 .. (L + 1) -> 1 .. (n + 1)]
      <4> HIDE DEF q, L
      <4>0. e \in [1 .. L -> 1 .. n] /\ L \in Nat
        BY <2>3, <2>4 DEF Picks, L
      <4>1. \A k \in 1 .. L : e[k] \in 1 .. n /\ k # L + 1 /\ k \in 1 .. (L + 1)
        BY <4>0
      <4>2. L + 1 \in 1 .. (L + 1) /\ n + 1 \in 1 .. (n + 1)
        BY <2>4 DEF L
      <4>3. \A k \in 1 .. (L + 1) : k # L + 1 => k \in 1 .. L
        BY <2>4 DEF L
      <4> QED BY <4>1, <4>2, <4>3
    <3> HIDE DEF d, q
    <3>4. \A k \in 1 .. (L + 1) : k \in 1 .. L \/ k = L + 1
      BY <2>4
    <3>5. \A k, l \in 1 .. (L + 1) : k < l => d[k] < d[l]
      BY <2>3, <2>4, <3>3, <3>4 DEF Picks
    <3>6. \A k \in 1 .. (L + 1) : q[k] = s[d[k]] /\ q[k] \in S
      BY <2>3, <2>6, <3>2, <3>3, <3>4 DEF Picks
    <3>7. \A m \in 1 .. (n + 1) : s[m] \in S => \E k \in 1 .. (L + 1) : d[k] = m
      BY <2>3, <2>4, <3>3 DEF Picks
    <3>8. Picks(s, S, n + 1, q, d)
      BY <3>2, <3>3, <3>5, <3>6, <3>7 DEF Picks
    <3> QED BY <3>2, <3>8 DEF q
  <2> QED BY <2>5, <2>6
<1>5. Len(s) \in Good
  <2> HIDE DEF Good
  <2> QED BY <1>0, <1>3, <1>4, Induction
<1> QED BY <1>0, <1>1, <1>5

-----------------------------------------------------------------------------
(***************************************************************************)
(* Lists without repetitions.                                              *)
(***************************************************************************)
\* s lists the elements of S, each once.
Lists(s, S) == s \in Seq(S) /\ IsInjective(s) /\ ToSet(s) = S

\* A sequence of elements of R lists what it has, if nothing is repeated.
LEMMA ListsItself ==
  ASSUME NEW R, NEW s \in Seq(R)
  PROVE  /\ ToSet(s) \subseteq R
         /\ IsInjective(s) => Lists(s, ToSet(s))
<1>1. Len(s) \in Nat /\ DOMAIN s = 1 .. Len(s) /\ \A k \in 1 .. Len(s) : s[k] \in R
  BY LenProperties, ElementOfSeq
<1>2. ToSet(s) \subseteq R
  BY <1>1 DEF ToSet
<1>3. s \in Seq(ToSet(s))
  BY SeqOfRange DEF ToSet, Range
<1> QED BY <1>2, <1>3 DEF Lists

\* A list, place by place.
LEMMA ListsPlaces ==
  ASSUME NEW S, NEW s, Lists(s, S)
  PROVE  /\ Len(s) \in Nat /\ DOMAIN s = 1 .. Len(s)
         /\ \A k \in 1 .. Len(s) : s[k] \in S
         /\ \A x \in S : \E k \in 1 .. Len(s) : s[k] = x
         /\ \A k, l \in 1 .. Len(s) : s[k] = s[l] => k = l
         /\ s = << >> <=> S = {}
<1>1. s \in Seq(S) /\ IsInjective(s) /\ ToSet(s) = S
  BY DEF Lists
<1>2. Len(s) \in Nat /\ DOMAIN s = 1 .. Len(s) /\ \A k \in 1 .. Len(s) : s[k] \in S
  BY <1>1, LenProperties, ElementOfSeq
<1>3. \A x \in S : \E k \in 1 .. Len(s) : s[k] = x
  BY <1>1, <1>2 DEF ToSet
<1>4. \A k, l \in 1 .. Len(s) : s[k] = s[l] => k = l
  BY <1>1, <1>2 DEF IsInjective
<1>5. s = << >> => S = {}
  BY <1>3, EmptySeq
<1>6. S = {} => s = << >>
  <2>1. s # << >> => Len(s) \in Nat \ {0}
    BY <1>1, EmptySeq
  <2> QED BY <1>2, <2>1
<1> QED BY <1>2, <1>3, <1>4, <1>5, <1>6

\* What is listed place by place is listed.
LEMMA PlacesList ==
  ASSUME NEW S, NEW R, NEW s \in Seq(R),
         \A k \in 1 .. Len(s) : s[k] \in S,
         \A x \in S : \E k \in 1 .. Len(s) : s[k] = x,
         \A k, l \in 1 .. Len(s) : s[k] = s[l] => k = l
  PROVE  Lists(s, S)
<1>1. DOMAIN s = 1 .. Len(s)
  BY LenProperties
<1>2. ToSet(s) = S /\ IsInjective(s)
  BY <1>1 DEF ToSet, IsInjective
<1> QED BY <1>2, ListsItself

\* The empty sequence lists nothing.
LEMMA ListsNone == Lists(<< >>, {})
<1>1. << >> \in Seq({}) /\ Len(<< >>) = 0
  BY EmptySeq
<1>2. DOMAIN << >> = {}
  OBVIOUS
<1> QED BY <1>1, <1>2 DEF Lists, IsInjective, ToSet

\* Appending lists one more.
LEMMA ListsAppend ==
  ASSUME NEW S, NEW s, Lists(s, S), NEW x, x \notin S
  PROVE  Lists(Append(s, x), S \cup {x})
<1> DEFINE T == S \cup {x}
           t == Append(s, x)
<1>0. /\ Len(s) \in Nat /\ DOMAIN s = 1 .. Len(s)
      /\ \A k \in 1 .. Len(s) : s[k] \in S
      /\ \A y \in S : \E k \in 1 .. Len(s) : s[k] = y
      /\ \A k, l \in 1 .. Len(s) : s[k] = s[l] => k = l
  BY ListsPlaces
<1>1. s \in Seq(T)
  BY SeqMonotonic DEF Lists
<1>2. /\ t \in Seq(T) /\ Len(t) = Len(s) + 1 /\ t[Len(s) + 1] = x
      /\ \A k \in 1 .. Len(s) : t[k] = s[k]
  BY <1>1, AppendProperties
<1> HIDE DEF t
<1>3. \A k \in 1 .. Len(t) : k \in 1 .. Len(s) \/ k = Len(s) + 1
  BY <1>0, <1>2
<1>4. \A k \in 1 .. Len(t) : t[k] \in T
  BY <1>0, <1>2, <1>3
<1>5. \A y \in T : \E k \in 1 .. Len(t) : t[k] = y
  <2>1. Len(s) + 1 \in 1 .. Len(t) /\ \A k \in 1 .. Len(s) : k \in 1 .. Len(t)
    BY <1>0, <1>2
  <2> QED BY <1>0, <1>2, <2>1
<1>6. \A k, l \in 1 .. Len(t) : t[k] = t[l] => k = l
  BY <1>0, <1>2, <1>3
<1>7. Lists(t, T)
  BY <1>2, <1>4, <1>5, <1>6, PlacesList
<1> QED BY <1>7 DEF t

\* Without its head a list has one less.
LEMMA ListsTail ==
  ASSUME NEW S, NEW s, Lists(s, S), s # << >>
  PROVE  /\ Head(s) \in S /\ Head(s) = s[1] /\ Len(s) >= 1
         /\ Lists(Tail(s), S \ {Head(s)})
         /\ Tail(s) = << >> <=> Len(s) = 1
<1> DEFINE t == Tail(s)
           T == S \ {Head(s)}
<1>0. /\ Len(s) \in Nat /\ DOMAIN s = 1 .. Len(s)
      /\ \A k \in 1 .. Len(s) : s[k] \in S
      /\ \A y \in S : \E k \in 1 .. Len(s) : s[k] = y
      /\ \A k, l \in 1 .. Len(s) : s[k] = s[l] => k = l
  BY ListsPlaces
<1>1. s \in Seq(S)
  BY DEF Lists
<1>2. Len(s) # 0
  BY <1>1, EmptySeq
<1>3. /\ Head(s) \in S /\ t \in Seq(S) /\ Len(t) = Len(s) - 1
      /\ \A k \in 1 .. Len(t) : t[k] = s[k + 1]
  BY <1>1, HeadTailProperties
<1>4. Head(s) = s[1]
  BY <1>1
<1> HIDE DEF t
<1>5. \A k \in 1 .. Len(t) : k + 1 \in 1 .. Len(s) /\ k + 1 # 1
  BY <1>0, <1>3
<1>6. 1 \in 1 .. Len(s)
  BY <1>0, <1>2
<1>7. \A k \in 1 .. Len(t) : t[k] \in T
  BY <1>0, <1>3, <1>4, <1>5, <1>6
<1>8. \A x \in T : \E k \in 1 .. Len(t) : t[k] = x
  <2>1. TAKE x \in T
  <2>2. PICK k \in 1 .. Len(s) : s[k] = x
    BY <1>0
  <2>3. k # 1
    BY <1>4, <2>2
  <2>4. k - 1 \in 1 .. Len(t) /\ (k - 1) + 1 = k
    BY <1>0, <1>3, <2>3
  <2>5. t[k - 1] = x
    BY <1>3, <2>2, <2>4
  <2> QED BY <2>4, <2>5
<1>9. \A k, l \in 1 .. Len(t) : t[k] = t[l] => k = l
  <2>1. ASSUME NEW k \in 1 .. Len(t), NEW l \in 1 .. Len(t), t[k] = t[l] PROVE k = l
    <3>1. k + 1 = l + 1
      BY <1>0, <1>3, <1>5, <2>1
    <3> QED BY <3>1
  <2> QED BY <2>1
<1>10. Lists(t, T)
  BY <1>3, <1>7, <1>8, <1>9, PlacesList
<1>11. t = << >> <=> Len(s) = 1
  BY <1>0, <1>3, EmptySeq
<1> QED BY <1>0, <1>2, <1>3, <1>4, <1>10, <1>11 DEF t

\* Keep lists those it keeps, and keeps the head if it is one of them.
LEMMA ListsKeep ==
  ASSUME NEW S, NEW s, Lists(s, S), NEW T
  PROVE  Lists(Keep(s, T), S \cap T)
<1> DEFINE q == Keep(s, T)
<1>0. /\ Len(s) \in Nat /\ DOMAIN s = 1 .. Len(s)
      /\ \A k \in 1 .. Len(s) : s[k] \in S
      /\ \A y \in S : \E k \in 1 .. Len(s) : s[k] = y
      /\ \A k, l \in 1 .. Len(s) : s[k] = s[l] => k = l
  BY ListsPlaces
<1>1. s \in Seq(S)
  BY DEF Lists
<1>2. q \in Seq(S) /\ \E e : Picks(s, T, Len(s), q, e)
  BY <1>1, KeepPicks
<1>3. PICK e : Picks(s, T, Len(s), q, e)
  BY <1>2
<1>4. Len(q) \in Nat
  BY <1>2, LenProperties
<1> HIDE DEF q
<1>5. /\ \A k \in 1 .. Len(q) : e[k] \in 1 .. Len(s) /\ q[k] = s[e[k]] /\ q[k] \in T
      /\ \A k, l \in 1 .. Len(q) : k < l => e[k] < e[l]
      /\ \A m \in 1 .. Len(s) : s[m] \in T => \E k \in 1 .. Len(q) : e[k] = m
  BY <1>3 DEF Picks
<1>6. \A k \in 1 .. Len(q) : q[k] \in S \cap T
  BY <1>0, <1>5
<1>7. \A x \in S \cap T : \E k \in 1 .. Len(q) : q[k] = x
  <2>1. TAKE x \in S \cap T
  <2>2. PICK m \in 1 .. Len(s) : s[m] = x
    BY <1>0
  <2>3. PICK k \in 1 .. Len(q) : e[k] = m
    BY <1>5, <2>2
  <2> QED BY <1>5, <2>2, <2>3
<1>8. \A k, l \in 1 .. Len(q) : q[k] = q[l] => k = l
  <2>1. ASSUME NEW k \in 1 .. Len(q), NEW l \in 1 .. Len(q), q[k] = q[l] PROVE k = l
    <3>1. e[k] = e[l] /\ e[k] \in Int /\ e[l] \in Int
      BY <1>0, <1>5, <2>1
    <3>2. ~(e[k] < e[l]) /\ ~(e[l] < e[k])
      BY <3>1
    <3>3. ~(k < l) /\ ~(l < k)
      BY <1>5, <3>2
    <3> QED BY <3>3
  <2> QED BY <2>1
<1>9. Lists(q, S \cap T)
  BY <1>2, <1>6, <1>7, <1>8, PlacesList
<1> QED BY <1>9 DEF q

\* Keep keeps the head, if it is to be kept.
LEMMA KeepHead ==
  ASSUME NEW R, NEW s \in Seq(R), s # << >>, NEW T, Head(s) \in T
  PROVE  Keep(s, T) # << >> /\ Head(Keep(s, T)) = Head(s)
<1> DEFINE q == Keep(s, T)
<1>1. q \in Seq(R) /\ \E e : Picks(s, T, Len(s), q, e)
  BY KeepPicks
<1>2. PICK e : Picks(s, T, Len(s), q, e)
  BY <1>1
<1>3. Len(s) \in Nat /\ Len(q) \in Nat /\ Len(s) # 0
  BY <1>1, LenProperties, EmptySeq
<1> HIDE DEF q
<1>4. 1 \in 1 .. Len(s) /\ Head(s) = s[1]
  BY <1>3
<1>5. /\ \A k \in 1 .. Len(q) : e[k] \in 1 .. Len(s) /\ q[k] = s[e[k]] /\ q[k] \in T
      /\ \A k, l \in 1 .. Len(q) : k < l => e[k] < e[l]
      /\ \A m \in 1 .. Len(s) : s[m] \in T => \E k \in 1 .. Len(q) : e[k] = m
  BY <1>2 DEF Picks
<1>6. PICK k \in 1 .. Len(q) : e[k] = 1
  BY <1>4, <1>5
<1>7. 1 \in 1 .. Len(q) /\ Len(q) # 0
  BY <1>3, <1>6
<1>8. k = 1
  <2>1. k # 1 => e[1] < e[k] /\ e[1] \in 1 .. Len(s)
    BY <1>5, <1>7
  <2> QED BY <1>3, <1>6, <2>1
<1>9. q # << >> /\ Head(q) = q[1]
  BY <1>1, <1>7, EmptySeq
<1> QED BY <1>4, <1>5, <1>6, <1>8, <1>9 DEF q

\* Two lists with nothing in common make one list.
LEMMA ListsConcat ==
  ASSUME NEW S, NEW s, Lists(s, S), NEW T, NEW t, Lists(t, T), S \cap T = {}
  PROVE  Lists(s \o t, S \cup T)
<1> DEFINE U == S \cup T
           u == s \o t
<1>0. /\ Len(s) \in Nat /\ DOMAIN s = 1 .. Len(s)
      /\ \A k \in 1 .. Len(s) : s[k] \in S
      /\ \A y \in S : \E k \in 1 .. Len(s) : s[k] = y
      /\ \A k, l \in 1 .. Len(s) : s[k] = s[l] => k = l
  BY ListsPlaces
<1>1. /\ Len(t) \in Nat /\ DOMAIN t = 1 .. Len(t)
      /\ \A k \in 1 .. Len(t) : t[k] \in T
      /\ \A y \in T : \E k \in 1 .. Len(t) : t[k] = y
      /\ \A k, l \in 1 .. Len(t) : t[k] = t[l] => k = l
  BY ListsPlaces
<1>2. s \in Seq(U) /\ t \in Seq(U)
  BY SeqMonotonic DEF Lists
<1>3. /\ u \in Seq(U) /\ Len(u) = Len(s) + Len(t)
      /\ \A k \in 1 .. Len(s) + Len(t) : u[k] = IF k <= Len(s) THEN s[k] ELSE t[k - Len(s)]
  BY <1>2, ConcatProperties
<1> HIDE DEF u
<1>4. \A k \in 1 .. Len(u) :
        IF k <= Len(s) THEN k \in 1 .. Len(s) /\ u[k] = s[k]
        ELSE k - Len(s) \in 1 .. Len(t) /\ u[k] = t[k - Len(s)]
  BY <1>0, <1>1, <1>3
<1>5. \A k \in 1 .. Len(u) : u[k] \in U
  BY <1>0, <1>1, <1>4
<1>6. \A x \in U : \E k \in 1 .. Len(u) : u[k] = x
  <2>1. TAKE x \in U
  <2>2. CASE x \in S
    <3>1. PICK k \in 1 .. Len(s) : s[k] = x
      BY <1>0, <2>2
    <3>2. k \in 1 .. Len(u) /\ k <= Len(s)
      BY <1>0, <1>1, <1>3
    <3> QED BY <1>4, <3>1, <3>2
  <2>3. CASE x \in T
    <3>1. PICK k \in 1 .. Len(t) : t[k] = x
      BY <1>1, <2>3
    <3>2. k + Len(s) \in 1 .. Len(u) /\ ~(k + Len(s) <= Len(s)) /\ (k + Len(s)) - Len(s) = k
      BY <1>0, <1>1, <1>3
    <3>3. u[k + Len(s)] = x
      BY <1>4, <3>1, <3>2
    <3> QED BY <3>2, <3>3
  <2> QED BY <2>2, <2>3
<1>7. \A k, l \in 1 .. Len(u) : u[k] = u[l] => k = l
  <2>1. SUFFICES ASSUME NEW k \in 1 .. Len(u), NEW l \in 1 .. Len(u), u[k] = u[l]
                 PROVE  k = l
    OBVIOUS
  <2>2. CASE k <= Len(s) /\ l <= Len(s)
    BY <1>0, <1>4, <2>1, <2>2
  <2>3. CASE ~(k <= Len(s)) /\ ~(l <= Len(s))
    <3>1. k - Len(s) = l - Len(s)
      BY <1>1, <1>4, <2>1, <2>3
    <3> QED BY <1>0, <1>3, <3>1
  <2>4. CASE k <= Len(s) /\ ~(l <= Len(s))
    BY <1>0, <1>1, <1>4, <2>1, <2>4
  <2>5. CASE ~(k <= Len(s)) /\ l <= Len(s)
    BY <1>0, <1>1, <1>4, <2>1, <2>5
  <2> QED BY <2>2, <2>3, <2>4, <2>5
<1>8. Lists(u, U)
  BY <1>3, <1>5, <1>6, <1>7, PlacesList
<1> QED BY <1>8 DEF u

\* A list can be split anywhere.
LEMMA ListsSplit ==
  ASSUME NEW S, NEW s, Lists(s, S), NEW n \in 0 .. Len(s)
  PROVE  LET a == SubSeq(s, 1, n)
             b == SubSeq(s, n + 1, Len(s))
         IN  /\ Lists(a, ToSet(a)) /\ Lists(b, ToSet(b))
             /\ ToSet(a) \cup ToSet(b) = S /\ ToSet(a) \cap ToSet(b) = {}
             /\ a = << >> => n = 0
             /\ n = Len(s) => b = << >>
<1> DEFINE a == SubSeq(s, 1, n)
           b == SubSeq(s, n + 1, Len(s))
<1>0. /\ Len(s) \in Nat /\ DOMAIN s = 1 .. Len(s)
      /\ \A k \in 1 .. Len(s) : s[k] \in S
      /\ \A y \in S : \E k \in 1 .. Len(s) : s[k] = y
      /\ \A k, l \in 1 .. Len(s) : s[k] = s[l] => k = l
  BY ListsPlaces
<1>1. n \in Nat /\ n <= Len(s)
  BY <1>0
<1>2. a \in Seq(S) /\ Len(a) = n /\ \A k \in 1 .. n : a[k] = s[k]
  <2>1. \A k \in 1 .. n : s[k] \in S
    BY <1>0, <1>1
  <2>2. /\ a \in Seq(S)
        /\ Len(a) = IF 1 <= n THEN n - 1 + 1 ELSE 0
        /\ \A k \in 1 .. n - 1 + 1 : a[k] = s[1 + k - 1]
    BY <1>1, <2>1, SubSeqProperties
  <2> HIDE DEF a
  <2> QED BY <1>1, <2>2
<1>3. b \in Seq(S) /\ Len(b) = Len(s) - n /\ \A k \in 1 .. (Len(s) - n) : b[k] = s[n + k]
  <2>1. \A k \in (n + 1) .. Len(s) : s[k] \in S
    BY <1>0, <1>1
  <2>2. /\ b \in Seq(S)
        /\ Len(b) = IF n + 1 <= Len(s) THEN Len(s) - (n + 1) + 1 ELSE 0
        /\ \A k \in 1 .. Len(s) - (n + 1) + 1 : b[k] = s[(n + 1) + k - 1]
    BY <1>0, <1>1, <2>1, SubSeqProperties
  <2> HIDE DEF b
  <2>3. Len(b) = Len(s) - n
    <3>1. CASE n + 1 <= Len(s)
      BY <1>0, <1>1, <2>2, <3>1
    <3>2. CASE ~(n + 1 <= Len(s))
      <4>1. Len(b) = 0
        BY <2>2, <3>2
      <4>2. Len(s) \in Nat /\ n \in Nat /\ n <= Len(s)
        BY <1>0, <1>1
      <4>3. n = Len(s)
        BY <3>2, <4>2
      <4> QED BY <4>1, <4>2, <4>3
    <3> QED BY <3>1, <3>2
  <2>4. ASSUME NEW k \in 1 .. (Len(s) - n) PROVE b[k] = s[n + k]
    <3>1. k \in 1 .. Len(s) - (n + 1) + 1 /\ (n + 1) + k - 1 = n + k
      BY <1>0, <1>1
    <3> QED BY <2>2, <3>1
  <2> QED BY <2>2, <2>3, <2>4
<1> HIDE DEF a, b
<1>4. DOMAIN a = 1 .. n /\ DOMAIN b = 1 .. (Len(s) - n)
  BY <1>2, <1>3, LenProperties
<1>5. \A k \in 1 .. (Len(s) - n) : n + k \in 1 .. Len(s) /\ n + k > n
  BY <1>0, <1>1
<1>6. \A k \in 1 .. n : k \in 1 .. Len(s)
  BY <1>0, <1>1
<1>7. IsInjective(a)
  BY <1>0, <1>2, <1>4, <1>6 DEF IsInjective
<1>8. IsInjective(b)
  <2>1. ASSUME NEW k \in 1 .. (Len(s) - n), NEW l \in 1 .. (Len(s) - n), b[k] = b[l] PROVE k = l
    <3>1. n + k = n + l
      BY <1>0, <1>3, <1>5, <2>1
    <3> QED BY <1>1, <3>1
  <2> QED BY <1>4, <2>1 DEF IsInjective
<1>9. ToSet(a) \cap ToSet(b) = {}
  <2>1. ASSUME NEW k \in 1 .. n, NEW l \in 1 .. (Len(s) - n), a[k] = b[l] PROVE FALSE
    <3>1. s[k] = s[n + l] /\ k \in 1 .. Len(s) /\ n + l \in 1 .. Len(s)
      BY <1>2, <1>3, <1>5, <1>6, <2>1
    <3>2. k = n + l
      BY <1>0, <3>1
    <3> QED BY <1>1, <3>2
  <2> QED BY <1>4, <2>1 DEF ToSet
<1>10. ToSet(a) \cup ToSet(b) = S
  <2>1. ToSet(a) \subseteq S /\ ToSet(b) \subseteq S
    BY <1>2, <1>3, ListsItself
  <2>2. ASSUME NEW x \in S PROVE x \in ToSet(a) \cup ToSet(b)
    <3>1. PICK k \in 1 .. Len(s) : s[k] = x
      BY <1>0
    <3>2. CASE k <= n
      <4>1. k \in 1 .. n /\ a[k] = x
        BY <1>1, <1>2, <3>1, <3>2
      <4> QED BY <1>4, <4>1 DEF ToSet
    <3>3. CASE ~(k <= n)
      <4>1. k - n \in 1 .. (Len(s) - n) /\ n + (k - n) = k
        BY <1>0, <1>1, <3>3
      <4>2. b[k - n] = x
        BY <1>3, <3>1, <4>1
      <4> QED BY <1>4, <4>1, <4>2 DEF ToSet
    <3> QED BY <3>2, <3>3
  <2> QED BY <2>1, <2>2
<1>11. Lists(a, ToSet(a)) /\ Lists(b, ToSet(b))
  BY <1>2, <1>3, <1>7, <1>8, ListsItself
<1>12. (a = << >> => n = 0) /\ (n = Len(s) => b = << >>)
  <2>1. a = << >> => n = 0
    BY <1>2, EmptySeq
  <2>2. n = Len(s) => b = << >>
    BY <1>0, <1>3, EmptySeq
  <2> QED BY <2>1, <2>2
<1> QED BY <1>9, <1>10, <1>11, <1>12 DEF a, b

-----------------------------------------------------------------------------
(***************************************************************************)
(* The obligations and their remotes.                                      *)
(***************************************************************************)
\* The obligations are numbered, and no two are the same.
LEMMA Numbered ==
  /\ Len(Objects) \in Nat \ {0} /\ Indices = 1 .. Len(Objects) /\ 1 \in Indices
  /\ NoError \in Nat /\ \A i \in Indices : i \in Nat /\ i < NoError /\ i >= 1
  /\ \A i \in Indices : RemoteOf(i) \in Remotes /\ OidOf(i) \in Oids
  /\ \A i, j \in Indices : RemoteOf(i) = RemoteOf(j) /\ OidOf(i) = OidOf(j) => i = j
<1>1. Objects \in Seq([remote : Remotes, oid : Oids]) /\ Objects # << >>
  BY ObjectsAssumption
<1>2. Len(Objects) \in Nat \ {0} /\ DOMAIN Objects = 1 .. Len(Objects)
  BY <1>1, LenProperties, EmptySeq
<1>3. \A i \in Indices : Objects[i] \in [remote : Remotes, oid : Oids]
  BY <1>1, <1>2, ElementOfSeq DEF Indices
<1>4. ASSUME NEW i \in Indices, NEW j \in Indices,
             RemoteOf(i) = RemoteOf(j), OidOf(i) = OidOf(j)
      PROVE  i = j
  <2>1. Objects[i] \in [remote : Remotes, oid : Oids] /\ Objects[j] \in [remote : Remotes, oid : Oids]
    BY <1>3
  <2>2. Objects[i].remote = Objects[j].remote /\ Objects[i].oid = Objects[j].oid
    BY <1>4 DEF RemoteOf, OidOf
  <2>3. Objects[i] = Objects[j]
    BY <2>1, <2>2
  <2> QED BY <2>3, ObjectsAssumption
<1>5. \A i \in Indices : RemoteOf(i) \in Remotes /\ OidOf(i) \in Oids
  BY <1>3 DEF RemoteOf, OidOf
<1> QED BY <1>2, <1>4, <1>5 DEF Indices, NoError

\* s counts the obligations.
Counts(s) == s = [i \in Indices |-> i]

\* Of the numbered obligations Keep returns those in S.
LEMMA KeepNumbers ==
  ASSUME NEW s, Counts(s), NEW S \in SUBSET Indices
  PROVE  Lists(Keep(s, S), S)
<1>1. s \in Seq(Indices) /\ Len(s) = Len(Objects) /\ \A i \in 1 .. Len(s) : s[i] = i
  <2>1. Indices = 1 .. Len(Objects) /\ Len(Objects) \in Nat
    BY Numbered
  <2> QED BY <2>1, IsASeq, LenProperties DEF Counts
<1>2. Indices = 1 .. Len(s)
  BY <1>1, Numbered
<1>3. Lists(s, Indices)
  BY <1>1, <1>2, PlacesList
<1>4. Lists(Keep(s, S), Indices \cap S)
  BY <1>3, ListsKeep
<1>5. Indices \cap S = S
  OBVIOUS
<1> QED BY <1>4, <1>5

\* Every remote that is owed something is visited.
LEMMA Ordering ==
  /\ RemoteOrder \in Seq(Remotes) /\ Len(RemoteOrder) \in Nat \ {0}
  /\ \A k \in 1 .. Len(RemoteOrder) : RemoteOrder[k] \in Remotes
  /\ \A i \in Indices : \E k \in 1 .. Len(RemoteOrder) : RemoteOrder[k] = RemoteOf(i)
<1> DEFINE first == {i \in Indices : \A j \in 1 .. i - 1 : RemoteOf(j) # RemoteOf(i)}
           s == [i \in Indices |-> i]
           firsts == Keep(s, first)
<1>1. Lists(firsts, first)
  <2>1. Counts(s) /\ first \in SUBSET Indices
    BY DEF Counts
  <2> HIDE DEF s, first
  <2> QED BY <2>1, KeepNumbers
<1>2. RemoteOrder = [k \in DOMAIN firsts |-> RemoteOf(firsts[k])]
  BY DEF RemoteOrder
<1> HIDE DEF firsts
<1>3. /\ Len(firsts) \in Nat /\ DOMAIN firsts = 1 .. Len(firsts)
      /\ \A k \in 1 .. Len(firsts) : firsts[k] \in first
      /\ \A i \in first : \E k \in 1 .. Len(firsts) : firsts[k] = i
  BY <1>1, ListsPlaces
<1>4. RemoteOrder = [k \in 1 .. Len(firsts) |-> RemoteOf(firsts[k])]
  BY <1>2, <1>3
<1>5. \A k \in 1 .. Len(firsts) : RemoteOf(firsts[k]) \in Remotes
  BY <1>3, Numbered
<1>6. RemoteOrder \in Seq(Remotes) /\ Len(RemoteOrder) = Len(firsts)
  BY <1>3, <1>4, <1>5, IsASeq, LenProperties
<1>7. \A i \in Indices : \E k \in 1 .. Len(firsts) : RemoteOrder[k] = RemoteOf(i)
  <2>1. TAKE i \in Indices
  <2> DEFINE T == {j \in Indices : RemoteOf(j) = RemoteOf(i)}
  <2>2. T \in SUBSET Nat /\ T # {}
    BY Numbered
  <2>3. PICK j \in T : \A l \in T : j <= l
    BY <2>2, Least
  <2>4. j \in first
    <3>1. j \in Indices /\ j \in Nat /\ Indices = 1 .. Len(Objects) /\ Len(Objects) \in Nat
      BY <2>3, Numbered
    <3>2. ASSUME NEW l \in 1 .. j - 1, RemoteOf(l) = RemoteOf(j) PROVE FALSE
      <4>1. l \in T
        BY <2>3, <3>1, <3>2
      <4>2. ~(j <= l)
        BY <3>1
      <4> QED BY <2>3, <4>1, <4>2
    <3> QED BY <3>1, <3>2
  <2>5. PICK k \in 1 .. Len(firsts) : firsts[k] = j
    BY <1>3, <2>4
  <2> QED BY <1>4, <2>3, <2>5
<1>8. Len(firsts) # 0
  <2>1. \E k \in 1 .. Len(firsts) : RemoteOrder[k] = RemoteOf(1)
    BY <1>7, Numbered
  <2> QED BY <1>3, <2>1
<1>9. \A k \in 1 .. Len(firsts) : RemoteOrder[k] \in Remotes
  BY <1>4, <1>5
<1> QED BY <1>3, <1>6, <1>7, <1>8, <1>9

\* The round robin wraps once.
LEMMA Wraps ==
  ASSUME NEW L \in Nat \ {0}, NEW x \in Nat, x < 2 * L
  PROVE  /\ x % L = IF x < L THEN x ELSE x - L
         /\ x % L \in 0 .. L - 1
<1>1. CASE x < L
  BY <1>1
<1>2. CASE ~(x < L)
  BY <1>2
<1> QED BY <1>1, <1>2

-----------------------------------------------------------------------------
(***************************************************************************)
(* What Sum returns.                                                       *)
(***************************************************************************)
\* The recursion of MapThenFoldSet, for a sum: g has the sums of f.
Iter(f, S, g) ==
  g = [T \in SUBSET S |->
         IF T = {} THEN 0
         ELSE f[CHOOSE x \in T : TRUE] + g[T \ {CHOOSE x \in T : TRUE}]]

\* One step of the recursion.
Step(f, T, g) ==
  g[T] = IF T = {} THEN 0
         ELSE f[CHOOSE x \in T : TRUE] + g[T \ {CHOOSE x \in T : TRUE}]

\* Sum is the last value of the recursion.
LEMMA SumIs ==
  ASSUME NEW f, NEW S
  PROVE  Sum(f, S) = (CHOOSE g : Iter(f, S, g))[S]
BY DEF Sum, MapThenSumSet, MapThenFoldSet, Iter

\* A finite set without one of its elements is smaller by one.
LEMMA Smaller ==
  ASSUME NEW T, IsFiniteSet(T), T # {}
  PROVE  LET x == CHOOSE x \in T : TRUE
         IN  /\ x \in T /\ IsFiniteSet(T \ {x})
             /\ Cardinality(T) \in Nat /\ Cardinality(T) # 0
             /\ Cardinality(T \ {x}) = Cardinality(T) - 1
<1> DEFINE x == CHOOSE x \in T : TRUE
<1>1. x \in T
  OBVIOUS
<1> HIDE DEF x
<1>2. IsFiniteSet(T \ {x}) /\ Cardinality(T \ {x}) = Cardinality(T) - 1
  BY <1>1, FS_RemoveElement
<1>3. Cardinality(T) \in Nat /\ Cardinality(T) # 0
  BY FS_CardinalityType, FS_EmptySet
<1> QED BY <1>1, <1>2, <1>3 DEF x

\* The recursion has a solution on finite sets.
LEMMA IterExists ==
  ASSUME NEW f, NEW S, IsFiniteSet(S)
  PROVE  \E g : Iter(f, S, g)
<1> DEFINE Upto(n, g) == \A T \in SUBSET S : Cardinality(T) <= n => Step(f, T, g)
           Some == {n \in Nat : \E g : Upto(n, g)}
<1>1. \A T \in SUBSET S : IsFiniteSet(T) /\ Cardinality(T) \in Nat /\ Cardinality(T) <= Cardinality(S)
  BY FS_Subset, FS_CardinalityType
<1>2. 0 \in Some
  <2> DEFINE g == [T \in SUBSET S |-> 0]
  <2>1. ASSUME NEW T \in SUBSET S, Cardinality(T) <= 0 PROVE Step(f, T, g)
    <3>1. T = {}
      BY <1>1, <2>1, FS_EmptySet
    <3> QED BY <3>1 DEF Step
  <2>2. Upto(0, g)
    BY <2>1
  <2> QED BY <2>2
<1>3. ASSUME NEW n \in Nat, n \in Some PROVE n + 1 \in Some
  <2>1. PICK g : Upto(n, g)
    BY <1>3
  <2> DEFINE h == [T \in SUBSET S |->
                     IF Cardinality(T) = n + 1
                     THEN f[CHOOSE x \in T : TRUE] + g[T \ {CHOOSE x \in T : TRUE}]
                     ELSE g[T]]
  <2>2. ASSUME NEW T \in SUBSET S, Cardinality(T) <= n + 1 PROVE Step(f, T, h)
    <3>1. CASE T = {}
      <4>1. Cardinality(T) = 0
        BY <3>1, FS_EmptySet
      <4>2. h[T] = g[T] /\ Step(f, T, g)
        BY <2>1, <4>1
      <4> QED BY <3>1, <4>2 DEF Step
    <3>2. CASE T # {}
      <4> DEFINE x == CHOOSE x \in T : TRUE
                 U == T \ {x}
      <4>1. /\ x \in T /\ U \in SUBSET S /\ Cardinality(T) \in Nat
            /\ Cardinality(U) = Cardinality(T) - 1
        BY <1>1, <3>2, Smaller
      <4>2. h[U] = g[U]
        BY <2>2, <4>1
      <4>3. CASE Cardinality(T) = n + 1
        <5>1. h[T] = f[x] + g[U]
          BY <4>3
        <5> QED BY <3>2, <4>2, <5>1 DEF Step
      <4>4. CASE Cardinality(T) # n + 1
        <5>1. h[T] = g[T] /\ Cardinality(T) <= n
          BY <2>2, <4>1, <4>4
        <5>2. g[T] = f[x] + g[U]
          BY <2>1, <3>2, <5>1 DEF Step
        <5> QED BY <3>2, <4>2, <5>1, <5>2 DEF Step
      <4> QED BY <4>3, <4>4
    <3> QED BY <3>1, <3>2
  <2> HIDE DEF h
  <2>3. Upto(n + 1, h)
    BY <2>2
  <2> QED BY <2>3
<1>4. Cardinality(S) \in Some
  <2>1. Cardinality(S) \in Nat
    BY FS_CardinalityType
  <2> HIDE DEF Some
  <2> QED BY <1>2, <1>3, <2>1, Induction
<1>5. PICK g : Upto(Cardinality(S), g)
  BY <1>4
<1> DEFINE h == [T \in SUBSET S |-> g[T]]
<1>6. \A T \in SUBSET S :
        h[T] = IF T = {} THEN 0
               ELSE f[CHOOSE x \in T : TRUE] + h[T \ {CHOOSE x \in T : TRUE}]
  BY <1>1, <1>5 DEF Step
<1> HIDE DEF h
<1>7. h = [T \in SUBSET S |->
             IF T = {} THEN 0
             ELSE f[CHOOSE x \in T : TRUE] + h[T \ {CHOOSE x \in T : TRUE}]]
  BY <1>6 DEF h
<1> QED BY <1>7 DEF Iter

\* Its value at a set depends on no larger set.
LEMMA IterUnique ==
  ASSUME NEW f, NEW S, NEW T, NEW g, NEW h, Iter(f, S, g), Iter(f, T, h),
         IsFiniteSet(T), T \subseteq S
  PROVE  g[T] = h[T]
<1> DEFINE Good == {n \in Nat : \A U \in SUBSET T : Cardinality(U) = n => g[U] = h[U]}
<1>1. \A U \in SUBSET T : IsFiniteSet(U) /\ Cardinality(U) \in Nat
  BY FS_Subset, FS_CardinalityType
<1>2. \A U \in SUBSET T : U \in SUBSET S /\ Step(f, U, g) /\ Step(f, U, h)
  BY DEF Iter, Step
<1>3. 0 \in Good
  <2>1. ASSUME NEW U \in SUBSET T, Cardinality(U) = 0 PROVE g[U] = h[U]
    <3>1. U = {}
      BY <1>1, <2>1, FS_EmptySet
    <3> QED BY <1>2, <3>1 DEF Step
  <2> QED BY <2>1
<1>4. ASSUME NEW n \in Nat, n \in Good PROVE n + 1 \in Good
  <2>1. ASSUME NEW U \in SUBSET T, Cardinality(U) = n + 1 PROVE g[U] = h[U]
    <3>1. U # {}
      BY <1>1, <2>1, FS_EmptySet
    <3> DEFINE x == CHOOSE x \in U : TRUE
               V == U \ {x}
    <3>2. V \in SUBSET T /\ Cardinality(V) = n
      BY <1>1, <2>1, <3>1, Smaller
    <3>3. g[V] = h[V]
      BY <1>4, <3>2
    <3>4. g[U] = f[x] + g[V] /\ h[U] = f[x] + h[V]
      BY <1>2, <3>1 DEF Step
    <3> QED BY <3>3, <3>4
  <2> QED BY <2>1
<1>5. Cardinality(T) \in Good
  <2>1. Cardinality(T) \in Nat
    BY FS_CardinalityType
  <2> HIDE DEF Good
  <2> QED BY <1>3, <1>4, <2>1, Induction
<1> QED BY <1>5

\* A sum takes one element after the other.
LEMMA SumStep ==
  ASSUME NEW f, NEW S, IsFiniteSet(S)
  PROVE  Sum(f, S) = IF S = {} THEN 0
                     ELSE f[CHOOSE x \in S : TRUE] + Sum(f, S \ {CHOOSE x \in S : TRUE})
<1>1. PICK g : g = CHOOSE k : Iter(f, S, k)
  OBVIOUS
<1>2. Iter(f, S, g) /\ Sum(f, S) = g[S]
  BY <1>1, IterExists, SumIs
<1>3. CASE S = {}
  BY <1>2, <1>3 DEF Iter
<1>4. CASE S # {}
  <2> DEFINE x == CHOOSE x \in S : TRUE
             T == S \ {x}
  <2>1. IsFiniteSet(T) /\ T \subseteq S
    BY <1>4, Smaller
  <2>2. g[S] = f[x] + g[T]
    BY <1>2, <1>4 DEF Iter
  <2> HIDE DEF T
  <2>3. PICK h : h = CHOOSE k : Iter(f, T, k)
    OBVIOUS
  <2>4. Iter(f, T, h) /\ Sum(f, T) = h[T]
    BY <2>1, <2>3, IterExists, SumIs
  <2>5. g[T] = h[T]
    BY <1>2, <2>1, <2>4, IterUnique
  <2>6. Sum(f, S) = f[x] + Sum(f, T)
    BY <1>2, <2>2, <2>4, <2>5
  <2> QED BY <1>4, <2>6 DEF T
<1> QED BY <1>3, <1>4

\* f is a cost for each element of S.
Costs(f, S) == \A x \in S : f[x] \in Nat

\* The sum of costs is a number.
LEMMA SumNat ==
  ASSUME NEW f, NEW S, IsFiniteSet(S), Costs(f, S)
  PROVE  Sum(f, S) \in Nat
<1> DEFINE Good == {n \in Nat : \A U \in SUBSET S : Cardinality(U) = n => Sum(f, U) \in Nat}
<1>1. \A U \in SUBSET S : IsFiniteSet(U) /\ Cardinality(U) \in Nat
  BY FS_Subset, FS_CardinalityType
<1>2. 0 \in Good
  <2>1. ASSUME NEW U \in SUBSET S, Cardinality(U) = 0 PROVE Sum(f, U) \in Nat
    <3>1. U = {} /\ IsFiniteSet(U)
      BY <1>1, <2>1, FS_EmptySet
    <3>2. Sum(f, U) = 0
      BY <3>1, SumStep
    <3> QED BY <3>2
  <2> QED BY <2>1
<1>3. ASSUME NEW n \in Nat, n \in Good PROVE n + 1 \in Good
  <2>1. ASSUME NEW U \in SUBSET S, Cardinality(U) = n + 1 PROVE Sum(f, U) \in Nat
    <3>1. U # {} /\ IsFiniteSet(U)
      BY <1>1, <2>1, FS_EmptySet
    <3> DEFINE x == CHOOSE x \in U : TRUE
               V == U \ {x}
    <3>2. x \in S /\ V \in SUBSET S /\ Cardinality(V) = n
      BY <1>1, <2>1, <3>1, Smaller
    <3>3. Sum(f, V) \in Nat /\ f[x] \in Nat
      BY <1>3, <3>2 DEF Costs
    <3>4. Sum(f, U) = f[x] + Sum(f, V)
      BY <3>1, SumStep
    <3> QED BY <3>3, <3>4
  <2> QED BY <2>1
<1>4. Cardinality(S) \in Good
  <2>1. Cardinality(S) \in Nat
    BY FS_CardinalityType
  <2> HIDE DEF Good
  <2> QED BY <1>2, <1>3, <2>1, Induction
<1> QED BY <1>4

\* It can take any element first.
LEMMA SumAny ==
  ASSUME NEW f, NEW S, IsFiniteSet(S), Costs(f, S), NEW x \in S
  PROVE  Sum(f, S) = f[x] + Sum(f, S \ {x})
<1> DEFINE Good == {n \in Nat : \A U \in SUBSET S : Cardinality(U) = n =>
                      \A y \in U : Sum(f, U) = f[y] + Sum(f, U \ {y})}
<1>1. \A U \in SUBSET S : IsFiniteSet(U) /\ Cardinality(U) \in Nat /\ Sum(f, U) \in Nat
  <2>1. TAKE U \in SUBSET S
  <2>2. IsFiniteSet(U) /\ Costs(f, U)
    BY FS_Subset DEF Costs
  <2> QED BY <2>2, FS_CardinalityType, SumNat
<1>2. 0 \in Good
  <2>1. ASSUME NEW U \in SUBSET S, Cardinality(U) = 0 PROVE U = {}
    BY <1>1, <2>1, FS_EmptySet
  <2> QED BY <2>1
<1>3. ASSUME NEW n \in Nat, n \in Good PROVE n + 1 \in Good
  <2>1. ASSUME NEW U \in SUBSET S, Cardinality(U) = n + 1, NEW y \in U
        PROVE  Sum(f, U) = f[y] + Sum(f, U \ {y})
    <3>1. U # {} /\ IsFiniteSet(U)
      BY <1>1, <2>1
    <3> DEFINE z == CHOOSE z \in U : TRUE
               V == U \ {z}
    <3>2. z \in U /\ V \in SUBSET S /\ Cardinality(V) = n
      BY <1>1, <2>1, <3>1, Smaller
    <3>3. Sum(f, U) = f[z] + Sum(f, V)
      BY <3>1, SumStep
    <3> HIDE DEF z
    <3>4. CASE y = z
      BY <3>3, <3>4
    <3>5. CASE y # z
      <4> DEFINE W == V \ {y}
                 X == U \ {y}
      <4>1. Sum(f, V) = f[y] + Sum(f, W)
        BY <1>3, <3>2, <3>5
      <4>2. X \in SUBSET S /\ Cardinality(X) = n /\ z \in X /\ X \ {z} = W
        <5>1. Cardinality(X) = Cardinality(U) - 1
          BY <3>1, FS_RemoveElement
        <5> QED BY <2>1, <3>2, <3>5, <5>1
      <4>3. Sum(f, X) = f[z] + Sum(f, W)
        BY <1>3, <4>2
      <4>4. f[y] \in Nat /\ f[z] \in Nat /\ Sum(f, W) \in Nat
        BY <1>1, <3>2 DEF Costs
      <4> QED BY <3>3, <4>1, <4>3, <4>4
    <3> QED BY <3>4, <3>5
  <2> QED BY <2>1
<1>4. Cardinality(S) \in Good
  <2>1. Cardinality(S) \in Nat
    BY FS_CardinalityType
  <2> HIDE DEF Good
  <2> QED BY <1>2, <1>3, <2>1, Induction
<1> QED BY <1>4

\* And one element more adds its cost.
LEMMA SumAdd ==
  ASSUME NEW f, NEW S, IsFiniteSet(S), NEW x, x \notin S, Costs(f, S \cup {x})
  PROVE  Sum(f, S \cup {x}) = Sum(f, S) + f[x] /\ Sum(f, S) \in Nat /\ f[x] \in Nat
<1> DEFINE T == S \cup {x}
<1>1. IsFiniteSet(T) /\ x \in T /\ T \ {x} = S /\ Costs(f, S) /\ f[x] \in Nat
  BY FS_AddElement DEF Costs
<1>2. Sum(f, S) \in Nat
  BY <1>1, SumNat
<1>3. Sum(f, T) = f[x] + Sum(f, S)
  BY <1>1, SumAny
<1> QED BY <1>1, <1>2, <1>3

\* f costs nowhere more than h.
Within(f, h, S) == \A x \in S : f[x] \in Nat /\ h[x] \in Nat /\ f[x] <= h[x]

\* Lower costs have a lower sum.
LEMMA SumWithin ==
  ASSUME NEW f, NEW h, NEW S, IsFiniteSet(S), Within(f, h, S)
  PROVE  Sum(f, S) <= Sum(h, S)
<1> DEFINE Good == {n \in Nat : \A U \in SUBSET S : Cardinality(U) = n => Sum(f, U) <= Sum(h, U)}
<1>1. \A U \in SUBSET S : /\ IsFiniteSet(U) /\ Cardinality(U) \in Nat
                          /\ Sum(f, U) \in Nat /\ Sum(h, U) \in Nat
  <2>1. TAKE U \in SUBSET S
  <2>2. IsFiniteSet(U) /\ Costs(f, U) /\ Costs(h, U)
    BY FS_Subset DEF Costs, Within
  <2> QED BY <2>2, FS_CardinalityType, SumNat
<1>2. 0 \in Good
  <2>1. ASSUME NEW U \in SUBSET S, Cardinality(U) = 0 PROVE Sum(f, U) <= Sum(h, U)
    <3>1. U = {} /\ IsFiniteSet(U)
      BY <1>1, <2>1, FS_EmptySet
    <3>2. Sum(f, U) = 0 /\ Sum(h, U) = 0
      BY <3>1, SumStep
    <3> QED BY <3>2
  <2> QED BY <2>1
<1>3. ASSUME NEW n \in Nat, n \in Good PROVE n + 1 \in Good
  <2>1. ASSUME NEW U \in SUBSET S, Cardinality(U) = n + 1 PROVE Sum(f, U) <= Sum(h, U)
    <3>1. U # {} /\ IsFiniteSet(U)
      BY <1>1, <2>1, FS_EmptySet
    <3> DEFINE x == CHOOSE x \in U : TRUE
               V == U \ {x}
    <3>2. x \in S /\ V \in SUBSET S /\ Cardinality(V) = n
      BY <1>1, <2>1, <3>1, Smaller
    <3>3. Sum(f, V) <= Sum(h, V) /\ f[x] <= h[x] /\ f[x] \in Nat /\ h[x] \in Nat
      BY <1>3, <3>2 DEF Within
    <3>4. Sum(f, U) = f[x] + Sum(f, V) /\ Sum(h, U) = h[x] + Sum(h, V)
      BY <3>1, SumStep
    <3>5. Sum(f, V) \in Nat /\ Sum(h, V) \in Nat
      BY <1>1, <3>2
    <3> HIDE DEF V, x
    <3> QED BY <3>3, <3>4, <3>5
  <2> QED BY <2>1
<1>4. Cardinality(S) \in Good
  <2>1. Cardinality(S) \in Nat
    BY FS_CardinalityType
  <2> HIDE DEF Good
  <2> QED BY <1>2, <1>3, <2>1, Induction
<1> QED BY <1>4

\* Equal costs have equal sums.
LEMMA SumSame ==
  ASSUME NEW f, NEW h, NEW S, IsFiniteSet(S), Costs(f, S), \A x \in S : f[x] = h[x]
  PROVE  Sum(f, S) = Sum(h, S) /\ Sum(f, S) \in Nat
<1>1. Within(f, h, S) /\ Within(h, f, S) /\ Costs(h, S)
  BY DEF Within, Costs
<1>2. Sum(f, S) <= Sum(h, S) /\ Sum(h, S) <= Sum(f, S)
  BY <1>1, SumWithin
<1>3. Sum(f, S) \in Nat /\ Sum(h, S) \in Nat
  BY <1>1, SumNat
<1> QED BY <1>2, <1>3

\* A part of a set has a part of the sum.
LEMMA SumPart ==
  ASSUME NEW f, NEW S, IsFiniteSet(S), Costs(f, S), NEW x
  PROVE  Sum(f, S \ {x}) <= Sum(f, S) /\ Sum(f, S \ {x}) \in Nat
<1>1. IsFiniteSet(S \ {x}) /\ Costs(f, S \ {x})
  BY FS_RemoveElement DEF Costs
<1>2. Sum(f, S \ {x}) \in Nat
  BY <1>1, SumNat
<1>3. CASE x \in S
  <2>1. Sum(f, S) = f[x] + Sum(f, S \ {x}) /\ f[x] \in Nat
    BY <1>3, SumAny DEF Costs
  <2> QED BY <1>2, <2>1
<1>4. CASE x \notin S
  <2>1. S \ {x} = S
    BY <1>4
  <2> QED BY <1>2, <2>1
<1> QED BY <1>3, <1>4

-----------------------------------------------------------------------------
(***************************************************************************)
(* The inductive invariant.                                                *)
(***************************************************************************)
\* The obligations of a remote, and a list of some of them.
Owed(r) == {i \in Indices : RemoteOf(i) = r}
OwnList(s, r) == Lists(s, ToSet(s)) /\ ToSet(s) \subseteq Owed(r)

\* The obligations that the batches in B carry, each in one batch.
Carried(B) == {i \in Indices : \E b \in B : i \in ToSet(b.left)}
Batches(B) ==
  /\ B \subseteq Batch
  /\ \A b \in B : b.left # << >> /\ OwnList(b.left, RemoteOf(b.left[1]))
  /\ \A b, c \in B : b # c => ToSet(b.left) \cap ToSet(c.left) = {}

\* The places of an obligation, one by one.
InPending(i) == i \in ToSet(pending[RemoteOf(i)])
InForming(i) == i \in ToSet(forming[RemoteOf(i)])
InProbing(i) == i \in Carried(probing)
InWaiting(i) == i \in waiting[OidOf(i)]
InReady(i) == i \in ToSet(ready[RemoteOf(i)])
InUploading(i) == i \in uploading

Nowhere(i) ==
  /\ ~InPending(i) /\ ~InForming(i) /\ ~InProbing(i)
  /\ ~InWaiting(i) /\ ~InReady(i) /\ ~InUploading(i)

\* An obligation is in one place at most.
Alone(i) ==
  /\ InPending(i) => ~InForming(i) /\ ~InProbing(i) /\ ~InWaiting(i) /\ ~InReady(i) /\ ~InUploading(i)
  /\ InForming(i) => ~InProbing(i) /\ ~InWaiting(i) /\ ~InReady(i) /\ ~InUploading(i)
  /\ InProbing(i) => ~InWaiting(i) /\ ~InReady(i) /\ ~InUploading(i)
  /\ InWaiting(i) => ~InReady(i) /\ ~InUploading(i)
  /\ InReady(i) => ~InUploading(i)

\* And in one until it has its status, unless it lies beyond the frontier.
Kept(i) ==
  /\ Alone(i)
  /\ statuses[i] # None => Nowhere(i)
  /\ statuses[i] = None /\ i < error => ~Nowhere(i)

\* The lists of obligations, and the queue of Admission.
Waiters == [remote : Remotes, bytes : Nat]
Lined(q) ==
  q \in Seq(Waiters) /\ \A k, l \in DOMAIN q : q[k].remote = q[l].remote => k = l
Listed ==
  /\ Lined(queue)
  /\ \A r \in Remotes : OwnList(pending[r], r) /\ OwnList(forming[r], r) /\ OwnList(ready[r], r)
  /\ Batches(probing)

\* A verification is queued or runs at most once, and while it does somebody
\* waits for it; who waits for one that does neither lies beyond the frontier
\* or came late.
Underway == ToSet(unverified) \cup ToSet(batch)
Checked ==
  /\ IsInjective(unverified) /\ IsInjective(batch)
  /\ ToSet(unverified) \cap ToSet(batch) = {}
  /\ \A o \in Underway : verified[o] = "running" /\ waiting[o] # {}
  /\ \A o \in Oids : waiting[o] # {} => verified[o] = "running"
  /\ \A o \in Oids : \A i \in waiting[o] :
       OidOf(i) = o /\ (i < error /\ o \notin Underway => i \in late)
  /\ error = NoError => late = {} /\ \A o \in Oids : verified[o] = "running" => o \in Underway

Placed == TypeOK /\ Listed /\ \A i \in Indices : Kept(i)
Located == Placed /\ Checked

\* What is queued lies before the frontier.
Before == \A i \in Indices : InPending(i) \/ InReady(i) => i < error

\* A remote in the queue has an upload, of the size that the queue has.
Right(w) == ready[w.remote] # << >> /\ w.bytes = BytesOf[Head(ready[w.remote])]

\* The remotes in their order, and those that the scan has passed.
Ordered == {RemoteOrder[k] : k \in 1 .. Len(RemoteOrder)}
Passed == {RemoteOrder[((nextRemote + k) % Len(RemoteOrder)) + 1] : k \in 0 .. scan - 1}

\* Who waits in line is visited; without a failure all of them wait rightly.
InLine == \A w \in ToSet(queue) : w.remote \in Ordered /\ (error = NoError => Right(w))

\* What a scan knows of the remotes it has passed.  Without uploads under way
\* and without a failure the first in line has not been passed.
Foremost ==
  /\ queue # << >> => Head(queue).remote \notin Passed
  /\ \A r \in Passed : ready[r] # << >> => queue # << >>
Passing ==
  phase = "refill" =>
    /\ \A w \in ToSet(queue) : w.remote \in Passed => Right(w)
    /\ \A r \in Passed : pending[r] = << >> \/ ~CanProbe(r)
    /\ uploading = {} /\ error = NoError => Foremost

\* What it leaves when it has passed all of them.
Rested ==
  phase \in {"wait", "done"} =>
    /\ \A r \in Remotes : forming[r] = << >>
    /\ phase = "done" => Idle
    /\ ~cancelled =>
         /\ \A w \in ToSet(queue) : Right(w)
         /\ probing = {} => \A r \in Remotes : pending[r] = << >>
         /\ uploading = {} /\ error = NoError => \A r \in Remotes : ready[r] = << >>

\* A verification that is needed is started before the refill.
Started ==
  phase \in {"refill", "wait", "done"} /\ ~cancelled /\ batch = << >> => unverified = << >>

\* The budget of the probes, and that of the uploads.
ProbesHeld == AllProbes <= capacity /\ \A r \in Remotes : Probes(r) <= PerRemote
UploadsHeld ==
  /\ Cardinality(uploading) <= capacity /\ Bytes(uploading) <= GlobalBytes
  /\ \A r \in Remotes :
       Cardinality(Uploads(r)) <= PerRemote /\ Bytes(Uploads(r)) <= RemoteBytes

Held == ProbesHeld /\ UploadsHeld
Scanned == InLine /\ Passing /\ Rested /\ Started

IInv == Located /\ Before /\ Held /\ Scanned

-----------------------------------------------------------------------------
(***************************************************************************)
(* Operations on the lists of obligations.                                 *)
(***************************************************************************)
\* A list of obligations as a sequence.
LEMMA OwnType ==
  ASSUME NEW r, NEW s, OwnList(s, r)
  PROVE  /\ s \in Seq(Indices) /\ Len(s) \in Nat
         /\ s = << >> <=> ToSet(s) = {}
         /\ \A i \in ToSet(s) : i \in Indices /\ RemoteOf(i) = r
<1>1. Lists(s, ToSet(s)) /\ ToSet(s) \subseteq Indices /\ \A i \in ToSet(s) : RemoteOf(i) = r
  BY DEF OwnList, Owed
<1>2. s \in Seq(Indices)
  BY <1>1, SeqMonotonic DEF Lists
<1>3. Len(s) \in Nat /\ (s = << >> <=> ToSet(s) = {})
  BY <1>1, ListsPlaces
<1> QED BY <1>1, <1>2, <1>3

\* Any list of obligations of one remote.
LEMMA OwnLists ==
  ASSUME NEW r, NEW S, NEW s, Lists(s, S), S \subseteq Owed(r)
  PROVE  OwnList(s, r) /\ ToSet(s) = S
BY DEF OwnList, Lists

\* The empty list.
LEMMA OwnNone == ASSUME NEW r PROVE OwnList(<< >>, r) /\ ToSet(<< >>) = {}
<1>1. Lists(<< >>, {}) /\ {} \subseteq Owed(r)
  BY ListsNone
<1> QED BY <1>1, OwnLists

\* One more obligation.
LEMMA OwnAppend ==
  ASSUME NEW r, NEW s, OwnList(s, r), NEW i \in Owed(r), i \notin ToSet(s)
  PROVE  /\ OwnList(Append(s, i), r) /\ ToSet(Append(s, i)) = ToSet(s) \cup {i}
         /\ Append(s, i) # << >> /\ Len(Append(s, i)) = Len(s) + 1
         /\ Head(Append(s, i)) = IF s = << >> THEN i ELSE Head(s)
<1>1. Lists(s, ToSet(s)) /\ ToSet(s) \subseteq Owed(r)
  BY DEF OwnList
<1>2. Lists(Append(s, i), ToSet(s) \cup {i}) /\ ToSet(s) \cup {i} \subseteq Owed(r)
  BY <1>1, ListsAppend
<1>3. OwnList(Append(s, i), r) /\ ToSet(Append(s, i)) = ToSet(s) \cup {i}
  BY <1>2, OwnLists
<1>4. s \in Seq(Indices) /\ i \in Indices
  BY OwnType DEF Owed
<1>5. Append(s, i) # << >> /\ Len(Append(s, i)) = Len(s) + 1
  BY <1>4, AppendProperties
<1>6. Head(Append(s, i)) = IF s = << >> THEN i ELSE Head(s)
  BY <1>4, HeadTailAppend
<1> QED BY <1>3, <1>5, <1>6

\* The head of a list, and the rest.
LEMMA OwnTail ==
  ASSUME NEW r, NEW s, OwnList(s, r), s # << >>
  PROVE  /\ Head(s) \in ToSet(s) /\ Head(s) = s[1]
         /\ Head(s) \in Indices /\ RemoteOf(Head(s)) = r
         /\ OwnList(Tail(s), r) /\ ToSet(Tail(s)) = ToSet(s) \ {Head(s)}
         /\ Tail(s) = << >> <=> Len(s) = 1
<1>1. Lists(s, ToSet(s)) /\ ToSet(s) \subseteq Owed(r)
  BY DEF OwnList
<1>2. /\ Head(s) \in ToSet(s) /\ Head(s) = s[1]
      /\ Lists(Tail(s), ToSet(s) \ {Head(s)})
      /\ Tail(s) = << >> <=> Len(s) = 1
  BY <1>1, ListsTail
<1>3. OwnList(Tail(s), r) /\ ToSet(Tail(s)) = ToSet(s) \ {Head(s)}
  BY <1>1, <1>2, OwnLists
<1>4. Head(s) \in Indices /\ RemoteOf(Head(s)) = r
  BY <1>1, <1>2 DEF Owed
<1> QED BY <1>2, <1>3, <1>4

\* Some of a list.
LEMMA OwnKeep ==
  ASSUME NEW r, NEW s, OwnList(s, r), NEW T
  PROVE  OwnList(Keep(s, T), r) /\ ToSet(Keep(s, T)) = ToSet(s) \cap T
<1>1. Lists(s, ToSet(s)) /\ ToSet(s) \subseteq Owed(r)
  BY DEF OwnList
<1>2. Lists(Keep(s, T), ToSet(s) \cap T) /\ ToSet(s) \cap T \subseteq Owed(r)
  BY <1>1, ListsKeep
<1> QED BY <1>2, OwnLists

\* Two lists of one remote.
LEMMA OwnConcat ==
  ASSUME NEW r, NEW s, OwnList(s, r), NEW t, OwnList(t, r), ToSet(s) \cap ToSet(t) = {}
  PROVE  OwnList(s \o t, r) /\ ToSet(s \o t) = ToSet(s) \cup ToSet(t)
<1>1. /\ Lists(s, ToSet(s)) /\ ToSet(s) \subseteq Owed(r)
      /\ Lists(t, ToSet(t)) /\ ToSet(t) \subseteq Owed(r)
  BY DEF OwnList
<1>2. Lists(s \o t, ToSet(s) \cup ToSet(t)) /\ ToSet(s) \cup ToSet(t) \subseteq Owed(r)
  BY <1>1, ListsConcat
<1> QED BY <1>2, OwnLists

\* A batch of n permits.
Sent(s, n) == [left |-> s, permits |-> n]

\* A list that no batch carries yet can be sent.
LEMMA BatchAdd ==
  ASSUME NEW B, Batches(B), NEW r, NEW s, OwnList(s, r), s # << >>,
         ToSet(s) \cap Carried(B) = {}, NEW n \in Nat
  PROVE  /\ Batches(B \cup {Sent(s, n)})
         /\ Carried(B \cup {Sent(s, n)}) = Carried(B) \cup ToSet(s)
         /\ Sent(s, n) \notin B /\ RemoteOf(s[1]) = r
<1> DEFINE b == Sent(s, n)
<1>1. /\ b \in Batch /\ b.left = s
  BY OwnType DEF Batch, Sent
<1> HIDE DEF b
<1>2. Head(s) \in ToSet(s) /\ Head(s) = s[1] /\ RemoteOf(Head(s)) = r
  BY OwnTail
<1>3. ToSet(s) \subseteq Indices
  BY OwnType
<1>4. \A c \in B : ToSet(c.left) \cap ToSet(s) = {}
  <2>1. ASSUME NEW c \in B, NEW i \in ToSet(c.left), i \in ToSet(s) PROVE FALSE
    <3>1. i \in Carried(B)
      BY <1>3, <2>1 DEF Carried
    <3> QED BY <2>1, <3>1
  <2> QED BY <2>1
<1>5. b \notin B
  BY <1>1, <1>2, <1>4
<1>6. Batches(B \cup {b})
  <2>1. RemoteOf(s[1]) = r
    BY <1>2
  <2> QED BY <1>1, <1>4, <2>1 DEF Batches
<1>7. Carried(B \cup {b}) = Carried(B) \cup ToSet(s)
  BY <1>1, <1>3 DEF Carried
<1> QED BY <1>2, <1>5, <1>6, <1>7 DEF b

\* What is left of the batches when the first obligation of b is answered.
Rest(b) == IF Len(b.left) = 1 THEN {} ELSE {[b EXCEPT !.left = Tail(@)]}

\* An answer takes one obligation out of the batches.
LEMMA BatchDeliver ==
  ASSUME NEW B, Batches(B), NEW b \in B
  PROVE  /\ Batches((B \ {b}) \cup Rest(b))
         /\ Carried((B \ {b}) \cup Rest(b)) = Carried(B) \ {Head(b.left)}
         /\ Head(b.left) \in Carried(B) /\ Head(b.left) = b.left[1]
         /\ Head(b.left) \in Indices
         /\ Rest(b) # {} => /\ Rest(b) = {[b EXCEPT !.left = Tail(@)]}
                            /\ [b EXCEPT !.left = Tail(@)] \notin B
                            /\ RemoteOf(Tail(b.left)[1]) = RemoteOf(b.left[1])
<1> DEFINE r == RemoteOf(b.left[1])
           s == b.left
           c == [b EXCEPT !.left = Tail(@)]
<1>1. b \in Batch /\ OwnList(s, r) /\ s # << >>
  BY DEF Batches
<1> HIDE DEF r
<1>2. /\ Head(s) \in ToSet(s) /\ Head(s) = s[1] /\ Head(s) \in Indices
      /\ OwnList(Tail(s), r) /\ ToSet(Tail(s)) = ToSet(s) \ {Head(s)}
      /\ Tail(s) = << >> <=> Len(s) = 1
  BY <1>1, OwnTail
<1>3. c = Sent(Tail(s), b.permits) /\ b.permits \in Nat
  BY <1>1 DEF Batch, Sent
<1>4. Head(s) \in Carried(B)
  BY <1>2 DEF Carried
<1> DEFINE D == B \ {b}
<1>5. Batches(D)
  BY DEF Batches
<1>6. Carried(D) = Carried(B) \ ToSet(s)
  <2>1. \A d \in D : ToSet(d.left) \cap ToSet(s) = {}
    BY DEF Batches
  <2> QED BY <2>1 DEF Carried
<1>7. CASE Len(s) = 1
  <2>1. ToSet(s) = {Head(s)}
    <3>1. ToSet(Tail(s)) = {}
      BY <1>2, <1>7, OwnNone
    <3> QED BY <1>2, <3>1
  <2>2. Rest(b) = {} /\ (B \ {b}) \cup Rest(b) = D
    BY <1>7 DEF Rest
  <2> QED BY <1>2, <1>4, <1>5, <1>6, <2>1, <2>2
<1>8. CASE Len(s) # 1
  <2>1. Tail(s) # << >>
    BY <1>2, <1>8
  <2>2. ToSet(Tail(s)) \cap Carried(D) = {}
    BY <1>2, <1>6
  <2>3. /\ Batches(D \cup {c}) /\ Carried(D \cup {c}) = Carried(D) \cup ToSet(Tail(s))
        /\ c \notin D /\ RemoteOf(Tail(s)[1]) = r
    <3> DEFINE t == Tail(s)
               n == b.permits
    <3>1. Batches(D) /\ OwnList(t, r) /\ t # << >> /\ ToSet(t) \cap Carried(D) = {} /\ n \in Nat
      BY <1>2, <1>3, <1>5, <2>1, <2>2
    <3>2. c = Sent(t, n)
      BY <1>3
    <3> HIDE DEF D, t, n, c
    <3>3. /\ Batches(D \cup {Sent(t, n)}) /\ Carried(D \cup {Sent(t, n)}) = Carried(D) \cup ToSet(t)
          /\ Sent(t, n) \notin D /\ RemoteOf(t[1]) = r
      BY <3>1, BatchAdd
    <3> QED BY <3>2, <3>3 DEF t
  <2>4. Carried(D) \cup ToSet(Tail(s)) = Carried(B) \ {Head(s)}
    <3>1. ToSet(s) \subseteq Carried(B)
      <4>1. ToSet(s) \subseteq Indices
        BY <1>1, OwnType
      <4> QED BY <4>1 DEF Carried
    <3> QED BY <1>2, <1>4, <1>6, <3>1
  <2>5. Rest(b) = {c} /\ (B \ {b}) \cup Rest(b) = D \cup {c}
    BY <1>8 DEF Rest
  <2>6. c # b
    <3>1. c.left = Tail(s) /\ b.left = s
      BY <1>3 DEF Sent
    <3>2. Tail(s) # s
      BY <1>2
    <3> QED BY <3>1, <3>2
  <2> HIDE DEF D
  <2>7. Rest(b) = {c} /\ c \notin B
    BY <2>3, <2>5, <2>6 DEF D
  <2> HIDE DEF c
  <2>8. Batches((B \ {b}) \cup Rest(b)) /\ Carried((B \ {b}) \cup Rest(b)) = Carried(B) \ {Head(s)}
    BY <2>3, <2>4, <2>5
  <2>9. RemoteOf(Tail(s)[1]) = RemoteOf(s[1])
    BY <2>3 DEF r
  <2> QED BY <1>2, <1>4, <2>7, <2>8, <2>9 DEF c
<1> QED BY <1>7, <1>8

-----------------------------------------------------------------------------
(***************************************************************************)
(* The queue of Admission.                                                 *)
(***************************************************************************)
\* q is a queue of those of the waiters of p that are not of remote r.
Without(q, p, r) ==
  /\ q \in Seq(Waiters) /\ ToSet(q) = {w \in ToSet(p) : w.remote # r}
  /\ Lined(p) => Lined(q)
  /\ p # << >> /\ Head(p).remote # r => q # << >> /\ Head(q) = Head(p)

\* Forgotten returns the others.
LEMMA ForgottenOthers ==
  ASSUME queue \in Seq(Waiters), NEW r
  PROVE  Without(Forgotten(r), queue, r)
<1> DEFINE T == {w \in ToSet(queue) : w.remote # r}
           q == Keep(queue, T)
<1>1. q \in Seq(Waiters) /\ \E e : Picks(queue, T, Len(queue), q, e)
  BY KeepPicks
<1>2. PICK e : Picks(queue, T, Len(queue), q, e)
  BY <1>1
<1>3. /\ Len(q) \in Nat /\ DOMAIN q = 1 .. Len(q)
      /\ Len(queue) \in Nat /\ DOMAIN queue = 1 .. Len(queue)
  BY <1>1, LenProperties
<1>4. T \subseteq ToSet(queue)
  OBVIOUS
<1> HIDE DEF q, T
<1>5. /\ \A k \in 1 .. Len(q) : e[k] \in 1 .. Len(queue) /\ q[k] = queue[e[k]] /\ q[k] \in T
      /\ \A k, l \in 1 .. Len(q) : k < l => e[k] < e[l]
      /\ \A m \in 1 .. Len(queue) : queue[m] \in T => \E k \in 1 .. Len(q) : e[k] = m
  BY <1>2 DEF Picks
<1>6. ToSet(q) = T
  <2>1. ToSet(q) \subseteq T
    BY <1>3, <1>5 DEF ToSet
  <2>2. ASSUME NEW w \in T PROVE w \in ToSet(q)
    <3>1. PICK m \in 1 .. Len(queue) : queue[m] = w
      BY <1>3, <1>4, <2>2 DEF ToSet
    <3>2. PICK k \in 1 .. Len(q) : e[k] = m
      BY <1>5, <2>2, <3>1
    <3>3. q[k] = w
      BY <1>5, <3>1, <3>2
    <3> QED BY <1>3, <3>3 DEF ToSet
  <2> QED BY <2>1, <2>2
<1>7. ASSUME Lined(queue) PROVE Lined(q)
  <2>1. ASSUME NEW k \in 1 .. Len(q), NEW l \in 1 .. Len(q), q[k].remote = q[l].remote
        PROVE  k = l
    <3>1. e[k] \in 1 .. Len(queue) /\ e[l] \in 1 .. Len(queue)
          /\ queue[e[k]].remote = queue[e[l]].remote
      BY <1>5, <2>1
    <3>2. e[k] = e[l]
      BY <1>3, <1>7, <3>1 DEF Lined
    <3>3. ~(e[k] < e[l]) /\ ~(e[l] < e[k])
      BY <1>3, <3>1, <3>2
    <3>4. ~(k < l) /\ ~(l < k)
      BY <1>5, <3>3
    <3> QED BY <1>3, <3>4
  <2> QED BY <1>1, <1>3, <2>1 DEF Lined, q
<1>8. ASSUME queue # << >>, Head(queue).remote # r PROVE q # << >> /\ Head(q) = Head(queue)
  <2>1. 1 \in DOMAIN queue /\ Head(queue) = queue[1]
    BY <1>3, <1>8, EmptySeq
  <2>2. Head(queue) \in T
    BY <1>8, <2>1 DEF T, ToSet
  <2> QED BY <1>8, <2>2, KeepHead DEF q
<1>9. Forgotten(r) = q
  BY DEF Forgotten, q, T
<1> QED BY <1>1, <1>6, <1>7, <1>8, <1>9 DEF Without, q, T

\* q is the queue p with remote r asking for n bytes.
Asks(q, p, r, n) ==
  /\ q \in Seq(Waiters)
  /\ ToSet(q) = {w \in ToSet(p) : w.remote # r} \cup {[remote |-> r, bytes |-> n]}
  /\ Lined(p) => Lined(q)
  /\ q # << >> /\ Head(q).remote = IF p = << >> THEN r ELSE Head(p).remote

\* Queued returns the queue with one place for the remote that asks.
LEMMA QueuedOnce ==
  ASSUME Lined(queue), NEW r \in Remotes, NEW n \in Nat
  PROVE  Asks(Queued(r, n), queue, r, n)
<1> DEFINE q == Queued(r, n)
           w == [remote |-> r, bytes |-> n]
<1>1. queue \in Seq(Waiters) /\ \A k, l \in DOMAIN queue : queue[k].remote = queue[l].remote => k = l
  BY DEF Lined
<1>2. /\ Len(queue) \in Nat /\ DOMAIN queue = 1 .. Len(queue)
      /\ \A k \in 1 .. Len(queue) : queue[k] \in Waiters
      /\ w \in Waiters /\ w.remote = r /\ w.bytes = n
  BY <1>1, LenProperties, ElementOfSeq DEF Waiters
<1>3. CASE \E k \in DOMAIN queue : queue[k].remote = r
  <2>1. PICK m \in 1 .. Len(queue) : queue[m].remote = r
    BY <1>2, <1>3
  <2>2. q = [k \in 1 .. Len(queue) |->
               IF queue[k].remote = r THEN [queue[k] EXCEPT !.bytes = n] ELSE queue[k]]
    BY <1>2, <1>3 DEF Queued
  <2>3. \A k \in 1 .. Len(queue) : queue[k].remote = r <=> k = m
    BY <1>1, <1>2, <2>1
  <2>4. [queue[m] EXCEPT !.bytes = n] = w
    BY <1>2, <2>1 DEF Waiters
  <2>5. \A k \in 1 .. Len(queue) : q[k] = IF k = m THEN w ELSE queue[k]
    BY <2>2, <2>3, <2>4
  <2>6. q \in Seq(Waiters) /\ Len(q) = Len(queue) /\ DOMAIN q = 1 .. Len(queue)
    <3>1. q = [k \in 1 .. Len(queue) |-> IF k = m THEN w ELSE queue[k]]
      BY <2>2, <2>3, <2>4
    <3>2. \A k \in 1 .. Len(queue) : (IF k = m THEN w ELSE queue[k]) \in Waiters
      BY <1>2
    <3> HIDE DEF q
    <3>3. q \in Seq(Waiters)
      BY <1>2, <3>1, <3>2, IsASeq
    <3> QED BY <1>2, <3>1, <3>3, LenProperties
  <2> HIDE DEF q, w
  <2>7. ToSet(q) = {v \in ToSet(queue) : v.remote # r} \cup {w}
    <3>1. ASSUME NEW k \in 1 .. Len(queue)
          PROVE  q[k] \in {v \in ToSet(queue) : v.remote # r} \cup {w}
      BY <1>2, <2>3, <2>5 DEF ToSet
    <3>2. ASSUME NEW k \in 1 .. Len(queue), queue[k].remote # r PROVE q[k] = queue[k]
      BY <2>3, <2>5, <3>2
    <3>3. q[m] = w
      BY <2>5
    <3>4. ToSet(q) = {q[k] : k \in 1 .. Len(queue)} /\ ToSet(queue) = {queue[k] : k \in 1 .. Len(queue)}
      BY <1>2, <2>6 DEF ToSet
    <3> QED BY <3>1, <3>2, <3>3, <3>4
  <2>8. \A k \in 1 .. Len(queue) : q[k].remote = queue[k].remote
    BY <1>2, <2>1, <2>5
  <2>9. Lined(q)
    BY <1>1, <1>2, <2>6, <2>8 DEF Lined
  <2>10. 1 \in 1 .. Len(queue) /\ q # << >> /\ queue # << >>
    BY <1>2, <2>1, <2>6, EmptySeq
  <2>11. Head(q) = q[1] /\ Head(queue) = queue[1]
    BY <1>1, <2>6, <2>10
  <2> QED BY <2>6, <2>7, <2>8, <2>9, <2>10, <2>11 DEF Asks, q, w
<1>4. CASE \A k \in DOMAIN queue : queue[k].remote # r
  <2>1. q = Append(queue, w)
    BY <1>4 DEF Queued
  <2> HIDE DEF q, w
  <2>2. /\ q \in Seq(Waiters) /\ q # << >> /\ Len(q) = Len(queue) + 1
        /\ \A k \in 1 .. Len(queue) : q[k] = queue[k]
        /\ q[Len(queue) + 1] = w
    BY <1>1, <1>2, <2>1, AppendProperties
  <2>3. DOMAIN q = 1 .. (Len(queue) + 1)
    BY <2>2, LenProperties
  <2>4. \A k \in DOMAIN q : k \in 1 .. Len(queue) \/ k = Len(queue) + 1
    BY <1>2, <2>3
  <2>5. Lined(q)
    <3>1. ASSUME NEW k \in DOMAIN q, NEW l \in DOMAIN q, q[k].remote = q[l].remote PROVE k = l
      <4>1. CASE k \in 1 .. Len(queue) /\ l \in 1 .. Len(queue)
        BY <1>1, <1>2, <2>2, <3>1, <4>1
      <4>2. CASE k \in 1 .. Len(queue) /\ l = Len(queue) + 1
        BY <1>2, <1>4, <2>2, <3>1, <4>2
      <4>3. CASE k = Len(queue) + 1 /\ l \in 1 .. Len(queue)
        BY <1>2, <1>4, <2>2, <3>1, <4>3
      <4> QED BY <2>4, <4>1, <4>2, <4>3
    <3> QED BY <2>2, <3>1 DEF Lined
  <2>6. ToSet(q) = {v \in ToSet(queue) : v.remote # r} \cup {w}
    <3>1. \A k \in 1 .. Len(queue) : k \in DOMAIN q
      BY <1>2, <2>3
    <3>2. Len(queue) + 1 \in DOMAIN q
      BY <1>2, <2>3
    <3>3. {v \in ToSet(queue) : v.remote # r} = ToSet(queue)
      BY <1>4 DEF ToSet
    <3>4. ToSet(queue) \cup {w} \subseteq ToSet(q)
      BY <1>2, <2>2, <3>1, <3>2 DEF ToSet
    <3>5. ToSet(q) \subseteq ToSet(queue) \cup {w}
      BY <1>2, <2>2, <2>4 DEF ToSet
    <3> QED BY <3>3, <3>4, <3>5
  <2>7. Head(q) = IF queue = << >> THEN w ELSE Head(queue)
    BY <1>1, <2>1, HeadTailAppend
  <2>8. Head(q).remote = IF queue = << >> THEN r ELSE Head(queue).remote
    BY <1>2, <2>7
  <2> QED BY <2>2, <2>5, <2>6, <2>8 DEF Asks, q, w
<1> QED BY <1>3, <1>4

-----------------------------------------------------------------------------
(***************************************************************************)
(* Layer one: where the obligations are.                                   *)
(***************************************************************************)
\* The lists of a remote.
LEMMA ListsOf ==
  ASSUME Placed, NEW r \in Remotes
  PROVE  /\ OwnList(pending[r], r) /\ OwnList(forming[r], r) /\ OwnList(ready[r], r)
         /\ Batches(probing) /\ Lined(queue)
         /\ \A i \in ToSet(pending[r]) : InPending(i) /\ i \in Indices
         /\ \A i \in ToSet(forming[r]) : InForming(i) /\ i \in Indices
         /\ \A i \in ToSet(ready[r]) : InReady(i) /\ i \in Indices
<1>1. /\ OwnList(pending[r], r) /\ OwnList(forming[r], r) /\ OwnList(ready[r], r)
      /\ Batches(probing) /\ Lined(queue)
  BY DEF Placed, Listed
<1>2. \A i \in ToSet(pending[r]) \cup ToSet(forming[r]) \cup ToSet(ready[r]) :
        i \in Indices /\ RemoteOf(i) = r
  BY <1>1, OwnType
<1> QED BY <1>1, <1>2 DEF InPending, InForming, InReady

\* The remote that a scan visits.
LEMMA VisitedRemote ==
  ASSUME TypeOK, Scanning
  PROVE  /\ Position \in 0 .. Len(RemoteOrder) - 1 /\ Visited \in Remotes
         /\ (Position + 1) % Len(RemoteOrder) \in 0 .. Len(RemoteOrder) - 1
         /\ scan \in Nat /\ scan + 1 \in 0 .. Len(RemoteOrder)
<1>1. Len(RemoteOrder) \in Nat \ {0}
  BY Ordering
<1>2. nextRemote \in 0 .. Len(RemoteOrder) - 1 /\ scan \in 0 .. Len(RemoteOrder) /\ scan < Len(RemoteOrder)
  BY DEF TypeOK, Scanning
<1> DEFINE L == Len(RemoteOrder)
<1> HIDE DEF L
<1>3. L \in Nat \ {0} /\ nextRemote \in 0 .. L - 1 /\ scan \in Nat /\ scan < L
  BY <1>1, <1>2 DEF L
<1>4. nextRemote + scan \in Nat /\ nextRemote + scan < 2 * L
  BY <1>3
<1>5. (nextRemote + scan) % L \in 0 .. L - 1
  BY <1>3, <1>4, Wraps
<1>6. Position \in 0 .. L - 1
  BY <1>5 DEF Position, L
<1>7. Position + 1 \in Nat /\ Position + 1 < 2 * L /\ Position + 1 \in 1 .. L
  BY <1>3, <1>6
<1>8. (Position + 1) % L \in 0 .. L - 1
  BY <1>3, <1>7, Wraps
<1>9. Visited \in Remotes
  BY <1>7, Ordering DEF Visited, L
<1>10. scan + 1 \in 0 .. L
  BY <1>3
<1> QED BY <1>3, <1>6, <1>8, <1>9, <1>10 DEF L

\* An upload asks for the bytes of its buffer.
LEMMA UploadBytes ==
  ASSUME NEW i \in Indices
  PROVE  BytesOf[i] \in Nat /\ BytesOf[i] <= RemoteBytes
<1>1. BytesOf \in [Indices -> 0 .. RemoteBytes] /\ RemoteBytes \in Nat
  BY BudgetAssumption
<1>2. BytesOf[i] \in 0 .. RemoteBytes
  BY <1>1
<1> QED BY <1>1, <1>2

\* What Asked returns: a remote without an upload is forgotten.
LEMMA AskedFor ==
  ASSUME Placed, NEW r \in Remotes
  PROVE  /\ ready[r] = << >> => Without(Asked(r), queue, r)
         /\ ready[r] # << >> => Asks(Asked(r), queue, r, BytesOf[Head(ready[r])])
         /\ Lined(Asked(r))
<1>1. Lined(queue) /\ queue \in Seq(Waiters)
  BY DEF Placed, Listed, Lined
<1>2. CASE ready[r] = << >>
  <2>1. Without(Forgotten(r), queue, r)
    BY <1>1, ForgottenOthers
  <2> QED BY <1>1, <1>2, <2>1 DEF Asked, Without
<1>3. CASE ready[r] # << >>
  <2> DEFINE n == BytesOf[Head(ready[r])]
  <2>1. n \in Nat
    <3>1. Head(ready[r]) \in Indices
      BY <1>3, ListsOf, OwnTail
    <3> QED BY <3>1, UploadBytes
  <2> HIDE DEF n
  <2>2. Asks(Queued(r, n), queue, r, n)
    BY <1>1, <2>1, QueuedOnce
  <2>3. Asked(r) = Queued(r, n)
    BY <1>3 DEF Asked, n
  <2> QED BY <1>1, <1>3, <2>2, <2>3 DEF Asks, n
<1> QED BY <1>2, <1>3

\* What a step of the coordinator does not change.
LEMMA CheckedKeeps ==
  ASSUME Checked, UNCHANGED <<cacheVars, error>>
  PROVE  Checked'
BY DEF Checked, Underway, cacheVars

\* A step begins only what was queued, and queues only what lies before the
\* frontier.
Begun(i) == InForming(i) \/ InProbing(i) \/ InUploading(i)
Advances(i) ==
  /\ Begun(i)' => Begun(i) \/ InPending(i) \/ InReady(i)
  /\ InPending(i)' \/ InReady(i)' =>
       i < error' \/ (error' = error /\ (InPending(i) \/ InReady(i)))

\* A permit for a probe: an obligation leaves the front of pending.
LEMMA AdmitProbePlaces ==
  ASSUME Placed, AdmitProbe
  PROVE  Placed' /\ \A i \in Indices : Advances(i)
<1> DEFINE r == Visited
           i0 == Head(pending[r])
           entries == Append(forming[r], i0)
           full == Len(forming[r]) + 1 = ProbeLimit[r]
<1>0. TypeOK /\ Scanning
  BY DEF Placed, AdmitProbe
<1>1. r \in Remotes /\ (Position + 1) % Len(RemoteOrder) \in 0 .. Len(RemoteOrder) - 1
  BY <1>0, VisitedRemote
<1>2. /\ pending[r] # << >>
      /\ pending' = [pending EXCEPT ![r] = Tail(pending[r])]
      /\ forming' = [forming EXCEPT ![r] = IF full THEN << >> ELSE entries]
      /\ probing' = IF full THEN probing \cup {Sent(entries, Len(entries))} ELSE probing
      /\ queue' = Asked(r) \/ queue' = queue
      /\ nextRemote' = (Position + 1) % Len(RemoteOrder)
      /\ lastKind' = [lastKind EXCEPT ![r] = "presence"] /\ scan' = 0
      /\ UNCHANGED <<capacity, phase, ready, cacheVars, uploading, statuses, error, cancelled>>
  BY DEF AdmitProbe, Admitted, Sent
<1> HIDE DEF r
<1>3. /\ OwnList(pending[r], r) /\ OwnList(forming[r], r)
      /\ Batches(probing) /\ Lined(queue) /\ Lined(Asked(r))
  BY <1>1, ListsOf, AskedFor
<1>4. /\ i0 \in ToSet(pending[r]) /\ i0 \in Indices /\ RemoteOf(i0) = r
      /\ OwnList(Tail(pending[r]), r) /\ ToSet(Tail(pending[r])) = ToSet(pending[r]) \ {i0}
  BY <1>2, <1>3, OwnTail
<1>5. InPending(i0) /\ Kept(i0)
  BY <1>4 DEF InPending, Placed
<1>6. ~InForming(i0) /\ i0 \notin ToSet(forming[r]) /\ ~InProbing(i0)
  BY <1>4, <1>5 DEF Kept, Alone, InForming
<1>7. /\ OwnList(entries, r) /\ ToSet(entries) = ToSet(forming[r]) \cup {i0}
      /\ entries # << >> /\ Len(entries) \in Nat
  <2>1. i0 \in Owed(r)
    BY <1>4 DEF Owed
  <2> HIDE DEF i0
  <2>2. /\ OwnList(entries, r) /\ ToSet(entries) = ToSet(forming[r]) \cup {i0}
        /\ entries # << >>
    BY <1>3, <1>6, <2>1, OwnAppend
  <2> HIDE DEF entries
  <2> QED BY <2>2, OwnType
<1>8. ToSet(entries) \cap Carried(probing) = {}
  <2>1. \A i \in ToSet(forming[r]) : i \notin Carried(probing)
    <3>1. TAKE i \in ToSet(forming[r])
    <3>2. InForming(i) /\ i \in Indices
      BY <1>1, ListsOf
    <3> QED BY <3>2 DEF Placed, Kept, Alone, InProbing
  <2> QED BY <1>6, <1>7, <2>1 DEF InProbing
<1>9. /\ Batches(probing \cup {Sent(entries, Len(entries))})
      /\ Carried(probing \cup {Sent(entries, Len(entries))}) = Carried(probing) \cup ToSet(entries)
  <2> DEFINE n == Len(entries)
  <2> HIDE DEF entries, n
  <2>1. n \in Nat
    BY <1>7 DEF n
  <2>2. Batches(probing) /\ OwnList(entries, r) /\ entries # << >> /\ ToSet(entries) \cap Carried(probing) = {}
    BY <1>3, <1>7, <1>8
  <2>3. /\ Batches(probing \cup {Sent(entries, n)})
        /\ Carried(probing \cup {Sent(entries, n)}) = Carried(probing) \cup ToSet(entries)
    BY <2>1, <2>2, BatchAdd
  <2> QED BY <2>3 DEF n
<1>10. /\ pending \in [Remotes -> Seq(Indices)] /\ forming \in [Remotes -> Seq(Indices)]
       /\ ready \in [Remotes -> Seq(Indices)] /\ lastKind \in [Remotes -> Kinds \cup {None}]
  BY <1>0 DEF TypeOK
<1> DEFINE rest == Tail(pending[r])
           f == IF full THEN << >> ELSE entries
<1>11. OwnList(f, r) /\ ToSet(f) = IF full THEN {} ELSE ToSet(entries)
  <2>1. OwnList(<< >>, r) /\ ToSet(<< >>) = {}
    BY OwnNone
  <2> QED BY <1>7, <2>1
<1> HIDE DEF entries, f, full, rest
<1>12. /\ rest \in Seq(Indices) /\ f \in Seq(Indices)
       /\ pending' = [pending EXCEPT ![r] = rest] /\ forming' = [forming EXCEPT ![r] = f]
       /\ OwnList(rest, r) /\ ToSet(rest) = ToSet(pending[r]) \ {i0}
  <2>1. OwnList(rest, r)
    BY <1>4 DEF rest
  <2> QED BY <1>2, <1>4, <1>11, <2>1, OwnType DEF rest, f
<1>13. /\ pending' \in [Remotes -> Seq(Indices)] /\ forming' \in [Remotes -> Seq(Indices)]
       /\ lastKind' \in [Remotes -> Kinds \cup {None}]
  BY <1>1, <1>2, <1>10, <1>12 DEF Kinds
<1>14. /\ pending'[r] = rest /\ forming'[r] = f
       /\ \A s \in Remotes : s # r => pending'[s] = pending[s] /\ forming'[s] = forming[s]
  BY <1>1, <1>10, <1>12
<1>15. Batches(probing') /\ Lined(queue')
  BY <1>2, <1>3, <1>9
<1>16. TypeOK'
  <2>1. probing' \subseteq Batch /\ queue' \in Seq(Waiters)
    BY <1>15 DEF Batches, Lined
  <2>2. 0 \in 0 .. Len(RemoteOrder)
    BY Ordering
  <2> QED BY <1>0, <1>1, <1>2, <1>13, <2>1, <2>2 DEF TypeOK, cacheVars, Waiters
<1>17. Listed'
  <2>1. ASSUME NEW s \in Remotes
        PROVE  OwnList(pending'[s], s) /\ OwnList(forming'[s], s) /\ OwnList(ready'[s], s)
    <3>1. OwnList(pending[s], s) /\ OwnList(forming[s], s) /\ OwnList(ready[s], s)
      BY ListsOf
    <3>2. CASE s = r
      BY <1>2, <1>11, <1>12, <1>14, <3>1, <3>2
    <3>3. CASE s # r
      BY <1>2, <1>14, <3>1, <3>3
    <3> QED BY <3>2, <3>3
  <2> QED BY <1>15, <2>1 DEF Listed
<1>18. ASSUME NEW i \in Indices PROVE Kept(i)' /\ Advances(i)
  <2>1. RemoteOf(i) \in Remotes /\ Kept(i)
    BY Numbered DEF Placed
  <2>2. InPending(i)' <=> InPending(i) /\ i # i0
    BY <1>4, <1>12, <1>14, <2>1 DEF InPending
  <2>3. /\ InWaiting(i)' <=> InWaiting(i)
        /\ InReady(i)' <=> InReady(i)
        /\ InUploading(i)' <=> InUploading(i)
    BY <1>2 DEF InWaiting, InReady, InUploading, cacheVars
  <2>4. CASE full
    <3>1. InForming(i)' <=> InForming(i) /\ RemoteOf(i) # r
      BY <1>11, <1>14, <2>1, <2>4 DEF InForming
    <3>2. InProbing(i)' <=> InProbing(i) \/ i = i0 \/ (InForming(i) /\ RemoteOf(i) = r)
      <4>1. i \in ToSet(forming[r]) <=> InForming(i) /\ RemoteOf(i) = r
        BY <1>1, ListsOf, OwnType DEF InForming
      <4> QED BY <1>2, <1>7, <1>9, <2>4, <4>1 DEF InProbing
    <3> QED BY <1>2, <1>5, <2>1, <2>2, <2>3, <3>1, <3>2
       DEF Kept, Alone, Nowhere, Advances, Begun
  <2>5. CASE ~full
    <3>1. InForming(i)' <=> InForming(i) \/ i = i0
      <4>1. CASE RemoteOf(i) = r
        BY <1>7, <1>11, <1>14, <2>1, <2>5, <4>1 DEF InForming
      <4>2. CASE RemoteOf(i) # r
        BY <1>4, <1>14, <2>1, <4>2 DEF InForming
      <4> QED BY <4>1, <4>2
    <3>2. InProbing(i)' <=> InProbing(i)
      BY <1>2, <2>5 DEF InProbing
    <3> QED BY <1>2, <1>5, <2>1, <2>2, <2>3, <3>1, <3>2
       DEF Kept, Alone, Nowhere, Advances, Begun
  <2> QED BY <2>4, <2>5
<1> QED BY <1>16, <1>17, <1>18 DEF Placed

\* A permit for an upload: an obligation leaves the front of ready.
LEMMA AdmitUploadPlaces ==
  ASSUME Placed, AdmitUpload
  PROVE  Placed' /\ \A i \in Indices : Advances(i)
<1> DEFINE r == Visited
           i0 == Head(ready[r])
           rest == Tail(ready[r])
<1>0. TypeOK /\ Scanning
  BY DEF Placed, AdmitUpload
<1>1. r \in Remotes /\ (Position + 1) % Len(RemoteOrder) \in 0 .. Len(RemoteOrder) - 1
  BY <1>0, VisitedRemote
<1>2. /\ ready[r] # << >>
      /\ ready' = [ready EXCEPT ![r] = rest] /\ uploading' = uploading \cup {i0}
      /\ queue' = Forgotten(r)
      /\ nextRemote' = (Position + 1) % Len(RemoteOrder)
      /\ lastKind' = [lastKind EXCEPT ![r] = "upload"] /\ scan' = 0
      /\ UNCHANGED <<capacity, phase, pending, forming, probing, cacheVars, statuses, error, cancelled>>
  BY DEF AdmitUpload, Admitted, CanUpload
<1> HIDE DEF r
<1>3. OwnList(ready[r], r) /\ Batches(probing) /\ Lined(queue)
  BY <1>1, ListsOf
<1>4. /\ i0 \in ToSet(ready[r]) /\ i0 \in Indices /\ RemoteOf(i0) = r
      /\ OwnList(rest, r) /\ ToSet(rest) = ToSet(ready[r]) \ {i0} /\ rest \in Seq(Indices)
  BY <1>2, <1>3, OwnTail, OwnType
<1> HIDE DEF i0, rest
<1>5. InReady(i0) /\ Kept(i0)
  BY <1>4 DEF InReady, Placed
<1>6. /\ ready \in [Remotes -> Seq(Indices)] /\ lastKind \in [Remotes -> Kinds \cup {None}]
  BY <1>0 DEF TypeOK
<1>7. ready' \in [Remotes -> Seq(Indices)] /\ lastKind' \in [Remotes -> Kinds \cup {None}]
  BY <1>1, <1>2, <1>4, <1>6 DEF Kinds
<1>8. ready'[r] = rest /\ \A s \in Remotes : s # r => ready'[s] = ready[s]
  BY <1>1, <1>2, <1>6
<1>9. Batches(probing') /\ Lined(queue')
  <2>1. Without(Forgotten(r), queue, r)
    BY <1>3, ForgottenOthers DEF Lined
  <2> QED BY <1>2, <1>3, <2>1 DEF Without
<1>10. TypeOK'
  <2>1. queue' \in Seq(Waiters)
    BY <1>9 DEF Lined
  <2>2. 0 \in 0 .. Len(RemoteOrder)
    BY Ordering
  <2> QED BY <1>0, <1>1, <1>2, <1>4, <1>7, <2>1, <2>2 DEF TypeOK, cacheVars, Waiters
<1>11. Listed'
  <2>1. ASSUME NEW s \in Remotes
        PROVE  OwnList(pending'[s], s) /\ OwnList(forming'[s], s) /\ OwnList(ready'[s], s)
    <3>1. OwnList(pending[s], s) /\ OwnList(forming[s], s) /\ OwnList(ready[s], s)
      BY ListsOf
    <3> QED BY <1>2, <1>4, <1>8, <3>1
  <2> QED BY <1>9, <2>1 DEF Listed
<1>12. ASSUME NEW i \in Indices PROVE Kept(i)' /\ Advances(i)
  <2>1. RemoteOf(i) \in Remotes /\ Kept(i)
    BY Numbered DEF Placed
  <2>2. InReady(i)' <=> InReady(i) /\ i # i0
    BY <1>4, <1>8, <2>1 DEF InReady
  <2>3. InUploading(i)' <=> InUploading(i) \/ i = i0
    BY <1>2 DEF InUploading
  <2>4. /\ InPending(i)' <=> InPending(i)
        /\ InForming(i)' <=> InForming(i)
        /\ InProbing(i)' <=> InProbing(i)
        /\ InWaiting(i)' <=> InWaiting(i)
    BY <1>2 DEF InPending, InForming, InProbing, InWaiting, cacheVars
  <2> QED BY <1>2, <1>5, <2>1, <2>2, <2>3, <2>4 DEF Kept, Alone, Nowhere, Advances, Begun
<1> QED BY <1>10, <1>11, <1>12 DEF Placed

\* Steps that leave every obligation where it is.
LEMMA PlacesKeep ==
  ASSUME Placed, TypeOK', Lined(queue'), UNCHANGED <<workVars, waiting, uploading, statuses, error>>
  PROVE  Placed' /\ \A i \in Indices : Advances(i)
<1>1. Listed'
  BY DEF Placed, Listed, workVars
<1>2. ASSUME NEW i \in Indices PROVE Kept(i)' /\ Advances(i)
  <2>1. Kept(i)
    BY DEF Placed
  <2>2. /\ InPending(i)' <=> InPending(i)
        /\ InForming(i)' <=> InForming(i)
        /\ InProbing(i)' <=> InProbing(i)
        /\ InWaiting(i)' <=> InWaiting(i)
        /\ InReady(i)' <=> InReady(i)
        /\ InUploading(i)' <=> InUploading(i)
    BY DEF InPending, InForming, InProbing, InWaiting, InReady, InUploading, workVars
  <2> QED BY <2>1, <2>2 DEF Kept, Alone, Nowhere, Advances, Begun
<1> QED BY <1>1, <1>2 DEF Placed

\* A remote that is passed over may ask for a permit.
LEMMA PassOverPlaces ==
  ASSUME Placed, PassOver
  PROVE  Placed' /\ \A i \in Indices : Advances(i)
<1>1. TypeOK /\ Scanning /\ Lined(queue)
  BY DEF Placed, PassOver, Listed
<1>2. Visited \in Remotes /\ scan + 1 \in 0 .. Len(RemoteOrder)
  BY <1>1, VisitedRemote
<1>3. Lined(queue')
  <2>1. queue' = Asked(Visited)
    BY DEF PassOver
  <2> QED BY <1>2, <2>1, AskedFor
<1>4. TypeOK'
  <2>1. queue' \in Seq(Waiters)
    BY <1>3 DEF Lined
  <2> QED BY <1>1, <1>2, <2>1 DEF TypeOK, PassOver, workVars, cacheVars, Waiters
<1>5. UNCHANGED <<workVars, waiting, uploading, statuses, error>>
  BY DEF PassOver, cacheVars
<1> QED BY <1>3, <1>4, <1>5, PlacesKeep

\* Starting a verification, returning, an interrupt and no step at all.
LEMMA OtherPlaces ==
  ASSUME Placed, Finish \/ Cancel \/ UNCHANGED vars
  PROVE  Placed' /\ \A i \in Indices : Advances(i)
<1>1. TypeOK /\ Lined(queue)
  BY DEF Placed, Listed
<1>2. UNCHANGED <<workVars, waiting, uploading, statuses, error, queue>>
  BY DEF Finish, Cancel, vars, cacheVars, admissionVars
<1>3. TypeOK'
  <2>1. CASE Finish
    BY <1>1, <2>1 DEF TypeOK, Finish, Phases, workVars, cacheVars, admissionVars, robinVars
  <2>2. CASE Cancel
    BY <1>1, <2>2 DEF TypeOK, Cancel, workVars, cacheVars, admissionVars, robinVars
  <2>3. CASE UNCHANGED vars
    BY <1>1, <2>3 DEF TypeOK, vars, workVars, cacheVars, admissionVars, robinVars
  <2> QED BY <2>1, <2>2, <2>3
<1>4. Lined(queue')
  BY <1>1, <1>2
<1> QED BY <1>2, <1>3, <1>4, PlacesKeep

\* What is left of the batches can be sent at once.
LEMMA BatchStart ==
  ASSUME NEW B, Batches(B), NEW f,
         \A r \in Remotes : OwnList(f[r], r) /\ ToSet(f[r]) \cap Carried(B) = {}
  PROVE  LET C == {Sent(f[r], Len(f[r])) : r \in {s \in Remotes : f[s] # << >>}}
         IN  /\ Batches(B \cup C)
             /\ \A i \in Indices : i \in Carried(B \cup C) <=>
                  i \in Carried(B) \/ i \in ToSet(f[RemoteOf(i)])
<1> DEFINE S == {s \in Remotes : f[s] # << >>}
           C == {Sent(f[r], Len(f[r])) : r \in S}
<1>1. ASSUME NEW r \in S
      PROVE  /\ Sent(f[r], Len(f[r])) \in Batch /\ Sent(f[r], Len(f[r])).left = f[r]
             /\ f[r] # << >> /\ RemoteOf(f[r][1]) = r /\ OwnList(f[r], r)
             /\ \A i \in ToSet(f[r]) : i \in Indices /\ RemoteOf(i) = r
  <2>1. OwnList(f[r], r) /\ f[r] # << >>
    OBVIOUS
  <2>2. f[r] \in Seq(Indices) /\ Len(f[r]) \in Nat /\ \A i \in ToSet(f[r]) : i \in Indices /\ RemoteOf(i) = r
    BY <2>1, OwnType
  <2>3. RemoteOf(f[r][1]) = r
    BY <2>1, OwnTail
  <2> QED BY <2>1, <2>2, <2>3 DEF Batch, Sent
<1>2. ASSUME NEW b \in C
      PROVE  \E r \in S : b = Sent(f[r], Len(f[r])) /\ b.left = f[r]
  BY <1>1
<1>3. \A b \in C : b \in Batch /\ b.left # << >> /\ OwnList(b.left, RemoteOf(b.left[1]))
  BY <1>1, <1>2
<1>4. ASSUME NEW b \in C, NEW c \in C, b # c PROVE ToSet(b.left) \cap ToSet(c.left) = {}
  <2>1. PICK r \in S : b = Sent(f[r], Len(f[r])) /\ b.left = f[r]
    BY <1>2
  <2>2. PICK s \in S : c = Sent(f[s], Len(f[s])) /\ c.left = f[s]
    BY <1>2
  <2>3. r # s
    BY <1>4, <2>1, <2>2
  <2> QED BY <1>1, <2>1, <2>2, <2>3
<1>5. ASSUME NEW b \in B, NEW c \in C PROVE ToSet(b.left) \cap ToSet(c.left) = {}
  <2>1. PICK s \in S : c = Sent(f[s], Len(f[s])) /\ c.left = f[s]
    BY <1>2
  <2>2. ASSUME NEW i \in ToSet(b.left), i \in ToSet(f[s]) PROVE FALSE
    <3>1. i \in Indices
      BY <1>1, <2>2
    <3>2. i \in Carried(B)
      BY <2>2, <3>1 DEF Carried
    <3> QED BY <2>2, <3>2
  <2> QED BY <2>1, <2>2
<1> HIDE DEF C
<1>6. Batches(B \cup C)
  <2>1. \A b \in C, c \in B : ToSet(b.left) \cap ToSet(c.left) = {}
    BY <1>5
  <2>2. \A b, c \in B \cup C : b # c => ToSet(b.left) \cap ToSet(c.left) = {}
    BY <1>4, <1>5, <2>1 DEF Batches
  <2>3. \A b \in B \cup C : b.left # << >> /\ OwnList(b.left, RemoteOf(b.left[1]))
    BY <1>3 DEF Batches
  <2>4. B \cup C \subseteq Batch
    BY <1>3 DEF Batches
  <2> QED BY <2>2, <2>3, <2>4 DEF Batches
<1>7. ASSUME NEW i \in Indices
      PROVE  i \in Carried(B \cup C) <=> i \in Carried(B) \/ i \in ToSet(f[RemoteOf(i)])
  <2>1. (\E b \in C : i \in ToSet(b.left)) => i \in ToSet(f[RemoteOf(i)])
    BY <1>1, <1>2
  <2>2. ASSUME i \in ToSet(f[RemoteOf(i)]) PROVE \E b \in C : i \in ToSet(b.left)
    <3> DEFINE r == RemoteOf(i)
    <3>1. r \in Remotes /\ OwnList(f[r], r)
      BY Numbered
    <3>2. f[r] # << >>
      BY <2>2, <3>1, OwnType
    <3>3. r \in S
      BY <3>1, <3>2
    <3>4. Sent(f[r], Len(f[r])) \in C /\ Sent(f[r], Len(f[r])).left = f[r]
      BY <1>1, <3>3 DEF C
    <3> QED BY <2>2, <3>4
  <2> QED BY <2>1, <2>2 DEF Carried
<1> QED BY <1>6, <1>7 DEF C

\* The end of a refill: what is forming is sent.
LEMMA EndRefillPlaces ==
  ASSUME Placed, EndRefill
  PROVE  Placed' /\ \A i \in Indices : Advances(i)
<1>0. TypeOK
  BY DEF Placed
<1>1. /\ probing' = probing \cup {Sent(forming[r], Len(forming[r])) : r \in {s \in Remotes : forming[s] # << >>}}
      /\ forming' = [r \in Remotes |-> << >>]
      /\ phase' = "wait" /\ scan' = 0
      /\ UNCHANGED <<capacity, pending, ready, cacheVars, admissionVars, nextRemote, lastKind,
                     statuses, error, cancelled>>
  BY DEF EndRefill, Sent
<1>2. \A r \in Remotes : OwnList(forming[r], r) /\ ToSet(forming[r]) \cap Carried(probing) = {}
  <2>1. TAKE r \in Remotes
  <2>2. OwnList(forming[r], r) /\ \A i \in ToSet(forming[r]) : InForming(i) /\ i \in Indices
    BY ListsOf
  <2>3. \A i \in ToSet(forming[r]) : i \notin Carried(probing)
    BY <2>2 DEF Placed, Kept, Alone, InProbing
  <2> QED BY <2>2, <2>3
<1>3. Batches(probing) /\ Lined(queue)
  BY DEF Placed, Listed
<1>4. /\ Batches(probing')
      /\ \A i \in Indices : i \in Carried(probing') <=>
           i \in Carried(probing) \/ i \in ToSet(forming[RemoteOf(i)])
  BY <1>1, <1>2, <1>3, BatchStart
<1>5. forming' \in [Remotes -> Seq(Indices)] /\ \A r \in Remotes : forming'[r] = << >>
  BY <1>1
<1>6. TypeOK'
  <2>1. probing' \subseteq Batch
    BY <1>4 DEF Batches
  <2>2. 0 \in 0 .. Len(RemoteOrder) /\ "wait" \in Phases
    BY Ordering DEF Phases
  <2> QED BY <1>0, <1>1, <1>5, <2>1, <2>2 DEF TypeOK, cacheVars, admissionVars
<1>7. Listed'
  <2>1. ASSUME NEW s \in Remotes
        PROVE  OwnList(pending'[s], s) /\ OwnList(forming'[s], s) /\ OwnList(ready'[s], s)
    <3>1. OwnList(pending[s], s) /\ OwnList(ready[s], s)
      BY ListsOf
    <3> QED BY <1>1, <1>5, <3>1, OwnNone
  <2> QED BY <1>1, <1>3, <1>4, <2>1 DEF Listed, admissionVars
<1>8. ASSUME NEW i \in Indices PROVE Kept(i)' /\ Advances(i)
  <2>1. RemoteOf(i) \in Remotes /\ Kept(i)
    BY Numbered DEF Placed
  <2>2. ~InForming(i)'
    BY <1>5, <2>1, OwnNone DEF InForming
  <2>3. InProbing(i)' <=> InProbing(i) \/ InForming(i)
    BY <1>4 DEF InProbing, InForming
  <2>4. /\ InPending(i)' <=> InPending(i)
        /\ InWaiting(i)' <=> InWaiting(i)
        /\ InReady(i)' <=> InReady(i)
        /\ InUploading(i)' <=> InUploading(i)
    BY <1>1 DEF InPending, InWaiting, InReady, InUploading, cacheVars, admissionVars
  <2> QED BY <1>1, <2>1, <2>2, <2>3, <2>4 DEF Kept, Alone, Nowhere, Advances, Begun
<1> QED BY <1>6, <1>7, <1>8 DEF Placed

\* A failure takes what it reaches out of the queues, and nothing else.
Shed(i) ==
  /\ InPending(i)' => InPending(i) /\ (i < error' \/ error' = error)
  /\ InReady(i)' => InReady(i) /\ (i < error' \/ error' = error)
  /\ i < error' => (InPending(i) => InPending(i)') /\ (InReady(i) => InReady(i)')

Failed(i0) ==
  /\ error' \in 1 .. NoError /\ error' <= error /\ error' <= i0 /\ error' # NoError
  /\ pending' \in [Remotes -> Seq(Indices)] /\ ready' \in [Remotes -> Seq(Indices)]
  /\ \A r \in Remotes : OwnList(pending'[r], r) /\ OwnList(ready'[r], r)
  /\ \A i \in Indices : Shed(i)

\* RecordError moves the frontier to an earlier failure.
LEMMA ErrorRecorded ==
  ASSUME Placed, NEW i0 \in Indices, RecordError(i0)
  PROVE  Failed(i0)
<1>0. TypeOK
  BY DEF Placed
<1>1. /\ error \in 1 .. NoError /\ NoError \in Nat /\ i0 \in Nat /\ i0 < NoError /\ i0 >= 1
      /\ pending \in [Remotes -> Seq(Indices)] /\ ready \in [Remotes -> Seq(Indices)]
  BY <1>0, Numbered DEF TypeOK
<1>2. CASE i0 < error
  <2> DEFINE T == {j \in Indices : j < i0}
  <2>1. /\ error' = i0
        /\ pending' = [r \in Remotes |-> Keep(pending[r], T)]
        /\ ready' = [r \in Remotes |-> Keep(ready[r], T)]
    BY <1>2 DEF RecordError
  <2>0. \A i \in Indices : i \in T <=> i < i0
    OBVIOUS
  <2> HIDE DEF T
  <2>2. ASSUME NEW r \in Remotes
        PROVE  /\ OwnList(pending'[r], r) /\ ToSet(pending'[r]) = ToSet(pending[r]) \cap T
               /\ OwnList(ready'[r], r) /\ ToSet(ready'[r]) = ToSet(ready[r]) \cap T
               /\ pending'[r] \in Seq(Indices) /\ ready'[r] \in Seq(Indices)
    <3>1. OwnList(pending[r], r) /\ OwnList(ready[r], r)
      BY ListsOf
    <3>2. pending'[r] = Keep(pending[r], T) /\ ready'[r] = Keep(ready[r], T)
      BY <2>1
    <3>3. /\ OwnList(Keep(pending[r], T), r) /\ ToSet(Keep(pending[r], T)) = ToSet(pending[r]) \cap T
          /\ OwnList(Keep(ready[r], T), r) /\ ToSet(Keep(ready[r], T)) = ToSet(ready[r]) \cap T
      BY <3>1, OwnKeep
    <3> QED BY <3>2, <3>3, OwnType
  <2>3. pending' \in [Remotes -> Seq(Indices)] /\ ready' \in [Remotes -> Seq(Indices)]
    <3>1. \A r \in Remotes : Keep(pending[r], T) \in Seq(Indices) /\ Keep(ready[r], T) \in Seq(Indices)
      BY <2>1, <2>2
    <3> QED BY <2>1, <3>1
  <2>4. ASSUME NEW i \in Indices PROVE Shed(i)
    <3>1. RemoteOf(i) \in Remotes
      BY Numbered
    <3> QED BY <2>0, <2>1, <2>2, <3>1 DEF Shed, InPending, InReady
  <2>5. error' \in 1 .. NoError /\ error' <= error /\ error' <= i0 /\ error' # NoError
    BY <1>1, <1>2, <2>1
  <2> QED BY <2>2, <2>3, <2>4, <2>5 DEF Failed
<1>3. CASE ~(i0 < error)
  <2>1. UNCHANGED <<error, pending, ready>>
    BY <1>3 DEF RecordError
  <2>2. error' \in 1 .. NoError /\ error' <= error /\ error' <= i0 /\ error' # NoError
    BY <1>1, <1>3, <2>1
  <2>3. \A r \in Remotes : OwnList(pending'[r], r) /\ OwnList(ready'[r], r)
    BY <2>1, ListsOf
  <2>4. \A i \in Indices : Shed(i)
    BY <2>1 DEF Shed, InPending, InReady
  <2> QED BY <1>1, <2>1, <2>2, <2>3, <2>4 DEF Failed
<1> QED BY <1>2, <1>3

\* A completion: somebody answers while the coordinator waits or drains.
LEMMA DrainPhase ==
  ASSUME Draining
  PROVE  phase' = "drain" /\ "drain" \in Phases
BY DEF Draining, Phases

\* The obligation that is answered leaves its batch.
Taken(i0) ==
  /\ Batches(probing') /\ i0 \in Indices /\ InProbing(i0) /\ Kept(i0)
  /\ \A i \in Indices : InProbing(i)' <=> InProbing(i) /\ i # i0

\* Delivered answers the first obligation of a batch.
LEMMA Answered ==
  ASSUME Placed, NEW b \in probing, Delivered(b)
  PROVE  Taken(Head(b.left))
<1>1. Batches(probing)
  BY DEF Placed, Listed
<1>2. probing' = (probing \ {b}) \cup Rest(b)
  BY DEF Delivered, Rest
<1>3. /\ Batches(probing') /\ Carried(probing') = Carried(probing) \ {Head(b.left)}
      /\ Head(b.left) \in Carried(probing) /\ Head(b.left) \in Indices
  BY <1>1, <1>2, BatchDeliver
<1>4. Kept(Head(b.left))
  BY <1>3 DEF Placed
<1> QED BY <1>3, <1>4 DEF Taken, InProbing

\* The remote has it.
LEMMA ProbePresentPlaces ==
  ASSUME Placed, NEW b \in probing, ProbePresent(b)
  PROVE  Placed' /\ \A i \in Indices : Advances(i)
<1> DEFINE i0 == Head(b.left)
<1>1. TypeOK /\ Lined(queue) /\ Draining /\ Delivered(b)
  BY DEF Placed, ProbePresent, Listed
<1>2. Taken(i0)
  BY <1>1, Answered
<1>3. /\ statuses' = [i \in Indices |-> IF i = i0 THEN "present" ELSE statuses[i]]
      /\ UNCHANGED <<capacity, pending, forming, ready, cacheVars, admissionVars, robinVars,
                     error, cancelled>>
  BY DEF ProbePresent, Complete
<1> HIDE DEF i0
<1>4. TypeOK'
  <2>1. probing' \subseteq Batch
    BY <1>2 DEF Taken, Batches
  <2>2. statuses' \in [Indices -> Statuses \cup {None}]
    BY <1>1, <1>3 DEF TypeOK, Statuses
  <2> QED BY <1>1, <1>3, <2>1, <2>2, DrainPhase DEF TypeOK, cacheVars, admissionVars, robinVars
<1>5. Listed'
  BY <1>1, <1>2, <1>3 DEF Placed, Listed, Taken, admissionVars
<1>6. ASSUME NEW i \in Indices PROVE Kept(i)' /\ Advances(i)
  <2>1. Kept(i) /\ Kept(i0) /\ InProbing(i0) /\ (InProbing(i)' <=> InProbing(i) /\ i # i0)
    BY <1>2 DEF Placed, Taken
  <2>2. /\ InPending(i)' <=> InPending(i)
        /\ InForming(i)' <=> InForming(i)
        /\ InWaiting(i)' <=> InWaiting(i)
        /\ InReady(i)' <=> InReady(i)
        /\ InUploading(i)' <=> InUploading(i)
    BY <1>3 DEF InPending, InForming, InWaiting, InReady, InUploading, cacheVars, admissionVars
  <2>3. statuses'[i] = IF i = i0 THEN "present" ELSE statuses[i]
    BY <1>3
  <2> QED BY <1>3, <2>1, <2>2, <2>3, NoneAssumption DEF Kept, Alone, Nowhere, Advances, Begun
<1> QED BY <1>4, <1>5, <1>6 DEF Placed

\* It fails.
LEMMA ProbeFailsPlaces ==
  ASSUME Placed, NEW b \in probing, ProbeFails(b)
  PROVE  Placed' /\ Failed(Head(b.left)) /\ \A i \in Indices : Advances(i)
<1> DEFINE i0 == Head(b.left)
<1>1. TypeOK /\ Lined(queue) /\ Draining /\ Delivered(b)
  BY DEF Placed, ProbeFails, Listed
<1>2. Taken(i0)
  BY <1>1, Answered
<1>3. /\ RecordError(i0)
      /\ UNCHANGED <<capacity, forming, cacheVars, admissionVars, robinVars, statuses, cancelled>>
  BY DEF ProbeFails
<1> HIDE DEF i0
<1>4. Failed(i0)
  BY <1>2, <1>3, ErrorRecorded DEF Taken
<1>5. TypeOK'
  <2>1. probing' \subseteq Batch
    BY <1>2 DEF Taken, Batches
  <2> QED BY <1>1, <1>3, <1>4, <2>1, DrainPhase DEF TypeOK, Failed, cacheVars, admissionVars, robinVars
<1>6. Listed'
  <2>1. \A r \in Remotes : OwnList(forming'[r], r)
    BY <1>3 DEF Placed, Listed
  <2> QED BY <1>1, <1>2, <1>3, <1>4, <2>1 DEF Listed, Taken, Failed, admissionVars
<1>7. ASSUME NEW i \in Indices PROVE Kept(i)' /\ Advances(i)
  <2>1. Kept(i) /\ Kept(i0) /\ InProbing(i0) /\ (InProbing(i)' <=> InProbing(i) /\ i # i0)
    BY <1>2 DEF Placed, Taken
  <2>2. /\ InForming(i)' <=> InForming(i)
        /\ InWaiting(i)' <=> InWaiting(i)
        /\ InUploading(i)' <=> InUploading(i)
    BY <1>3 DEF InForming, InWaiting, InUploading, cacheVars, admissionVars
  <2>3. /\ InPending(i)' => InPending(i) /\ (i < error' \/ error' = error)
        /\ InReady(i)' => InReady(i) /\ (i < error' \/ error' = error)
        /\ i < error' => (InPending(i) => InPending(i)') /\ (InReady(i) => InReady(i)')
    BY <1>4 DEF Failed, Shed
  <2>4. i < error' => i < error /\ i # i0
    <3>1. i \in Nat /\ i0 \in Nat /\ error \in Nat /\ error' \in Nat /\ error' <= error /\ error' <= i0
      BY <1>1, <1>2, <1>4, Numbered DEF TypeOK, Failed, Taken
    <3> QED BY <3>1
  <2> QED BY <1>3, <2>1, <2>2, <2>3, <2>4 DEF Kept, Alone, Nowhere, Advances, Begun
<1> QED BY <1>4, <1>5, <1>6, <1>7 DEF Placed, i0

\* An upload succeeds.
LEMMA UploadSucceedsPlaces ==
  ASSUME Placed, NEW i0 \in uploading, UploadSucceeds(i0)
  PROVE  Placed' /\ \A i \in Indices : Advances(i)
<1>1. TypeOK /\ Lined(queue) /\ Draining
  BY DEF Placed, UploadSucceeds, Listed
<1>2. /\ statuses' = [i \in Indices |-> IF i = i0 THEN "uploaded" ELSE statuses[i]]
      /\ uploading' = uploading \ {i0}
      /\ UNCHANGED <<capacity, workVars, cacheVars, queue, robinVars, error, cancelled>>
  BY DEF UploadSucceeds, Complete
<1>3. i0 \in Indices /\ Kept(i0) /\ InUploading(i0)
  BY <1>1 DEF TypeOK, Placed, InUploading
<1>4. TypeOK'
  <2>1. statuses' \in [Indices -> Statuses \cup {None}]
    BY <1>1, <1>2 DEF TypeOK, Statuses
  <2>2. uploading' \subseteq Indices
    BY <1>1, <1>2 DEF TypeOK
  <2> QED BY <1>1, <1>2, <2>1, <2>2, DrainPhase DEF TypeOK, cacheVars, workVars, robinVars
<1>5. Listed'
  BY <1>2 DEF Placed, Listed, workVars
<1>6. ASSUME NEW i \in Indices PROVE Kept(i)' /\ Advances(i)
  <2>1. Kept(i) /\ (InUploading(i)' <=> InUploading(i) /\ i # i0)
    BY <1>2 DEF Placed, InUploading
  <2>2. /\ InPending(i)' <=> InPending(i)
        /\ InForming(i)' <=> InForming(i)
        /\ InProbing(i)' <=> InProbing(i)
        /\ InWaiting(i)' <=> InWaiting(i)
        /\ InReady(i)' <=> InReady(i)
    BY <1>2 DEF InPending, InForming, InProbing, InWaiting, InReady, cacheVars, workVars
  <2>3. statuses'[i] = IF i = i0 THEN "uploaded" ELSE statuses[i]
    BY <1>2
  <2> QED BY <1>2, <1>3, <2>1, <2>2, <2>3, NoneAssumption DEF Kept, Alone, Nowhere, Advances, Begun
<1> QED BY <1>4, <1>5, <1>6 DEF Placed

\* An upload fails.
LEMMA UploadFailsPlaces ==
  ASSUME Placed, NEW i0 \in uploading, UploadFails(i0)
  PROVE  Placed' /\ Failed(i0) /\ \A i \in Indices : Advances(i)
<1>1. TypeOK /\ Lined(queue) /\ Draining
  BY DEF Placed, UploadFails, Listed
<1>2. /\ RecordError(i0) /\ uploading' = uploading \ {i0}
      /\ UNCHANGED <<capacity, forming, probing, cacheVars, queue, robinVars, statuses, cancelled>>
  BY DEF UploadFails
<1>3. i0 \in Indices /\ Kept(i0) /\ InUploading(i0)
  BY <1>1 DEF TypeOK, Placed, InUploading
<1>4. Failed(i0)
  BY <1>2, <1>3, ErrorRecorded
<1>5. TypeOK'
  <2>1. uploading' \subseteq Indices
    BY <1>1, <1>2 DEF TypeOK
  <2> QED BY <1>1, <1>2, <1>4, <2>1, DrainPhase DEF TypeOK, Failed, cacheVars, robinVars
<1>6. Listed'
  <2>1. \A r \in Remotes : OwnList(forming'[r], r)
    BY <1>2 DEF Placed, Listed
  <2>2. Batches(probing')
    BY <1>2 DEF Placed, Listed
  <2> QED BY <1>1, <1>2, <1>4, <2>1, <2>2 DEF Listed, Failed
<1>7. ASSUME NEW i \in Indices PROVE Kept(i)' /\ Advances(i)
  <2>1. Kept(i) /\ (InUploading(i)' <=> InUploading(i) /\ i # i0)
    BY <1>2 DEF Placed, InUploading
  <2>2. /\ InForming(i)' <=> InForming(i)
        /\ InWaiting(i)' <=> InWaiting(i)
        /\ InProbing(i)' <=> InProbing(i)
    BY <1>2 DEF InForming, InWaiting, InProbing, cacheVars
  <2>3. /\ InPending(i)' => InPending(i) /\ (i < error' \/ error' = error)
        /\ InReady(i)' => InReady(i) /\ (i < error' \/ error' = error)
        /\ i < error' => (InPending(i) => InPending(i)') /\ (InReady(i) => InReady(i)')
    BY <1>4 DEF Failed, Shed
  <2>4. i < error' => i < error /\ i # i0
    <3>1. i \in Nat /\ i0 \in Nat /\ error \in Nat /\ error' \in Nat /\ error' <= error /\ error' <= i0
      BY <1>1, <1>3, <1>4, Numbered DEF TypeOK, Failed
    <3> QED BY <3>1
  <2> QED BY <1>2, <1>3, <2>1, <2>2, <2>3, <2>4 DEF Kept, Alone, Nowhere, Advances, Begun
<1> QED BY <1>4, <1>5, <1>6, <1>7 DEF Placed

\* A later failure leaves the verifications as they are.
LEMMA CheckedFails ==
  ASSUME Placed, Checked, NEW i0 \in Indices, Failed(i0), UNCHANGED cacheVars
  PROVE  Checked'
<1>1. error \in Nat /\ error' \in Nat /\ error' <= error /\ error' # NoError
  BY Numbered DEF Placed, TypeOK, Failed
<1>2. \A o \in Oids : \A i \in waiting[o] : i \in Nat /\ (i < error' => i < error)
  <2>1. TAKE o \in Oids
  <2>2. TAKE i \in waiting[o]
  <2>3. i \in Indices
    BY DEF Placed, TypeOK
  <2>4. i \in Nat
    BY <2>3, Numbered
  <2> QED BY <1>1, <2>4
<1> QED BY <1>1, <1>2 DEF Checked, Underway, cacheVars

\* What becomes ready is an upload of its remote, if it lies before the frontier.
LEMMA Enqueued ==
  ASSUME Placed, NEW i0 \in Indices, ~InReady(i0), Enqueue({i0})
  PROVE  /\ ready' \in [Remotes -> Seq(Indices)]
         /\ \A r \in Remotes : OwnList(ready'[r], r)
         /\ \A i \in Indices : InReady(i)' <=> InReady(i) \/ (i = i0 /\ i0 < error)
<1>1. ASSUME NEW r \in Remotes
      PROVE  /\ r = RemoteOf(i0) /\ i0 < error => ready'[r] = Append(ready[r], i0)
             /\ ~(r = RemoteOf(i0) /\ i0 < error) => ready'[r] = ready[r]
  <2> DEFINE mine == {i \in {i0} : RemoteOf(i) = r /\ i < error}
  <2>1. ready'[r] = IF mine = {} THEN ready[r] ELSE Append(ready[r], CHOOSE i \in mine : TRUE)
    BY DEF Enqueue
  <2>2. CASE r = RemoteOf(i0) /\ i0 < error
    <3>1. mine = {i0}
      BY <2>2
    <3>2. (CHOOSE i \in mine : TRUE) = i0 /\ mine # {}
      BY <3>1
    <3> QED BY <2>1, <2>2, <3>2
  <2>3. CASE ~(r = RemoteOf(i0) /\ i0 < error)
    <3>1. mine = {}
      BY <2>3
    <3> QED BY <2>1, <2>3, <3>1
  <2> QED BY <2>2, <2>3
<1>2. ASSUME NEW r \in Remotes
      PROVE  /\ OwnList(ready'[r], r) /\ ready'[r] \in Seq(Indices)
             /\ ToSet(ready'[r]) = IF r = RemoteOf(i0) /\ i0 < error THEN ToSet(ready[r]) \cup {i0}
                                   ELSE ToSet(ready[r])
  <2>1. OwnList(ready[r], r)
    BY ListsOf
  <2>2. CASE r = RemoteOf(i0) /\ i0 < error
    <3>1. i0 \in Owed(r) /\ i0 \notin ToSet(ready[r])
      BY <2>2 DEF Owed, InReady
    <3>2. OwnList(Append(ready[r], i0), r) /\ ToSet(Append(ready[r], i0)) = ToSet(ready[r]) \cup {i0}
      BY <2>1, <3>1, OwnAppend
    <3>3. ready'[r] = Append(ready[r], i0)
      BY <1>1, <2>2
    <3> QED BY <2>2, <3>2, <3>3, OwnType
  <2>3. CASE ~(r = RemoteOf(i0) /\ i0 < error)
    <3>1. ready'[r] = ready[r]
      BY <1>1, <2>3
    <3> QED BY <2>1, <2>3, <3>1, OwnType
  <2> QED BY <2>2, <2>3
<1>3. ready' \in [Remotes -> Seq(Indices)]
  <2>1. DOMAIN ready' = Remotes /\ ready' = [r \in Remotes |-> ready'[r]]
    BY DEF Enqueue
  <2> QED BY <1>2, <2>1
<1>4. ASSUME NEW i \in Indices PROVE InReady(i)' <=> InReady(i) \/ (i = i0 /\ i0 < error)
  <2>1. RemoteOf(i) \in Remotes
    BY Numbered
  <2>2. ToSet(ready'[RemoteOf(i)]) =
          IF RemoteOf(i) = RemoteOf(i0) /\ i0 < error THEN ToSet(ready[RemoteOf(i)]) \cup {i0}
          ELSE ToSet(ready[RemoteOf(i)])
    BY <1>2, <2>1
  <2> QED BY <2>2 DEF InReady
<1> QED BY <1>2, <1>3, <1>4

\* The verifications that are queued and that run, as lists.
LEMMA Verifications ==
  ASSUME TypeOK, Checked
  PROVE  /\ Lists(unverified, ToSet(unverified)) /\ Lists(batch, ToSet(batch))
         /\ ToSet(unverified) \subseteq Oids /\ ToSet(batch) \subseteq Oids
         /\ \A o \in Underway : o \in Oids /\ verified[o] = "running"
  <1>1. unverified \in Seq(Oids) /\ batch \in Seq(Oids) /\ IsInjective(unverified) /\ IsInjective(batch)
    BY DEF TypeOK, Checked
  <1>2. /\ Lists(unverified, ToSet(unverified)) /\ Lists(batch, ToSet(batch))
        /\ ToSet(unverified) \subseteq Oids /\ ToSet(batch) \subseteq Oids
    BY <1>1, ListsItself
  <1> QED BY <1>2 DEF Checked, Underway

\* An obligation joins the verification of its oid, or starts it.
Joins(i0) ==
  LET o == OidOf(i0) IN
  /\ verified[o] \in {None, "running"}
  /\ verified' = [verified EXCEPT ![o] = "running"]
  /\ waiting' = [waiting EXCEPT ![o] = @ \cup {i0}]
  /\ unverified' = IF verified[o] = None THEN Append(unverified, o) ELSE unverified
  /\ late' = IF o \in ToSet(unverified') \cup ToSet(batch) THEN late ELSE late \cup {i0}
  /\ UNCHANGED batch

\* Then its oid is being verified, or it came late.
LEMMA JoinsChecked ==
  ASSUME Located, NEW i0 \in Indices, Joins(i0), UNCHANGED error
  PROVE  /\ Checked'
         /\ verified' \in [Oids -> {None, "running", "valid", "missing", "corrupt"}]
         /\ waiting' \in [Oids -> SUBSET Indices] /\ unverified' \in Seq(Oids) /\ late' \subseteq Indices
         /\ \A i \in Indices : InWaiting(i)' <=> InWaiting(i) \/ i = i0
<1> DEFINE o0 == OidOf(i0)
<1>0. TypeOK /\ Checked
  BY DEF Located, Placed
<1>1. /\ o0 \in Oids
      /\ verified \in [Oids -> {None, "running", "valid", "missing", "corrupt"}]
      /\ waiting \in [Oids -> SUBSET Indices] /\ late \subseteq Indices
  BY <1>0, Numbered DEF TypeOK
<1>2. /\ verified[o0] \in {None, "running"}
      /\ verified' = [verified EXCEPT ![o0] = "running"]
      /\ waiting' = [waiting EXCEPT ![o0] = waiting[o0] \cup {i0}]
      /\ unverified' = IF verified[o0] = None THEN Append(unverified, o0) ELSE unverified
      /\ late' = IF o0 \in ToSet(unverified') \cup ToSet(batch) THEN late ELSE late \cup {i0}
      /\ batch' = batch /\ error' = error
  BY DEF Joins
<1>2a. OidOf(i0) = o0
  OBVIOUS
<1> HIDE DEF o0
<1>3. /\ Lists(unverified, ToSet(unverified)) /\ Lists(batch, ToSet(batch))
      /\ ToSet(unverified) \subseteq Oids /\ ToSet(batch) \subseteq Oids
      /\ \A o \in Underway : o \in Oids /\ verified[o] = "running"
  BY <1>0, Verifications
<1>4. /\ ToSet(unverified') = ToSet(unverified) \cup (IF verified[o0] = None THEN {o0} ELSE {})
      /\ Lists(unverified', ToSet(unverified'))
      /\ verified[o0] = None => o0 \notin Underway
  <2>1. CASE verified[o0] = None
    <3>1. o0 \notin Underway
      BY <1>3, <2>1, NoneAssumption
    <3>2. o0 \notin ToSet(unverified)
      BY <3>1 DEF Underway
    <3>3. Lists(Append(unverified, o0), ToSet(unverified) \cup {o0})
      BY <1>3, <3>2, ListsAppend
    <3>4. unverified' = Append(unverified, o0)
      BY <1>2, <2>1
    <3> QED BY <2>1, <3>1, <3>3, <3>4 DEF Lists
  <2>2. CASE verified[o0] # None
    BY <1>2, <1>3, <2>2
  <2> QED BY <2>1, <2>2
<1>5. /\ verified' \in [Oids -> {None, "running", "valid", "missing", "corrupt"}]
      /\ waiting' \in [Oids -> SUBSET Indices] /\ late' \subseteq Indices
  BY <1>1, <1>2
<1>6. unverified' \in Seq(Oids)
  <2>1. ToSet(unverified') \subseteq Oids
    BY <1>1, <1>3, <1>4
  <2> QED BY <1>4, <2>1, SeqMonotonic DEF Lists
<1>7. /\ verified'[o0] = "running" /\ waiting'[o0] = waiting[o0] \cup {i0}
      /\ \A o \in Oids : o # o0 => verified'[o] = verified[o] /\ waiting'[o] = waiting[o]
  BY <1>1, <1>2
<1>8. Underway' = Underway \cup (IF verified[o0] = None THEN {o0} ELSE {})
  BY <1>2, <1>4 DEF Underway
<1>9. Checked'
  <2>1. IsInjective(unverified') /\ IsInjective(batch')
    BY <1>2, <1>3, <1>4 DEF Lists
  <2>2. ToSet(unverified') \cap ToSet(batch') = {}
    BY <1>0, <1>2, <1>4 DEF Checked, Underway
  <2>3. \A o \in Underway' : verified'[o] = "running" /\ waiting'[o] # {}
    BY <1>0, <1>3, <1>7, <1>8 DEF Checked
  <2>4. \A o \in Oids : waiting'[o] # {} => verified'[o] = "running"
    BY <1>0, <1>7 DEF Checked
  <2>5. late \subseteq late' /\ (o0 \notin Underway' => i0 \in late')
    BY <1>2 DEF Underway
  <2>6. ASSUME NEW o \in Oids, NEW i \in waiting'[o]
        PROVE  OidOf(i) = o /\ (i < error' /\ o \notin Underway' => i \in late')
    <3>1. CASE i \in waiting[o]
      BY <1>0, <1>2, <1>8, <2>5, <3>1 DEF Checked
    <3>2. CASE i \notin waiting[o]
      <4>1. o = o0 /\ i = i0
        BY <1>7, <2>6, <3>2
      <4> QED BY <1>2a, <2>5, <4>1
    <3> QED BY <3>1, <3>2
  <2>7. ASSUME error' = NoError
        PROVE  late' = {} /\ \A o \in Oids : verified'[o] = "running" => o \in Underway'
    <3>1. late = {} /\ \A o \in Oids : verified[o] = "running" => o \in Underway
      BY <1>0, <1>2, <2>7 DEF Checked
    <3>2. o0 \in Underway'
      BY <1>1, <1>2, <1>8, <3>1
    <3>3. late' = late
      BY <1>2, <3>2 DEF Underway
    <3> QED BY <1>7, <1>8, <3>1, <3>2, <3>3
  <2> QED BY <2>1, <2>2, <2>3, <2>4, <2>6, <2>7 DEF Checked
<1>10. ASSUME NEW i \in Indices PROVE InWaiting(i)' <=> InWaiting(i) \/ i = i0
  <2>1. OidOf(i) \in Oids
    BY Numbered
  <2> QED BY <1>2a, <1>7, <2>1 DEF InWaiting
<1> QED BY <1>5, <1>6, <1>9, <1>10

\* The remote does not have it: it joins or starts the verification of its
\* oid, or takes what is known of the oid.
LEMMA ProbeAbsentLocated ==
  ASSUME Located, NEW b \in probing, ProbeAbsent(b)
  PROVE  Located' /\ \A i \in Indices : Advances(i)
<1> DEFINE i0 == Head(b.left)
           o0 == OidOf(i0)
<1>0. Placed /\ Checked
  BY DEF Located
<1>1. TypeOK /\ Lined(queue) /\ Draining /\ Delivered(b)
  BY <1>0 DEF Placed, ProbeAbsent, Listed
<1>2. Taken(i0)
  BY <1>0, <1>1, Answered
<1>3. UNCHANGED <<capacity, pending, forming, batch, admissionVars, robinVars, error, cancelled>>
  BY DEF ProbeAbsent
<1>4. \/ /\ Joins(i0) /\ UNCHANGED <<ready, statuses>>
      \/ /\ Enqueue({i0}) /\ UNCHANGED <<verified, waiting, unverified, late, statuses>>
      \/ /\ verified[o0] \in {"missing", "corrupt"}
         /\ Complete({i0}, verified[o0])
         /\ UNCHANGED <<verified, waiting, unverified, late, ready>>
  BY DEF ProbeAbsent, Joins
<1> HIDE DEF i0, o0
<1>5. i0 \in Indices /\ Kept(i0) /\ InProbing(i0) /\ probing' \subseteq Batch /\ Batches(probing')
  BY <1>2 DEF Taken, Batches
<1>6. ~InReady(i0)
  BY <1>5 DEF Kept, Alone
<1>7. \A i \in Indices :
        /\ Kept(i) /\ (InProbing(i)' <=> InProbing(i) /\ i # i0)
        /\ InPending(i)' <=> InPending(i)
        /\ InForming(i)' <=> InForming(i)
        /\ InUploading(i)' <=> InUploading(i)
  BY <1>0, <1>2, <1>3 DEF Placed, Taken, InPending, InForming, InUploading, admissionVars
<1>8. CASE Joins(i0) /\ UNCHANGED <<ready, statuses>>
  <2>1. /\ Checked'
        /\ verified' \in [Oids -> {None, "running", "valid", "missing", "corrupt"}]
        /\ waiting' \in [Oids -> SUBSET Indices] /\ unverified' \in Seq(Oids) /\ late' \subseteq Indices
        /\ \A i \in Indices : InWaiting(i)' <=> InWaiting(i) \/ i = i0
    BY <1>3, <1>5, <1>8, JoinsChecked
  <2>2. TypeOK'
    BY <1>1, <1>3, <1>5, <1>8, <2>1, DrainPhase DEF TypeOK, admissionVars, robinVars
  <2>3. Listed'
    BY <1>0, <1>1, <1>3, <1>5, <1>8 DEF Placed, Listed, admissionVars
  <2>4. ASSUME NEW i \in Indices PROVE Kept(i)' /\ Advances(i)
    <3>1. InReady(i)' <=> InReady(i)
      BY <1>8 DEF InReady
    <3> QED BY <1>3, <1>5, <1>7, <1>8, <2>1, <3>1 DEF Kept, Alone, Nowhere, Advances, Begun
  <2> QED BY <2>1, <2>2, <2>3, <2>4 DEF Located, Placed
<1>9. CASE Enqueue({i0}) /\ UNCHANGED <<verified, waiting, unverified, late, statuses>>
  <2>1. /\ ready' \in [Remotes -> Seq(Indices)]
        /\ \A r \in Remotes : OwnList(ready'[r], r)
        /\ \A i \in Indices : InReady(i)' <=> InReady(i) \/ (i = i0 /\ i0 < error)
    BY <1>0, <1>5, <1>6, <1>9, Enqueued
  <2>2. TypeOK'
    BY <1>1, <1>3, <1>5, <1>9, <2>1, DrainPhase DEF TypeOK, admissionVars, robinVars
  <2>3. Listed'
    BY <1>0, <1>1, <1>3, <1>5, <2>1 DEF Placed, Listed, admissionVars
  <2>4. ASSUME NEW i \in Indices PROVE Kept(i)' /\ Advances(i)
    <3>1. InWaiting(i)' <=> InWaiting(i)
      BY <1>9 DEF InWaiting
    <3> QED BY <1>3, <1>5, <1>7, <1>9, <2>1, <3>1 DEF Kept, Alone, Nowhere, Advances, Begun
  <2>5. Checked'
    BY <1>0, <1>3, <1>9, CheckedKeeps DEF cacheVars
  <2> QED BY <2>2, <2>3, <2>4, <2>5 DEF Located, Placed
<1>10. CASE /\ verified[o0] \in {"missing", "corrupt"}
            /\ Complete({i0}, verified[o0])
            /\ UNCHANGED <<verified, waiting, unverified, late, ready>>
  <2>1. /\ \A i \in Indices : statuses'[i] = IF i = i0 THEN verified[o0] ELSE statuses[i]
        /\ verified[o0] # None /\ statuses' \in [Indices -> Statuses \cup {None}]
    BY <1>1, <1>10, NoneAssumption DEF Complete, TypeOK, Statuses
  <2>2. TypeOK'
    BY <1>1, <1>3, <1>5, <1>10, <2>1, DrainPhase DEF TypeOK, admissionVars, robinVars
  <2>3. Listed'
    BY <1>0, <1>1, <1>3, <1>5, <1>10 DEF Placed, Listed, admissionVars
  <2>4. ASSUME NEW i \in Indices PROVE Kept(i)' /\ Advances(i)
    <3>1. (InWaiting(i)' <=> InWaiting(i)) /\ (InReady(i)' <=> InReady(i))
      BY <1>10 DEF InWaiting, InReady
    <3> QED BY <1>3, <1>5, <1>7, <2>1, <3>1 DEF Kept, Alone, Nowhere, Advances, Begun
  <2>5. Checked'
    BY <1>0, <1>3, <1>10, CheckedKeeps DEF cacheVars
  <2> QED BY <2>2, <2>3, <2>4, <2>5 DEF Located, Placed
<1> QED BY <1>4, <1>8, <1>9, <1>10

\* The obligations that wait for a verification of o, of remote r and before
\* the frontier; the oids that are found valid for some of them; and these, in
\* the order of the batch.
Sought(o, r) == {i \in waiting[o] : RemoteOf(i) = r /\ i < error}
Good(found, r) == {o \in ToSet(batch) : found[o] = "valid" /\ Sought(o, r) # {}}
Released(found, r) ==
  [k \in DOMAIN Keep(batch, Good(found, r)) |->
     CHOOSE i \in Sought(Keep(batch, Good(found, r))[k], r) : TRUE]

\* An obligation whose oid is found valid.
Freed(found, i) ==
  /\ OidOf(i) \in ToSet(batch) /\ found[OidOf(i)] = "valid"
  /\ i \in waiting[OidOf(i)] /\ i < error

\* Each of them is queued for its upload, once.
LEMMA ReleasedLists ==
  ASSUME TypeOK, Checked, NEW found, NEW r \in Remotes
  PROVE  OwnList(Released(found, r), r) /\
         ToSet(Released(found, r)) = {i \in Owed(r) : Freed(found, i)}
<1> DEFINE S == {i \in Owed(r) : Freed(found, i)}
           G == Good(found, r)
           v == Keep(batch, G)
           t == Released(found, r)
<1>1. Lists(batch, ToSet(batch)) /\ ToSet(batch) \subseteq Oids
  BY Verifications
<1>2. G \subseteq ToSet(batch) /\ ToSet(batch) \cap G = G
  BY DEF Good
<1>3. \A o \in G : o \in Oids /\ o \in ToSet(batch) /\ found[o] = "valid" /\ Sought(o, r) # {}
  BY <1>1 DEF Good
<1>4. \A o \in ToSet(batch) : found[o] = "valid" /\ Sought(o, r) # {} => o \in G
  BY DEF Good
<1> HIDE DEF G
<1>5. Lists(v, G)
  BY <1>1, <1>2, ListsKeep
<1>6. t = [k \in DOMAIN v |-> CHOOSE i \in Sought(v[k], r) : TRUE]
  BY DEF Released, G
<1> HIDE DEF v, t
<1>7. /\ Len(v) \in Nat /\ DOMAIN v = 1 .. Len(v)
      /\ \A k \in 1 .. Len(v) : v[k] \in G
      /\ \A o \in G : \E k \in 1 .. Len(v) : v[k] = o
      /\ \A k, l \in 1 .. Len(v) : v[k] = v[l] => k = l
  BY <1>5, ListsPlaces
<1>8. \A o \in Oids : \A i \in waiting[o] : OidOf(i) = o /\ i \in Indices
  BY DEF Checked, TypeOK
<1>9. ASSUME NEW k \in 1 .. Len(v)
      PROVE  /\ t[k] \in Sought(v[k], r) /\ t[k] \in S /\ OidOf(t[k]) = v[k]
             /\ t[k] \in Indices
  <2>1. t[k] = CHOOSE i \in Sought(v[k], r) : TRUE
    BY <1>6, <1>7
  <2>2. v[k] \in G /\ v[k] \in Oids
    BY <1>3, <1>7
  <2>3. t[k] \in Sought(v[k], r)
    BY <1>3, <2>1, <2>2
  <2>4. t[k] \in waiting[v[k]] /\ RemoteOf(t[k]) = r /\ t[k] < error
    BY <2>3 DEF Sought
  <2>5. OidOf(t[k]) = v[k] /\ t[k] \in Indices
    BY <1>8, <2>2, <2>4
  <2> QED BY <1>3, <2>2, <2>3, <2>4, <2>5 DEF Freed, Owed
<1>10. t \in Seq(Indices) /\ Len(t) = Len(v)
  <2>1. t = [k \in 1 .. Len(v) |-> t[k]]
    BY <1>6, <1>7
  <2>2. \A k \in 1 .. Len(v) : t[k] \in Indices
    BY <1>9
  <2>3. t \in [1 .. Len(v) -> Indices]
    BY <2>1, <2>2
  <2> QED BY <1>7, <2>3, IsASeq, LenProperties
<1>11. \A i \in S : \E k \in 1 .. Len(t) : t[k] = i
  <2>1. TAKE i \in S
  <2>2. i \in Indices /\ RemoteOf(i) = r /\ Freed(found, i) /\ OidOf(i) \in Oids
    BY Numbered DEF Owed
  <2> DEFINE o == OidOf(i)
  <2>3. i \in Sought(o, r) /\ o \in ToSet(batch) /\ found[o] = "valid"
    BY <2>2 DEF Freed, Sought
  <2>4. o \in G
    BY <1>4, <2>3
  <2>5. PICK k \in 1 .. Len(v) : v[k] = o
    BY <1>7, <2>4
  <2>6. t[k] \in Indices /\ OidOf(t[k]) = OidOf(i) /\ RemoteOf(t[k]) = RemoteOf(i)
    BY <1>9, <2>2, <2>5 DEF Owed
  <2>7. t[k] = i
    BY <2>2, <2>6, Numbered
  <2> QED BY <1>10, <2>7
<1>12. \A k, l \in 1 .. Len(t) : t[k] = t[l] => k = l
  <2>1. ASSUME NEW k \in 1 .. Len(t), NEW l \in 1 .. Len(t), t[k] = t[l] PROVE k = l
    <3>1. v[k] = v[l]
      BY <1>9, <1>10, <2>1
    <3> QED BY <1>7, <1>10, <3>1
  <2> QED BY <2>1
<1>13. Lists(t, S)
  <2>1. \A k \in 1 .. Len(t) : t[k] \in S
    BY <1>9, <1>10
  <2> HIDE DEF S
  <2> QED BY <1>10, <1>11, <1>12, <2>1, PlacesList
<1>14. OwnList(t, r) /\ ToSet(t) = S
  <2>1. S \subseteq Owed(r)
    OBVIOUS
  <2> HIDE DEF S
  <2> QED BY <1>13, <2>1, OwnLists
<1> QED BY <1>14 DEF t

\* A verification that succeeds lets its obligations go.
LEMMA VerifySucceedsLocated ==
  ASSUME Located, NEW found \in [ToSet(batch) -> {"valid", "missing", "corrupt"}],
         VerifySucceeds(found)
  PROVE  Located' /\ \A i \in Indices : Advances(i)
<1>0. TypeOK /\ Checked /\ Placed /\ Lined(queue) /\ Draining
  BY DEF Located, Placed, VerifySucceeds, Listed
<1>1. /\ ready' = [r \in Remotes |-> ready[r] \o Released(found, r)]
      /\ statuses' = [i \in Indices |->
           IF OidOf(i) \in {o \in ToSet(batch) : found[o] # "valid"} /\ i \in waiting[OidOf(i)]
           THEN found[OidOf(i)] ELSE statuses[i]]
  BY DEF VerifySucceeds, Released, Good, Sought
<1>2. /\ verified' = [o \in Oids |-> IF o \in ToSet(batch) THEN found[o] ELSE verified[o]]
      /\ waiting' = [o \in Oids |-> IF o \in ToSet(batch) THEN {} ELSE waiting[o]]
      /\ batch' = << >>
      /\ UNCHANGED <<capacity, pending, forming, probing, unverified, late, admissionVars,
                     robinVars, error, cancelled>>
  BY DEF VerifySucceeds
<1>3. ASSUME NEW r \in Remotes
      PROVE  /\ OwnList(ready'[r], r) /\ ready'[r] \in Seq(Indices)
             /\ ToSet(ready'[r]) = ToSet(ready[r]) \cup {i \in Owed(r) : Freed(found, i)}
  <2> DEFINE t == Released(found, r)
  <2>1. OwnList(t, r) /\ ToSet(t) = {i \in Owed(r) : Freed(found, i)}
    BY <1>0, ReleasedLists
  <2>2. OwnList(ready[r], r)
    BY <1>0, ListsOf
  <2>3. ToSet(ready[r]) \cap ToSet(t) = {}
    <3>1. ASSUME NEW i \in ToSet(ready[r]), i \in ToSet(t) PROVE FALSE
      <4>1. InReady(i) /\ Kept(i)
        BY <1>0, ListsOf DEF Placed
      <4>2. InWaiting(i)
        BY <2>1, <3>1 DEF Freed, InWaiting
      <4> QED BY <4>1, <4>2 DEF Kept, Alone
    <3> QED BY <3>1
  <2> HIDE DEF t
  <2>4. OwnList(ready[r] \o t, r) /\ ToSet(ready[r] \o t) = ToSet(ready[r]) \cup ToSet(t)
    BY <2>1, <2>2, <2>3, OwnConcat
  <2>5. ready'[r] = ready[r] \o t
    BY <1>1 DEF t
  <2> QED BY <2>1, <2>4, <2>5, OwnType
<1>4. ready' \in [Remotes -> Seq(Indices)]
  <2>1. DOMAIN ready' = Remotes /\ ready' = [r \in Remotes |-> ready'[r]]
    BY <1>1
  <2> QED BY <1>3, <2>1
<1>5. \A o \in Oids :
        /\ waiting'[o] = IF o \in ToSet(batch) THEN {} ELSE waiting[o]
        /\ verified'[o] = IF o \in ToSet(batch) THEN found[o] ELSE verified[o]
  BY <1>2
<1>6. \A o \in ToSet(batch) : found[o] \in {"valid", "missing", "corrupt"}
  OBVIOUS
<1>7. TypeOK'
  <2>1. verified' \in [Oids -> {None, "running", "valid", "missing", "corrupt"}]
    BY <1>0, <1>2, <1>6 DEF TypeOK
  <2>2. waiting' \in [Oids -> SUBSET Indices]
    BY <1>0, <1>2 DEF TypeOK
  <2>3. statuses' \in [Indices -> Statuses \cup {None}]
    <3>1. \A i \in Indices : OidOf(i) \in {o \in ToSet(batch) : found[o] # "valid"} =>
            found[OidOf(i)] \in Statuses
      BY <1>6 DEF Statuses
    <3> QED BY <1>0, <1>1, <3>1 DEF TypeOK
  <2>4. batch' \in Seq(Oids)
    BY <1>2, EmptySeq
  <2> QED BY <1>0, <1>2, <1>4, <2>1, <2>2, <2>3, <2>4, DrainPhase DEF TypeOK, admissionVars, robinVars
<1>8. Listed'
  BY <1>0, <1>2, <1>3 DEF Placed, Listed, admissionVars
<1>9. ASSUME NEW i \in Indices PROVE Kept(i)' /\ Advances(i)
  <2>1. RemoteOf(i) \in Remotes /\ OidOf(i) \in Oids /\ Kept(i)
    BY <1>0, Numbered DEF Placed
  <2>2. InReady(i)' <=> InReady(i) \/ Freed(found, i)
    BY <1>3, <2>1 DEF InReady, Owed
  <2>3. InWaiting(i)' <=> InWaiting(i) /\ OidOf(i) \notin ToSet(batch)
    BY <1>5, <2>1 DEF InWaiting
  <2>4. /\ InPending(i)' <=> InPending(i)
        /\ InForming(i)' <=> InForming(i)
        /\ InProbing(i)' <=> InProbing(i)
        /\ InUploading(i)' <=> InUploading(i)
    BY <1>2 DEF InPending, InForming, InProbing, InUploading, admissionVars
  <2>5. Freed(found, i) <=> /\ OidOf(i) \in ToSet(batch) /\ found[OidOf(i)] = "valid"
                            /\ InWaiting(i) /\ i < error
    BY DEF Freed, InWaiting
  <2>6. statuses'[i] = IF OidOf(i) \in ToSet(batch) /\ found[OidOf(i)] # "valid" /\ InWaiting(i)
                       THEN found[OidOf(i)] ELSE statuses[i]
    BY <1>1 DEF InWaiting
  <2>7. OidOf(i) \in ToSet(batch) => found[OidOf(i)] # None
    BY <1>6, NoneAssumption
  <2> QED BY <1>2, <2>1, <2>2, <2>3, <2>4, <2>5, <2>6, <2>7
       DEF Kept, Alone, Nowhere, Advances, Begun
<1>10. Checked'
  <2>1. ToSet(batch') = {} /\ IsInjective(batch') /\ IsInjective(unverified')
    BY <1>0, <1>2, ListsNone DEF Checked, Lists
  <2>2. Underway' = ToSet(unverified) /\ \A o \in ToSet(unverified) : o \notin ToSet(batch) /\ o \in Oids
    BY <1>0, <1>2, <2>1, Verifications DEF Underway, Checked
  <2>3. \A o \in Oids : o \in Underway <=> o \in Underway' \/ o \in ToSet(batch)
    BY <2>2 DEF Underway
  <2>4. \A o \in Underway' : verified'[o] = "running" /\ waiting'[o] # {}
    BY <1>0, <1>5, <2>2, <2>3 DEF Checked
  <2>5. \A o \in Oids : waiting'[o] # {} => verified'[o] = "running"
    BY <1>0, <1>5 DEF Checked
  <2>6. \A o \in Oids : \A i \in waiting'[o] :
          OidOf(i) = o /\ (i < error' /\ o \notin Underway' => i \in late')
    BY <1>0, <1>2, <1>5, <2>3 DEF Checked
  <2>7. ASSUME error' = NoError
        PROVE  late' = {} /\ \A o \in Oids : verified'[o] = "running" => o \in Underway'
    BY <1>0, <1>2, <1>5, <1>6, <2>3, <2>7 DEF Checked
  <2> QED BY <2>1, <2>4, <2>5, <2>6, <2>7 DEF Checked
<1> QED BY <1>7, <1>8, <1>9, <1>10 DEF Located, Placed

\* A verification that fails: the first obligation that waits for one of the
\* culprits fails, and what is needed before it is tried again.
LEMMA VerifyFailsLocated ==
  ASSUME Located, NEW culprits, culprits \subseteq ToSet(batch), culprits # {},
         VerifyFails(culprits)
  PROVE  Located' /\ error' # NoError /\ \A i \in Indices : Advances(i)
<1> DEFINE blamed == UNION {waiting[o] : o \in culprits}
           index == CHOOSE i \in blamed : \A j \in blamed : i <= j
           again == {o \in Oids : Needed(o, index)}
<1>0. TypeOK /\ Checked /\ Placed /\ Lined(queue) /\ Draining
  BY DEF Located, Placed, VerifyFails, Listed
<1>1. /\ RecordError(index) /\ unverified' = unverified \o Keep(batch, again)
      /\ batch' = << >>
      /\ UNCHANGED <<capacity, forming, probing, verified, waiting, late, admissionVars, robinVars,
                     statuses, cancelled>>
  BY DEF VerifyFails
<1>2. /\ Lists(unverified, ToSet(unverified)) /\ Lists(batch, ToSet(batch))
      /\ ToSet(unverified) \subseteq Oids /\ ToSet(batch) \subseteq Oids
  BY <1>0, Verifications
<1>3. index \in Indices
  <2>1. \A o \in culprits : o \in Oids /\ waiting[o] \subseteq Indices /\ waiting[o] # {}
    BY <1>0, <1>2 DEF TypeOK, Checked, Underway
  <2>2. blamed \subseteq Indices /\ blamed # {}
    BY <2>1
  <2>3. blamed \in SUBSET Nat
    BY <2>2, Numbered
  <2> HIDE DEF blamed
  <2>4. \E i \in blamed : \A j \in blamed : i <= j
    BY <2>2, <2>3, Least
  <2>5. index \in blamed
    BY <2>4
  <2> QED BY <2>2, <2>5
<1> HIDE DEF blamed, index
<1>4. Failed(index)
  BY <1>0, <1>1, <1>3, ErrorRecorded
<1>5. \A o \in Oids : o \in again <=> \E i \in waiting[o] : i < index
  BY DEF Needed
<1> HIDE DEF again
<1>6. /\ Lists(unverified', ToSet(unverified'))
      /\ ToSet(unverified') = ToSet(unverified) \cup (ToSet(batch) \cap again)
  <2> DEFINE t == Keep(batch, again)
             T == ToSet(batch) \cap again
  <2>1. Lists(t, T)
    BY <1>2, ListsKeep
  <2>2. ToSet(unverified) \cap T = {}
    BY <1>0 DEF Checked
  <2> HIDE DEF t, T
  <2>3. Lists(unverified \o t, ToSet(unverified) \cup T)
    BY <1>2, <2>1, <2>2, ListsConcat
  <2>4. unverified' = unverified \o t
    BY <1>1 DEF t
  <2> QED BY <2>3, <2>4 DEF Lists, T
<1>7. TypeOK'
  <2>1. ToSet(unverified') \subseteq Oids
    BY <1>2, <1>6
  <2>2. unverified' \in Seq(Oids)
    BY <1>6, <2>1, SeqMonotonic DEF Lists
  <2>3. batch' \in Seq(Oids)
    BY <1>1, EmptySeq
  <2> QED BY <1>0, <1>1, <1>4, <2>2, <2>3, DrainPhase DEF TypeOK, Failed, admissionVars, robinVars
<1>8. Listed'
  BY <1>0, <1>1, <1>4 DEF Placed, Listed, Failed, admissionVars
<1>9. error \in Nat /\ error' \in Nat /\ error' <= error /\ error' <= index /\ index \in Nat
      /\ error' # NoError
  BY <1>0, <1>3, <1>4, Numbered DEF TypeOK, Failed
<1>10. ASSUME NEW i \in Indices PROVE Kept(i)' /\ Advances(i)
  <2>1. Kept(i)
    BY <1>0 DEF Placed
  <2>2. /\ InForming(i)' <=> InForming(i)
        /\ InProbing(i)' <=> InProbing(i)
        /\ InWaiting(i)' <=> InWaiting(i)
        /\ InUploading(i)' <=> InUploading(i)
    BY <1>1 DEF InForming, InProbing, InWaiting, InUploading, admissionVars
  <2>3. /\ InPending(i)' => InPending(i) /\ (i < error' \/ error' = error)
        /\ InReady(i)' => InReady(i) /\ (i < error' \/ error' = error)
        /\ i < error' => (InPending(i) => InPending(i)') /\ (InReady(i) => InReady(i)')
    BY <1>4 DEF Failed, Shed
  <2>4. i < error' => i < error
    <3>1. i \in Nat
      BY Numbered
    <3> QED BY <1>9, <3>1
  <2> QED BY <1>1, <2>1, <2>2, <2>3, <2>4 DEF Kept, Alone, Nowhere, Advances, Begun
<1>11. Checked'
  <2>1. ToSet(batch') = {} /\ IsInjective(batch') /\ IsInjective(unverified')
    BY <1>1, <1>6, ListsNone DEF Lists
  <2>2. Underway' = ToSet(unverified) \cup (ToSet(batch) \cap again)
    BY <1>6, <2>1 DEF Underway
  <2>3. \A o \in Underway' : verified'[o] = "running" /\ waiting'[o] # {}
    BY <1>0, <1>1, <2>2 DEF Checked, Underway
  <2>4. \A o \in Oids : waiting'[o] # {} => verified'[o] = "running"
    BY <1>0, <1>1 DEF Checked
  <2>5. ASSUME NEW o \in Oids, NEW i \in waiting'[o]
        PROVE  OidOf(i) = o /\ (i < error' /\ o \notin Underway' => i \in late')
    <3>1. i \in waiting[o] /\ i \in Indices /\ i \in Nat
      BY <1>0, <1>1, <2>5, Numbered DEF TypeOK
    <3>2. OidOf(i) = o /\ (i < error /\ o \notin Underway => i \in late)
      BY <1>0, <3>1 DEF Checked
    <3>3. ASSUME i < error', o \notin Underway' PROVE o \notin Underway /\ i < error
      <4>1. i < index /\ i < error
        BY <1>9, <3>1, <3>3
      <4>2. o \in again
        BY <1>5, <3>1, <4>1
      <4> QED BY <2>2, <3>3, <4>1, <4>2 DEF Underway
    <3> QED BY <1>1, <3>2, <3>3
  <2> QED BY <1>9, <2>1, <2>2, <1>0, <2>3, <2>4, <2>5 DEF Checked
<1> QED BY <1>7, <1>8, <1>9, <1>10, <1>11 DEF Located, Placed

\* What is started is taken from the front of what is needed.
LEMMA VerificationStarted ==
  ASSUME Located, StartVerification
  PROVE  /\ Lists(unverified', ToSet(unverified')) /\ Lists(batch', ToSet(batch'))
         /\ ToSet(unverified') \cap ToSet(batch') = {} /\ Underway' \subseteq Underway
         /\ \A o \in Underway : o \in Underway' \/ (error # NoError /\ ~Needed(o, error))
         /\ ~cancelled /\ batch' = << >> => unverified' = << >>
<1>0. TypeOK /\ Checked
  BY DEF Located, Placed
<1>1. /\ Lists(unverified, ToSet(unverified)) /\ Lists(batch, ToSet(batch))
      /\ ToSet(unverified) \subseteq Oids /\ ToSet(unverified) \cap ToSet(batch) = {}
  BY <1>0, Verifications DEF Checked
<1>2. CASE batch # << >> \/ cancelled
  <2>1. unverified' = unverified /\ batch' = batch
    BY <1>2 DEF StartVerification
  <2> QED BY <1>1, <1>2, <2>1 DEF Underway
<1>3. CASE ~(batch # << >> \/ cancelled)
  <2> DEFINE needed == {o \in Oids : Needed(o, error)}
             kept == IF error = NoError THEN unverified ELSE Keep(unverified, needed)
             size == IF Len(kept) < BatchSize THEN Len(kept) ELSE BatchSize
             S == IF error = NoError THEN ToSet(unverified) ELSE ToSet(unverified) \cap needed
  <2>1. batch' = SubSeq(kept, 1, size) /\ unverified' = SubSeq(kept, size + 1, Len(kept))
    BY <1>3 DEF StartVerification
  <2>2. Lists(kept, S)
    <3>1. Lists(Keep(unverified, needed), ToSet(unverified) \cap needed)
      BY <1>1, ListsKeep
    <3> QED BY <1>1, <3>1
  <2>3. \A o \in ToSet(unverified) : o \in S \/ (error # NoError /\ ~Needed(o, error))
    BY <1>1
  <2>4. S \subseteq ToSet(unverified)
    OBVIOUS
  <2> HIDE DEF kept, S
  <2>5. Len(kept) \in Nat /\ BatchSize \in Nat \ {0}
    BY <2>2, ListsPlaces, BudgetAssumption
  <2>6. size \in 0 .. Len(kept) /\ (size = 0 => Len(kept) = 0)
    BY <2>5
  <2> HIDE DEF size
  <2> DEFINE a == SubSeq(kept, 1, size)
             b == SubSeq(kept, size + 1, Len(kept))
  <2>7. /\ Lists(a, ToSet(a)) /\ Lists(b, ToSet(b))
        /\ ToSet(a) \cup ToSet(b) = S /\ ToSet(a) \cap ToSet(b) = {}
        /\ a = << >> => size = 0
        /\ size = Len(kept) => b = << >>
    BY <2>2, <2>6, ListsSplit
  <2>8. batch' = a /\ unverified' = b
    BY <2>1
  <2> HIDE DEF a, b
  <2>9. ToSet(batch) = {}
    BY <1>3, OwnNone
  <2>10. Underway' = S /\ Underway = ToSet(unverified)
    BY <2>7, <2>8, <2>9 DEF Underway
  <2>11. batch' = << >> => unverified' = << >>
    BY <2>6, <2>7, <2>8
  <2> QED BY <2>3, <2>4, <2>7, <2>8, <2>10, <2>11
<1> QED BY <1>2, <1>3

\* What is no longer needed lies beyond the frontier.
LEMMA StartVerificationLocated ==
  ASSUME Located, StartVerification
  PROVE  Located' /\ \A i \in Indices : Advances(i)
<1>0. TypeOK /\ Checked /\ Placed /\ Lined(queue)
  BY DEF Located, Placed, Listed
<1>1. /\ Lists(unverified', ToSet(unverified')) /\ Lists(batch', ToSet(batch'))
      /\ ToSet(unverified') \cap ToSet(batch') = {} /\ Underway' \subseteq Underway
      /\ \A o \in Underway : o \in Underway' \/ (error # NoError /\ ~Needed(o, error))
  BY VerificationStarted
<1>2. /\ phase' = "refill" /\ scan' = 0
      /\ UNCHANGED <<capacity, workVars, verified, waiting, late, admissionVars, nextRemote,
                     lastKind, statuses, error, cancelled>>
  BY DEF StartVerification
<1>3. \A o \in Underway : o \in Oids /\ verified[o] = "running"
  BY <1>0, Verifications
<1>4. TypeOK'
  <2>1. ToSet(unverified') \subseteq Oids /\ ToSet(batch') \subseteq Oids
    BY <1>1, <1>3 DEF Underway
  <2>2. unverified' \in Seq(Oids) /\ batch' \in Seq(Oids)
    BY <1>1, <2>1, SeqMonotonic DEF Lists
  <2>3. 0 \in 0 .. Len(RemoteOrder) /\ "refill" \in Phases
    BY Ordering DEF Phases
  <2> QED BY <1>0, <1>2, <2>2, <2>3 DEF TypeOK, workVars, admissionVars
<1>5. Placed' /\ \A i \in Indices : Advances(i)
  BY <1>0, <1>2, <1>4, PlacesKeep DEF admissionVars
<1>6. Checked'
  <2>1. \A o \in Oids : \A i \in waiting'[o] :
          OidOf(i) = o /\ (i < error' /\ o \notin Underway' => i \in late')
    BY <1>0, <1>1, <1>2 DEF Checked, Needed
  <2>2. IsInjective(unverified') /\ IsInjective(batch')
    BY <1>1 DEF Lists
  <2> QED BY <1>0, <1>1, <1>2, <2>1, <2>2 DEF Checked
<1> QED BY <1>5, <1>6 DEF Located

\* At first every obligation is to be probed.
LEMMA InitLocated ==
  ASSUME Init
  PROVE  Located /\ Before
<1>1. /\ capacity \in Capacities /\ phase = "refill" /\ scan = 0
      /\ pending = [r \in Remotes |-> Keep([i \in Indices |-> i], {i \in Indices : RemoteOf(i) = r})]
      /\ forming = [r \in Remotes |-> << >>] /\ probing = {}
      /\ verified = [o \in Oids |-> None] /\ waiting = [o \in Oids |-> {}]
      /\ unverified = << >> /\ batch = << >>
      /\ ready = [r \in Remotes |-> << >>] /\ uploading = {} /\ queue = << >>
      /\ nextRemote = 0 /\ lastKind = [r \in Remotes |-> None]
      /\ statuses = [i \in Indices |-> None] /\ error = NoError
      /\ cancelled = FALSE /\ late = {}
  BY DEF Init
<1>2. ASSUME NEW r \in Remotes
      PROVE  /\ OwnList(pending[r], r) /\ ToSet(pending[r]) = Owed(r) /\ pending[r] \in Seq(Indices)
             /\ OwnList(forming[r], r) /\ ToSet(forming[r]) = {} /\ forming[r] \in Seq(Indices)
             /\ OwnList(ready[r], r) /\ ToSet(ready[r]) = {} /\ ready[r] \in Seq(Indices)
  <2> DEFINE s == [i \in Indices |-> i]
  <2>1. Counts(s) /\ Owed(r) \in SUBSET Indices
    BY DEF Counts, Owed
  <2>2. pending[r] = Keep(s, Owed(r)) /\ forming[r] = << >> /\ ready[r] = << >>
    BY <1>1 DEF Owed
  <2> HIDE DEF s
  <2>3. Lists(Keep(s, Owed(r)), Owed(r))
    BY <2>1, KeepNumbers
  <2>4. OwnList(pending[r], r) /\ ToSet(pending[r]) = Owed(r)
    BY <2>2, <2>3, OwnLists
  <2>5. OwnList(<< >>, r) /\ ToSet(<< >>) = {}
    BY OwnNone
  <2> QED BY <2>2, <2>4, <2>5, OwnType
<1>3. pending \in [Remotes -> Seq(Indices)] /\ forming \in [Remotes -> Seq(Indices)]
      /\ ready \in [Remotes -> Seq(Indices)]
  BY <1>1, <1>2
<1>4. Lined(queue)
  <2>1. << >> \in Seq(Waiters) /\ DOMAIN << >> = {}
    BY EmptySeq
  <2> QED BY <1>1, <2>1 DEF Lined
<1>5. Batches(probing) /\ Carried(probing) = {}
  BY <1>1 DEF Batches, Carried
<1>6. TypeOK
  <2>1. Len(RemoteOrder) \in Nat \ {0}
    BY Ordering
  <2>2. 0 \in 0 .. Len(RemoteOrder) - 1 /\ 0 \in 0 .. Len(RemoteOrder)
    BY <2>1
  <2>3. NoError \in 1 .. NoError
    BY Numbered DEF NoError
  <2>4. queue \in Seq(Waiters) /\ << >> \in Seq(Oids)
    BY <1>4, EmptySeq DEF Lined
  <2> QED BY <1>1, <1>3, <2>2, <2>3, <2>4 DEF TypeOK, Waiters, Phases
<1>7. Listed
  BY <1>2, <1>4, <1>5 DEF Listed
<1>8. ASSUME NEW i \in Indices PROVE Kept(i) /\ ~InReady(i) /\ i < error
  <2>1. RemoteOf(i) \in Remotes /\ OidOf(i) \in Oids /\ i < NoError
    BY Numbered
  <2>2. InPending(i) /\ ~InForming(i) /\ ~InReady(i)
    BY <1>2, <2>1 DEF InPending, InForming, InReady, Owed
  <2>3. ~InProbing(i) /\ ~InWaiting(i) /\ ~InUploading(i)
    BY <1>1, <1>5, <2>1 DEF InProbing, InWaiting, InUploading
  <2> QED BY <1>1, <2>1, <2>2, <2>3 DEF Kept, Alone, Nowhere
<1>9. Checked
  <2>1. ToSet(<< >>) = {} /\ IsInjective(<< >>)
    BY ListsNone DEF Lists
  <2>2. Underway = {}
    BY <1>1, <2>1 DEF Underway
  <2> QED BY <1>1, <2>1, <2>2, NoneAssumption DEF Checked
<1> QED BY <1>6, <1>7, <1>8, <1>9 DEF Located, Placed, Before

\* Every step keeps them located, and advances within the frontier.
LEMMA NextLocated ==
  ASSUME Located, [Next]_vars
  PROVE  Located' /\ \A i \in Indices : Advances(i)
<1>0. Placed /\ Checked /\ TypeOK
  BY DEF Located, Placed
<1>1. CASE AdmitProbe
  <2>1. UNCHANGED <<cacheVars, error>>
    BY <1>1 DEF AdmitProbe
  <2> QED BY <1>0, <1>1, <2>1, AdmitProbePlaces, CheckedKeeps DEF Located
<1>2. CASE AdmitUpload
  <2>1. UNCHANGED <<cacheVars, error>>
    BY <1>2 DEF AdmitUpload
  <2> QED BY <1>0, <1>2, <2>1, AdmitUploadPlaces, CheckedKeeps DEF Located
<1>3. CASE PassOver
  <2>1. UNCHANGED <<cacheVars, error>>
    BY <1>3 DEF PassOver
  <2> QED BY <1>0, <1>3, <2>1, PassOverPlaces, CheckedKeeps DEF Located
<1>4. CASE EndRefill
  <2>1. UNCHANGED <<cacheVars, error>>
    BY <1>4 DEF EndRefill
  <2> QED BY <1>0, <1>4, <2>1, EndRefillPlaces, CheckedKeeps DEF Located
<1>5. CASE Finish \/ Cancel \/ UNCHANGED vars
  <2>1. UNCHANGED <<cacheVars, error>>
    BY <1>5 DEF Finish, Cancel, vars
  <2> QED BY <1>0, <1>5, <2>1, OtherPlaces, CheckedKeeps DEF Located
<1>6. CASE StartVerification
  BY <1>6, StartVerificationLocated
<1>7. ASSUME NEW b \in probing, ProbePresent(b) PROVE Located' /\ \A i \in Indices : Advances(i)
  <2>1. UNCHANGED <<cacheVars, error>>
    BY <1>7 DEF ProbePresent
  <2> QED BY <1>0, <1>7, <2>1, ProbePresentPlaces, CheckedKeeps DEF Located
<1>8. ASSUME NEW b \in probing, ProbeAbsent(b) PROVE Located' /\ \A i \in Indices : Advances(i)
  BY <1>8, ProbeAbsentLocated
<1>9. ASSUME NEW b \in probing, ProbeFails(b) PROVE Located' /\ \A i \in Indices : Advances(i)
  <2>1. Delivered(b) /\ UNCHANGED cacheVars
    BY <1>9 DEF ProbeFails
  <2>2. Head(b.left) \in Indices
    BY <1>0, <2>1, Answered DEF Taken
  <2>3. Placed' /\ Failed(Head(b.left)) /\ \A i \in Indices : Advances(i)
    BY <1>0, <1>9, ProbeFailsPlaces
  <2> QED BY <1>0, <2>1, <2>2, <2>3, CheckedFails DEF Located
<1>10. ASSUME NEW i \in uploading, UploadSucceeds(i) PROVE Located' /\ \A j \in Indices : Advances(j)
  <2>1. UNCHANGED <<cacheVars, error>>
    BY <1>10 DEF UploadSucceeds
  <2> QED BY <1>0, <1>10, <2>1, UploadSucceedsPlaces, CheckedKeeps DEF Located
<1>11. ASSUME NEW i \in uploading, UploadFails(i) PROVE Located' /\ \A j \in Indices : Advances(j)
  <2>1. UNCHANGED cacheVars
    BY <1>11 DEF UploadFails
  <2>2. i \in Indices
    BY <1>0 DEF TypeOK
  <2>3. Placed' /\ Failed(i) /\ \A j \in Indices : Advances(j)
    BY <1>0, <1>11, UploadFailsPlaces
  <2> QED BY <1>0, <2>1, <2>2, <2>3, CheckedFails DEF Located
<1>12. ASSUME NEW found \in [ToSet(batch) -> {"valid", "missing", "corrupt"}], VerifySucceeds(found)
       PROVE  Located' /\ \A i \in Indices : Advances(i)
  BY <1>12, VerifySucceedsLocated
<1>13. ASSUME NEW culprits \in {{o} : o \in ToSet(batch)} \cup {ToSet(batch)}, VerifyFails(culprits)
       PROVE  Located' /\ \A i \in Indices : Advances(i)
  <2>1. ToSet(batch) # {}
    <3>1. batch # << >>
      BY <1>13 DEF VerifyFails
    <3>2. Lists(batch, ToSet(batch))
      BY <1>0, Verifications
    <3> QED BY <3>1, <3>2, ListsPlaces
  <2>2. culprits \subseteq ToSet(batch) /\ culprits # {}
    BY <2>1
  <2> QED BY <1>13, <2>2, VerifyFailsLocated
<1>14. CASE Answer
  BY <1>7, <1>8, <1>9, <1>10, <1>11, <1>12, <1>13, <1>14 DEF Answer
<1>15. CASE Returned
  BY <1>5, <1>15 DEF Returned
<1> QED BY <1>1, <1>2, <1>3, <1>4, <1>5, <1>6, <1>14, <1>15 DEF Next, Coordinate

\* Layer two: what is queued lies before the frontier.
LEMMA NextBefore ==
  ASSUME Located, Before, [Next]_vars
  PROVE  Before'
<1>1. \A i \in Indices : Advances(i)
  BY NextLocated
<1> QED BY <1>1 DEF Before, Advances

-----------------------------------------------------------------------------
(***************************************************************************)
(* What the first two layers say.                                          *)
(***************************************************************************)
\* Places names the places of an obligation.
LEMMA PlacesAre ==
  ASSUME NEW i \in Indices
  PROVE  /\ "pending" \in Places(i) <=> InPending(i)
         /\ "forming" \in Places(i) <=> InForming(i)
         /\ "probing" \in Places(i) <=> InProbing(i)
         /\ "waiting" \in Places(i) <=> InWaiting(i)
         /\ "ready" \in Places(i) <=> InReady(i)
         /\ "uploading" \in Places(i) <=> InUploading(i)
         /\ Places(i) \subseteq {"pending", "forming", "probing", "waiting", "ready", "uploading"}
<1>1. (\E b \in probing : i \in ToSet(b.left)) <=> InProbing(i)
  BY DEF InProbing, Carried
<1>2. /\ "pending" \in Places(i) <=> InPending(i)
      /\ "forming" \in Places(i) <=> InForming(i)
      /\ "waiting" \in Places(i) <=> InWaiting(i)
      /\ "ready" \in Places(i) <=> InReady(i)
      /\ "uploading" \in Places(i) <=> InUploading(i)
  BY DEF Places, InPending, InForming, InWaiting, InReady, InUploading
<1>3. "probing" \in Places(i) <=> InProbing(i)
  BY <1>1 DEF Places
<1>4. Places(i) \subseteq {"pending", "forming", "probing", "waiting", "ready", "uploading"}
  BY DEF Places
<1> QED BY <1>2, <1>3, <1>4

\* They are accounted for.
LEMMA LocatedAccounted ==
  ASSUME Located
  PROVE  Accounted
<1>1. ASSUME NEW i \in Indices
      PROVE  /\ Cardinality(Places(i)) <= 1
             /\ statuses[i] # None => Places(i) = {}
             /\ statuses[i] = None /\ i < error => Places(i) # {}
  <2>1. Kept(i)
    BY DEF Located, Placed
  <2>2. \A p, q \in Places(i) : p = q
    BY <2>1, PlacesAre DEF Kept, Alone
  <2>3. Nowhere(i) <=> Places(i) = {}
    BY PlacesAre DEF Nowhere
  <2>4. Cardinality(Places(i)) <= 1
    <3>1. CASE Places(i) = {}
      BY <3>1, FS_EmptySet
    <3>2. CASE Places(i) # {}
      <4>1. PICK p : p \in Places(i)
        BY <3>2
      <4>2. Places(i) = {p}
        BY <2>2, <4>1
      <4>3. Cardinality(Places(i)) = 1
        BY <4>2, FS_Singleton
      <4> QED BY <4>3
    <3> QED BY <3>1, <3>2
  <2> QED BY <2>1, <2>3, <2>4 DEF Kept
<1> QED BY <1>1 DEF Accounted

\* The first two layers are inductive.
LEMMA LocatedAlways == Spec => [](Located /\ Before)
<1>1. Init => Located /\ Before
  BY InitLocated
<1>2. Located /\ Before /\ [Next]_vars => (Located /\ Before)'
  BY NextLocated, NextBefore
<1> QED BY <1>1, <1>2, PTL DEF Spec

\* The state keeps its types, whatever the order of the answers.
THEOREM TypeCorrect == Spec => []TypeOK
<1>1. Located /\ Before => TypeOK
  BY DEF Located, Placed
<1> QED BY <1>1, LocatedAlways, PTL

\* Every obligation is accounted for, in batches that fail and are tried again
\* too.
THEOREM EveryObligationAccounted == Spec => []Accounted
<1>1. Located /\ Before => Accounted
  BY LocatedAccounted
<1> QED BY <1>1, LocatedAlways, PTL

\* Nothing beyond the frontier is begun.
THEOREM NothingBeyondBegun == Spec => FrontierHeld
<1>1. ASSUME Located, Before, [Next]_vars
      PROVE  [\A i \in Indices :
                error <= i /\ Places(i) \cap {"forming", "probing", "uploading"} = {} =>
                  Places(i)' \cap {"forming", "probing", "uploading"} = {}]_vars
  <2>1. \A i \in Indices : Advances(i)
    BY <1>1, NextLocated
  <2>2. ASSUME NEW i \in Indices, error <= i,
               Places(i) \cap {"forming", "probing", "uploading"} = {}
        PROVE  Places(i)' \cap {"forming", "probing", "uploading"} = {}
    <3>1. i \in Nat /\ error \in Nat
      BY <1>1, Numbered DEF Located, Placed, TypeOK
    <3>2. ~InPending(i) /\ ~InReady(i)
      BY <1>1, <2>2, <3>1 DEF Before
    <3>3. ~Begun(i)
      BY <2>2, PlacesAre DEF Begun
    <3>4. ~Begun(i)'
      BY <2>1, <3>2, <3>3 DEF Advances
    <3>5. /\ "forming" \in Places(i)' <=> InForming(i)'
          /\ "uploading" \in Places(i)' <=> InUploading(i)'
      BY DEF Places, InForming, InUploading
    <3>6. "probing" \in Places(i)' <=> InProbing(i)'
      <4>1. (\E b \in probing' : i \in ToSet(b.left)) <=> InProbing(i)'
        BY DEF InProbing, Carried
      <4> QED BY <4>1 DEF Places
    <3> QED BY <3>4, <3>5, <3>6 DEF Begun
  <2> QED BY <2>2
<1> QED BY <1>1, LocatedAlways, PTL DEF Spec, FrontierHeld

-----------------------------------------------------------------------------
(***************************************************************************)
(* Layer three: the budgets.                                               *)
(***************************************************************************)
\* One unit more at x is one more in all.
LEMMA SumBump ==
  ASSUME NEW f, NEW h, NEW S, IsFiniteSet(S), Costs(f, S), NEW x \in S,
         h[x] = f[x] + 1, \A y \in S : y # x => h[y] = f[y]
  PROVE  Sum(h, S) = Sum(f, S) + 1 /\ Sum(f, S) \in Nat
<1> DEFINE T == S \ {x}
<1>1. IsFiniteSet(T) /\ Costs(f, T) /\ Costs(h, S) /\ f[x] \in Nat
  BY FS_RemoveElement DEF Costs
<1>2. Sum(f, S) = f[x] + Sum(f, T) /\ Sum(h, S) = h[x] + Sum(h, T)
  BY <1>1, SumAny
<1>3. Sum(f, T) = Sum(h, T) /\ Sum(f, T) \in Nat
  <2>1. \A y \in T : f[y] = h[y]
    OBVIOUS
  <2> HIDE DEF T
  <2> QED BY <1>1, <2>1, SumSame
<1> HIDE DEF T
<1> QED BY <1>1, <1>2, <1>3

\* The permits of the batches of a remote.
Mine(B, r) == {b \in B : RemoteOf(b.left[1]) = r}
Permits(B, r) == Sum([b \in B |-> b.permits], Mine(B, r))

\* There are no more batches than obligations.
LEMMA BatchesFinite ==
  ASSUME NEW B, Batches(B)
  PROVE  IsFiniteSet(B)
<1> DEFINE f == [b \in B |-> Head(b.left)]
<1>1. \A b \in B : Head(b.left) \in ToSet(b.left) /\ Head(b.left) \in Indices
  <2>1. TAKE b \in B
  <2>2. b.left # << >> /\ OwnList(b.left, RemoteOf(b.left[1]))
    BY DEF Batches
  <2> QED BY <2>2, OwnTail
<1>2. f \in [B -> Indices] /\ \A b \in B : f[b] = Head(b.left)
  BY <1>1
<1> HIDE DEF f
<1>3. \A b, c \in B : f[b] = f[c] => b = c
  <2>1. \A b, c \in B : b # c => ToSet(b.left) \cap ToSet(c.left) = {}
    BY DEF Batches
  <2> QED BY <1>1, <1>2, <2>1
<1>4. f \in Injection(B, Indices)
  BY <1>2, <1>3 DEF Injection, IsInjective
<1>5. IsFiniteSet(Indices)
  BY Numbered, FS_Interval
<1> QED BY <1>4, <1>5, FS_Injection

\* They depend only on the batches of the remote.
LEMMA PermitsSame ==
  ASSUME NEW B, NEW C, IsFiniteSet(B), B \subseteq Batch, C \subseteq Batch,
         NEW r, Mine(C, r) = Mine(B, r)
  PROVE  Permits(C, r) = Permits(B, r) /\ Permits(B, r) \in Nat
<1> DEFINE f == [b \in B |-> b.permits]
           h == [b \in C |-> b.permits]
           S == Mine(B, r)
<1>1. IsFiniteSet(S)
  BY FS_Subset DEF Mine
<1>2. \A b \in S : b \in B /\ b \in C /\ b.permits \in Nat
  BY DEF Mine, Batch
<1>3. \A b \in S : f[b] = b.permits /\ h[b] = b.permits
  BY <1>2
<1>4. Permits(B, r) = Sum(f, S) /\ Permits(C, r) = Sum(h, S)
  BY DEF Permits
<1> HIDE DEF f, h, S
<1>5. Costs(f, S) /\ \A b \in S : f[b] = h[b]
  BY <1>2, <1>3 DEF Costs
<1>6. Sum(f, S) = Sum(h, S) /\ Sum(f, S) \in Nat
  BY <1>1, <1>5, SumSame
<1> QED BY <1>4, <1>6

\* One more batch takes its permits.
LEMMA PermitsAdd ==
  ASSUME NEW B, IsFiniteSet(B), B \subseteq Batch, NEW b \in Batch, b \notin B, NEW r
  PROVE  /\ Permits(B \cup {b}, r) =
              Permits(B, r) + (IF RemoteOf(b.left[1]) = r THEN b.permits ELSE 0)
         /\ Permits(B, r) \in Nat /\ b.permits \in Nat
<1> DEFINE C == B \cup {b}
           f == [c \in C |-> c.permits]
           S == Mine(B, r)
<1>0. IsFiniteSet(C) /\ C \subseteq Batch /\ b.permits \in Nat
  BY FS_AddElement DEF Batch
<1>1. CASE RemoteOf(b.left[1]) = r
  <2>1. Mine(C, r) = S \cup {b} /\ b \notin S
    BY <1>1 DEF Mine
  <2>2. IsFiniteSet(S)
    BY FS_Subset DEF Mine
  <2>3. Permits(C, r) = Sum(f, S \cup {b})
    BY <2>1 DEF Permits
  <2>4. Costs(f, S \cup {b}) /\ f[b] = b.permits
    BY <1>0 DEF Costs, Mine, Batch
  <2> DEFINE g == [c \in B |-> c.permits]
  <2>5. Costs(f, S) /\ \A c \in S : f[c] = g[c]
    BY <1>0 DEF Costs, Mine, Batch
  <2>6. Permits(B, r) = Sum(g, S)
    BY DEF Permits
  <2> HIDE DEF f, g, S
  <2>7. Sum(f, S) = Sum(g, S) /\ Sum(f, S) \in Nat
    BY <2>2, <2>5, SumSame
  <2>8. Sum(f, S \cup {b}) = Sum(f, S) + f[b]
    BY <2>1, <2>2, <2>4, SumAdd
  <2> QED BY <1>0, <1>1, <2>3, <2>4, <2>6, <2>7, <2>8
<1>2. CASE RemoteOf(b.left[1]) # r
  <2>1. Mine(C, r) = Mine(B, r)
    BY <1>2 DEF Mine
  <2> HIDE DEF C
  <2>2. Permits(C, r) = Permits(B, r) /\ Permits(B, r) \in Nat
    BY <1>0, <2>1, PermitsSame
  <2> QED BY <1>0, <1>2, <2>2 DEF C
<1> QED BY <1>1, <1>2

\* An answer returns permits, with the last one of a batch, and takes none.
LEMMA PermitsDeliver ==
  ASSUME NEW B, Batches(B), NEW b \in B, NEW r
  PROVE  /\ Permits((B \ {b}) \cup Rest(b), r) <= Permits(B, r)
         /\ Permits((B \ {b}) \cup Rest(b), r) \in Nat /\ Permits(B, r) \in Nat
<1> DEFINE D == B \ {b}
           c == [b EXCEPT !.left = Tail(@)]
<1>1. IsFiniteSet(B) /\ B \subseteq Batch
  BY BatchesFinite DEF Batches
<1>2. IsFiniteSet(D) /\ D \subseteq Batch /\ b \in Batch /\ b \notin D /\ D \cup {b} = B
  BY <1>1, FS_RemoveElement
<1> DEFINE n == IF RemoteOf(b.left[1]) = r THEN b.permits ELSE 0
<1>3. Permits(B, r) = Permits(D, r) + n /\ Permits(D, r) \in Nat /\ n \in Nat
  <2> HIDE DEF D
  <2>1. /\ Permits(D \cup {b}, r) = Permits(D, r) + (IF RemoteOf(b.left[1]) = r THEN b.permits ELSE 0)
        /\ Permits(D, r) \in Nat /\ b.permits \in Nat
    BY <1>2, PermitsAdd
  <2> QED BY <1>2, <2>1
<1>4. CASE Rest(b) = {}
  <2>1. (B \ {b}) \cup Rest(b) = D
    BY <1>4
  <2> HIDE DEF D, n
  <2> QED BY <1>3, <2>1
<1>5. CASE Rest(b) # {}
  <2>1. Rest(b) = {c} /\ c \notin B /\ RemoteOf(Tail(b.left)[1]) = RemoteOf(b.left[1])
    BY <1>5, BatchDeliver
  <2>2. c \in Batch /\ c.left = Tail(b.left) /\ c.permits = b.permits
    <3>1. Batches((B \ {b}) \cup Rest(b))
      BY BatchDeliver
    <3>2. c \in Batch
      BY <2>1, <3>1 DEF Batches
    <3> QED BY <1>2, <3>2 DEF Batch
  <2>3. (B \ {b}) \cup Rest(b) = D \cup {c} /\ c \notin D
    BY <2>1
  <2> HIDE DEF D, c
  <2>4. IsFiniteSet(D) /\ D \subseteq Batch /\ c \in Batch /\ c \notin D
    BY <1>2, <2>2, <2>3
  <2>5. Permits(D \cup {c}, r) = Permits(D, r) + (IF RemoteOf(c.left[1]) = r THEN c.permits ELSE 0)
    BY <2>4, PermitsAdd
  <2>6. Permits(D \cup {c}, r) = Permits(D, r) + n
    BY <2>1, <2>2, <2>5
  <2> HIDE DEF n
  <2> QED BY <1>3, <2>3, <2>6
<1> QED BY <1>4, <1>5

\* Probes counts what is forming and what is under way.
LEMMA ProbesAre ==
  ASSUME Placed, NEW r \in Remotes
  PROVE  /\ Probes(r) = Len(forming[r]) + Permits(probing, r)
         /\ Len(forming[r]) \in Nat /\ Permits(probing, r) \in Nat /\ Probes(r) \in Nat
<1>1. OwnList(forming[r], r) /\ Batches(probing)
  BY ListsOf
<1>2. IsFiniteSet(probing) /\ probing \subseteq Batch
  BY <1>1, BatchesFinite DEF Batches
<1>3. Permits(probing, r) \in Nat
  BY <1>2, PermitsSame
<1>4. Len(forming[r]) \in Nat
  BY <1>1, OwnType
<1>5. Probes(r) = Len(forming[r]) + Permits(probing, r)
  BY DEF Probes, Permits, Mine
<1> QED BY <1>3, <1>4, <1>5

\* The same of the next state.
LEMMA ProbesNext ==
  ASSUME Placed', NEW r \in Remotes
  PROVE  /\ Probes(r)' = Len(forming'[r]) + Permits(probing', r)
         /\ Len(forming'[r]) \in Nat /\ Permits(probing', r) \in Nat /\ Probes(r)' \in Nat
<1>1. OwnList(forming'[r], r) /\ Batches(probing')
  BY DEF Placed, Listed
<1>2. IsFiniteSet(probing') /\ probing' \subseteq Batch
  BY <1>1, BatchesFinite DEF Batches
<1>3. Permits(probing', r) \in Nat
  BY <1>2, PermitsSame
<1>4. Len(forming'[r]) \in Nat
  BY <1>1, OwnType
<1>5. Probes(r)' = Len(forming'[r]) + Permits(probing', r)
  BY DEF Probes, Permits, Mine
<1> QED BY <1>3, <1>4, <1>5

\* What each remote may use.
LEMMA PerRemoteNat ==
  ASSUME TypeOK
  PROVE  capacity \in Nat \ {0} /\ PerRemote \in Nat \ {0}
<1>1. capacity \in Nat \ {0}
  BY BudgetAssumption DEF TypeOK
<1>2. (capacity + 1) \div 2 \in Nat \ {0}
  BY <1>1
<1> QED BY <1>1, <1>2 DEF PerRemote

\* Where no remote has more probes the budget holds on.
LEMMA FewerProbes ==
  ASSUME Placed, Placed', ProbesHeld, capacity' = capacity,
         \A r \in Remotes : Probes(r)' <= Probes(r)
  PROVE  ProbesHeld'
<1> DEFINE f == [r \in Remotes |-> Probes(r)]
           g == [r \in Remotes |-> Probes(r)']
<1>1. \A r \in Remotes : Probes(r) \in Nat /\ Probes(r)' \in Nat
  BY ProbesAre, ProbesNext
<1>2. Within(g, f, Remotes) /\ Costs(f, Remotes) /\ Costs(g, Remotes)
  BY <1>1 DEF Within, Costs
<1>3. AllProbes = Sum(f, Remotes) /\ AllProbes' = Sum(g, Remotes)
  BY DEF AllProbes
<1> HIDE DEF f, g
<1>4. IsFiniteSet(Remotes)
  BY ObjectsAssumption
<1>5. AllProbes' <= AllProbes /\ AllProbes \in Nat /\ AllProbes' \in Nat
  BY <1>2, <1>3, <1>4, SumWithin, SumNat
<1>6. capacity \in Nat /\ PerRemote \in Nat /\ PerRemote' = PerRemote
  BY PerRemoteNat DEF Placed, PerRemote
<1>7. AllProbes' <= capacity'
  BY <1>5, <1>6 DEF ProbesHeld
<1>8. ASSUME NEW r \in Remotes PROVE Probes(r)' <= PerRemote'
  <2>1. Probes(r) <= PerRemote /\ Probes(r)' <= Probes(r) /\ Probes(r) \in Nat /\ Probes(r)' \in Nat
    BY <1>1 DEF ProbesHeld
  <2> QED BY <1>6, <2>1
<1> QED BY <1>7, <1>8 DEF ProbesHeld

\* Steps that touch no batch.
LEMMA SameProbes ==
  ASSUME Placed, Placed', ProbesHeld, UNCHANGED <<capacity, forming, probing>>
  PROVE  ProbesHeld'
<1>1. ASSUME NEW r \in Remotes PROVE Probes(r)' <= Probes(r)
  <2>1. /\ Probes(r)' = Len(forming[r]) + Permits(probing, r)
        /\ Probes(r) = Len(forming[r]) + Permits(probing, r) /\ Probes(r) \in Nat
    BY ProbesAre, ProbesNext
  <2> QED BY <2>1
<1> QED BY <1>1, FewerProbes

\* A permit for a probe.
LEMMA AdmitProbeHeld ==
  ASSUME Placed, AdmitProbe, ProbesHeld
  PROVE  ProbesHeld'
<1> DEFINE r == Visited
           i0 == Head(pending[r])
           entries == Append(forming[r], i0)
           full == Len(forming[r]) + 1 = ProbeLimit[r]
<1>0. TypeOK /\ Scanning /\ Placed'
  BY AdmitProbePlaces DEF Placed, AdmitProbe
<1>1. r \in Remotes
  BY <1>0, VisitedRemote
<1>2. /\ pending[r] # << >> /\ CanProbe(r)
      /\ forming' = [forming EXCEPT ![r] = IF full THEN << >> ELSE entries]
      /\ probing' = IF full THEN probing \cup {Sent(entries, Len(entries))} ELSE probing
      /\ capacity' = capacity
  BY DEF AdmitProbe, Sent
<1> HIDE DEF r
<1>3. OwnList(pending[r], r) /\ OwnList(forming[r], r) /\ Batches(probing)
  BY <1>1, ListsOf
<1>4. i0 \in ToSet(pending[r]) /\ i0 \in Indices /\ RemoteOf(i0) = r
  BY <1>2, <1>3, OwnTail
<1>5. i0 \notin ToSet(forming[r]) /\ i0 \notin Carried(probing) /\ i0 \in Owed(r)
  <2>1. InPending(i0) /\ Kept(i0)
    BY <1>4 DEF InPending, Placed
  <2> QED BY <1>4, <2>1 DEF Kept, Alone, InForming, InProbing, Owed
<1> HIDE DEF i0
<1>6. /\ OwnList(entries, r) /\ ToSet(entries) = ToSet(forming[r]) \cup {i0}
      /\ entries # << >> /\ Len(entries) = Len(forming[r]) + 1 /\ Len(entries) \in Nat
  <2>1. /\ OwnList(entries, r) /\ ToSet(entries) = ToSet(forming[r]) \cup {i0}
        /\ entries # << >> /\ Len(entries) = Len(forming[r]) + 1
    BY <1>3, <1>5, OwnAppend
  <2> HIDE DEF entries
  <2> QED BY <2>1, OwnType
<1>7. ToSet(entries) \cap Carried(probing) = {}
  <2>1. \A i \in ToSet(forming[r]) : i \notin Carried(probing)
    <3>1. TAKE i \in ToSet(forming[r])
    <3>2. InForming(i) /\ i \in Indices
      BY <1>1, ListsOf
    <3> QED BY <3>2 DEF Placed, Kept, Alone, InProbing
  <2> QED BY <1>5, <1>6, <2>1
<1>8. forming \in [Remotes -> Seq(Indices)] /\ IsFiniteSet(probing) /\ probing \subseteq Batch
  BY <1>0, <1>3, BatchesFinite DEF TypeOK, Batches
<1>9. /\ forming'[r] = IF full THEN << >> ELSE entries
      /\ \A s \in Remotes : s # r => forming'[s] = forming[s]
  BY <1>1, <1>2, <1>8
<1> HIDE DEF entries
<1>10. ASSUME NEW s \in Remotes
       PROVE  Probes(s)' = IF s = r THEN Probes(s) + 1 ELSE Probes(s)
  <2>1. /\ Probes(s)' = Len(forming'[s]) + Permits(probing', s)
        /\ Probes(s) = Len(forming[s]) + Permits(probing, s)
        /\ Len(forming[s]) \in Nat /\ Permits(probing, s) \in Nat
    BY <1>0, ProbesAre, ProbesNext
  <2>2. CASE full
    <3> DEFINE n == Len(entries)
               b == Sent(entries, n)
    <3>1. b \notin probing /\ RemoteOf(entries[1]) = r /\ Batches(probing \cup {b})
      <4> HIDE DEF n
      <4>1. n \in Nat
        BY <1>6 DEF n
      <4> QED BY <1>3, <1>6, <1>7, <4>1, BatchAdd
    <3>2. b \in Batch /\ b.left = entries /\ b.permits = n
      BY <3>1 DEF Batches, Sent
    <3>3. probing' = probing \cup {b} /\ n = Len(forming[r]) + 1
      BY <1>2, <1>6, <2>2
    <3> HIDE DEF b, n
    <3>4. Permits(probing', s) = Permits(probing, s) + (IF s = r THEN n ELSE 0)
      <4>1. Permits(probing \cup {b}, s) = Permits(probing, s) + (IF RemoteOf(b.left[1]) = s THEN b.permits ELSE 0)
        BY <1>8, <3>1, <3>2, PermitsAdd
      <4> QED BY <3>1, <3>2, <3>3, <4>1
    <3>5. CASE s = r
      <4>1. Len(forming'[s]) = 0
        BY <1>9, <2>2, <3>5, EmptySeq
      <4> QED BY <2>1, <3>3, <3>4, <3>5, <4>1
    <3>6. CASE s # r
      BY <1>9, <2>1, <3>4, <3>6
    <3> QED BY <3>5, <3>6
  <2>3. CASE ~full
    <3>1. probing' = probing
      BY <1>2, <2>3
    <3>2. CASE s = r
      <4>1. Len(forming'[s]) = Len(forming[s]) + 1
        BY <1>6, <1>9, <2>3, <3>2
      <4> QED BY <2>1, <3>1, <3>2, <4>1
    <3>3. CASE s # r
      BY <1>9, <2>1, <3>1, <3>3
    <3> QED BY <3>2, <3>3
  <2> QED BY <2>2, <2>3
<1>11. /\ Probes(r) < PerRemote /\ AllProbes < capacity
       /\ capacity \in Nat /\ PerRemote \in Nat /\ PerRemote' = PerRemote
  BY <1>0, <1>2, PerRemoteNat DEF CanProbe, PerRemote
<1>12. AllProbes' = AllProbes + 1 /\ AllProbes \in Nat
  <2> DEFINE f == [s \in Remotes |-> Probes(s)]
             g == [s \in Remotes |-> Probes(s)']
  <2>1. \A s \in Remotes : Probes(s) \in Nat
    BY ProbesAre
  <2>2. Costs(f, Remotes) /\ g[r] = f[r] + 1 /\ \A s \in Remotes : s # r => g[s] = f[s]
    BY <1>1, <1>10, <2>1 DEF Costs
  <2>3. AllProbes = Sum(f, Remotes) /\ AllProbes' = Sum(g, Remotes)
    BY DEF AllProbes
  <2>4. IsFiniteSet(Remotes)
    BY ObjectsAssumption
  <2> HIDE DEF f, g
  <2> QED BY <1>1, <2>2, <2>3, <2>4, SumBump
<1>13. AllProbes' <= capacity'
  BY <1>2, <1>11, <1>12
<1>14. ASSUME NEW s \in Remotes PROVE Probes(s)' <= PerRemote'
  <2>1. Probes(s) <= PerRemote /\ Probes(s) \in Nat
    BY ProbesAre DEF ProbesHeld
  <2> QED BY <1>10, <1>11, <2>1
<1> QED BY <1>13, <1>14 DEF ProbesHeld

\* What is forming keeps its permits when it is sent.
LEMMA EndRefillHeld ==
  ASSUME Placed, EndRefill, ProbesHeld
  PROVE  ProbesHeld'
<1> DEFINE S == {s \in Remotes : forming[s] # << >>}
           C == {Sent(forming[s], Len(forming[s])) : s \in S}
<1>1. /\ probing' = probing \cup C /\ forming' = [s \in Remotes |-> << >>] /\ capacity' = capacity
  BY DEF EndRefill, Sent
<1>2. Placed' /\ Batches(probing) /\ IsFiniteSet(probing) /\ probing \subseteq Batch
  BY EndRefillPlaces, BatchesFinite DEF Placed, Listed, Batches
<1>3. probing' \subseteq Batch
  BY <1>2 DEF Placed, TypeOK
<1>4. ASSUME NEW b \in C PROVE \E s \in S : b = Sent(forming[s], Len(forming[s])) /\ RemoteOf(b.left[1]) = s
  <2>1. PICK s \in S : b = Sent(forming[s], Len(forming[s]))
    OBVIOUS
  <2>2. OwnList(forming[s], s) /\ forming[s] # << >>
    BY ListsOf
  <2>3. RemoteOf(forming[s][1]) = s
    BY <2>2, OwnTail
  <2> QED BY <2>1, <2>3 DEF Sent
<1>5. ASSUME NEW r \in Remotes PROVE Probes(r)' <= Probes(r)
  <2>1. /\ Probes(r)' = Len(forming'[r]) + Permits(probing', r)
        /\ Probes(r) = Len(forming[r]) + Permits(probing, r)
        /\ Len(forming[r]) \in Nat /\ Permits(probing, r) \in Nat
    BY <1>2, ProbesAre, ProbesNext
  <2>2. Len(forming'[r]) = 0
    BY <1>1, EmptySeq
  <2> DEFINE b == Sent(forming[r], Len(forming[r]))
  <2>3. CASE forming[r] = << >>
    <3>1. Mine(probing', r) = Mine(probing, r)
      <4>1. \A c \in C : RemoteOf(c.left[1]) # r
        BY <1>4, <2>3
      <4> HIDE DEF C
      <4> QED BY <1>1, <4>1 DEF Mine
    <3>2. Permits(probing', r) = Permits(probing, r)
      BY <1>2, <1>3, <3>1, PermitsSame
    <3> QED BY <2>1, <2>2, <3>2
  <2>4. CASE forming[r] # << >>
    <3>1. b \in C /\ RemoteOf(b.left[1]) = r
      <4>1. r \in S
        BY <2>4
      <4>2. b \in C
        BY <4>1
      <4>3. OwnList(forming[r], r)
        BY ListsOf
      <4>4. RemoteOf(forming[r][1]) = r
        BY <2>4, <4>3, OwnTail
      <4> QED BY <4>2, <4>4 DEF Sent
    <3>2. \A c \in C : RemoteOf(c.left[1]) = r => c = b
      BY <1>4
    <3>3. b.left = forming[r] /\ b.permits = Len(forming[r])
      BY DEF Sent
    <3>4. b \notin probing /\ b \in Batch
      <4>1. OwnList(forming[r], r) /\ \A i \in ToSet(forming[r]) : InForming(i) /\ i \in Indices
        BY ListsOf
      <4>2. Head(forming[r]) \in ToSet(forming[r])
        BY <2>4, <4>1, OwnTail
      <4>3. Head(forming[r]) \in Indices /\ Head(forming[r]) \notin Carried(probing)
        BY <4>1, <4>2 DEF Placed, Kept, Alone, InProbing
      <4>4. b \notin probing
        BY <3>3, <4>2, <4>3 DEF Carried
      <4>5. b \in Batch
        BY <1>1, <1>3, <3>1
      <4> QED BY <4>4, <4>5
    <3>5. Mine(probing', r) = Mine(probing \cup {b}, r)
      <4> HIDE DEF C, b
      <4> QED BY <1>1, <3>1, <3>2 DEF Mine
    <3> HIDE DEF b
    <3>6. IsFiniteSet(probing \cup {b}) /\ probing \cup {b} \subseteq Batch
      BY <1>2, <3>4, FS_AddElement
    <3>7. Permits(probing', r) = Permits(probing \cup {b}, r)
      BY <1>3, <3>5, <3>6, PermitsSame
    <3>8. Permits(probing \cup {b}, r) = Permits(probing, r) + Len(forming[r])
      BY <1>2, <3>1, <3>3, <3>4, PermitsAdd
    <3> QED BY <2>1, <2>2, <3>7, <3>8
  <2> QED BY <2>3, <2>4
<1> QED BY <1>1, <1>2, <1>5, FewerProbes

\* An answer takes no permit.
LEMMA DeliveredHeld ==
  ASSUME Placed, Placed', ProbesHeld, NEW b \in probing, Delivered(b), UNCHANGED <<capacity, forming>>
  PROVE  ProbesHeld'
<1>1. ASSUME NEW r \in Remotes PROVE Probes(r)' <= Probes(r)
  <2>1. probing' = (probing \ {b}) \cup Rest(b) /\ Batches(probing)
    BY DEF Delivered, Rest, Placed, Listed
  <2>2. Permits(probing', r) <= Permits(probing, r)
    BY <2>1, PermitsDeliver
  <2>3. /\ Probes(r)' = Len(forming[r]) + Permits(probing', r)
        /\ Probes(r) = Len(forming[r]) + Permits(probing, r)
        /\ Len(forming[r]) \in Nat /\ Permits(probing, r) \in Nat /\ Permits(probing', r) \in Nat
    BY ProbesAre, ProbesNext
  <2> QED BY <2>2, <2>3
<1> QED BY <1>1, FewerProbes

\* Uploads have a number and a size.
LEMMA Uploaded ==
  ASSUME NEW S \in SUBSET Indices
  PROVE  /\ IsFiniteSet(S) /\ Costs(BytesOf, S)
         /\ Cardinality(S) \in Nat /\ Bytes(S) \in Nat
<1>1. IsFiniteSet(Indices)
  BY Numbered, FS_Interval
<1>2. IsFiniteSet(S) /\ Cardinality(S) \in Nat
  BY <1>1, FS_Subset, FS_CardinalityType
<1>3. Costs(BytesOf, S)
  BY UploadBytes DEF Costs
<1>4. Bytes(S) \in Nat
  BY <1>2, <1>3, SumNat DEF Bytes
<1> QED BY <1>2, <1>3, <1>4

\* One upload more.
LEMMA UploadedMore ==
  ASSUME NEW S \in SUBSET Indices, NEW i \in Indices
  PROVE  Cardinality(S \cup {i}) <= Cardinality(S) + 1 /\ Bytes(S \cup {i}) <= Bytes(S) + BytesOf[i]
<1>0. /\ IsFiniteSet(S) /\ Cardinality(S) \in Nat /\ Bytes(S) \in Nat
      /\ Costs(BytesOf, S \cup {i}) /\ BytesOf[i] \in Nat
  BY Uploaded, UploadBytes
<1>1. CASE i \in S
  <2>1. S \cup {i} = S
    BY <1>1
  <2>2. Cardinality(S \cup {i}) = Cardinality(S) /\ Bytes(S \cup {i}) = Bytes(S)
    BY <2>1
  <2> QED BY <1>0, <2>2
<1>2. CASE i \notin S
  <2>1. Cardinality(S \cup {i}) = Cardinality(S) + 1
    BY <1>0, <1>2, FS_AddElement
  <2>2. Bytes(S \cup {i}) = Bytes(S) + BytesOf[i]
    BY <1>0, <1>2, SumAdd DEF Bytes
  <2> QED BY <1>0, <2>1, <2>2
<1> QED BY <1>1, <1>2

\* One upload less.
LEMMA UploadedLess ==
  ASSUME NEW S \in SUBSET Indices, NEW i
  PROVE  Cardinality(S \ {i}) <= Cardinality(S) /\ Bytes(S \ {i}) <= Bytes(S)
<1>1. IsFiniteSet(S) /\ Costs(BytesOf, S)
  BY Uploaded
<1>2. Cardinality(S \ {i}) <= Cardinality(S)
  <2>1. S \ {i} \subseteq S
    OBVIOUS
  <2> QED BY <1>1, <2>1, FS_Subset
<1>3. Bytes(S \ {i}) <= Bytes(S)
  BY <1>1, SumPart DEF Bytes
<1> QED BY <1>2, <1>3

\* Who heads the line is one of those that are in it.
LEMMA KeepFirst ==
  ASSUME NEW R, NEW s \in Seq(R), NEW T, Keep(s, T) # << >>
  PROVE  Head(Keep(s, T)) \in T
<1> DEFINE q == Keep(s, T)
<1>1. q \in Seq(R) /\ \E e : Picks(s, T, Len(s), q, e)
  BY KeepPicks
<1> HIDE DEF q
<1>2. q # << >>
  BY DEF q
<1>3. 1 \in 1 .. Len(q) /\ Head(q) = q[1]
  BY <1>1, <1>2, EmptySeq, LenProperties
<1>4. q[1] \in T
  BY <1>1, <1>3 DEF Picks
<1> QED BY <1>3, <1>4 DEF q

\* What CanUpload has established of a remote and of its next upload.
Room(r, i) ==
  /\ Cardinality(Uploads(r)) < PerRemote /\ Bytes(Uploads(r)) + BytesOf[i] <= RemoteBytes
  /\ Cardinality(uploading) < capacity /\ Bytes(uploading) + BytesOf[i] <= GlobalBytes

LEMMA UploadRoom ==
  ASSUME Placed, NEW r \in Remotes, CanUpload(r)
  PROVE  /\ ready[r] # << >> /\ Head(ready[r]) \in Indices /\ RemoteOf(Head(ready[r])) = r
         /\ Room(r, Head(ready[r]))
<1> DEFINE i0 == Head(ready[r])
           n == BytesOf[i0]
           q == Queued(r, n)
           T == {w \in ToSet(q) : HasRoom(w)}
<1>1. /\ ready[r] # << >> /\ Keep(q, T) # << >> /\ Head(Keep(q, T)).remote = r
      /\ Cardinality(uploading) < capacity /\ Bytes(uploading) + n <= GlobalBytes
  BY DEF CanUpload
<1>2. i0 \in Indices /\ RemoteOf(i0) = r
  BY <1>1, ListsOf, OwnTail
<1>3. n \in Nat /\ Lined(queue)
  BY <1>2, UploadBytes DEF Placed, Listed
<1> HIDE DEF n
<1>4. Asks(q, queue, r, n)
  BY <1>3, QueuedOnce
<1>5. \A w \in T : w \in ToSet(q) /\ HasRoom(w)
  OBVIOUS
<1> HIDE DEF q, T
<1>6. Head(Keep(q, T)) \in T
  BY <1>1, <1>4, KeepFirst DEF Asks
<1>7. PICK w \in ToSet(q) : HasRoom(w) /\ w.remote = r
  BY <1>1, <1>5, <1>6
<1>8. w = [remote |-> r, bytes |-> n]
  BY <1>4, <1>7 DEF Asks
<1>9. Cardinality(Uploads(r)) < PerRemote /\ Bytes(Uploads(r)) + n <= RemoteBytes
  BY <1>7, <1>8 DEF HasRoom
<1> QED BY <1>1, <1>2, <1>9 DEF Room, n

\* A permit for an upload.
LEMMA AdmitUploadHeld ==
  ASSUME Placed, AdmitUpload, UploadsHeld
  PROVE  UploadsHeld'
<1> DEFINE r == Visited
           i0 == Head(ready[r])
<1>0. TypeOK /\ Scanning
  BY DEF Placed, AdmitUpload
<1>1. r \in Remotes
  BY <1>0, VisitedRemote
<1>2. CanUpload(r) /\ uploading' = uploading \cup {i0} /\ capacity' = capacity
  BY DEF AdmitUpload
<1> HIDE DEF r
<1>3. i0 \in Indices /\ RemoteOf(i0) = r /\ Room(r, i0)
  BY <1>1, <1>2, UploadRoom
<1> HIDE DEF i0
<1>4. uploading \in SUBSET Indices /\ \A s \in Remotes : Uploads(s) \in SUBSET Indices
  BY <1>0 DEF TypeOK, Uploads
<1>5. capacity \in Nat /\ PerRemote \in Nat /\ PerRemote' = PerRemote
      /\ RemoteBytes \in Nat /\ GlobalBytes \in Nat /\ BytesOf[i0] \in Nat
  BY <1>0, <1>2, <1>3, PerRemoteNat, BudgetAssumption, UploadBytes DEF PerRemote
<1>6. Cardinality(uploading') <= capacity' /\ Bytes(uploading') <= GlobalBytes
  <2>1. /\ Cardinality(uploading') <= Cardinality(uploading) + 1
        /\ Bytes(uploading') <= Bytes(uploading) + BytesOf[i0]
    BY <1>2, <1>3, <1>4, UploadedMore
  <2>2. Cardinality(uploading) \in Nat /\ Bytes(uploading) \in Nat
    BY <1>4, Uploaded
  <2>3. uploading' \in SUBSET Indices
    BY <1>2, <1>3, <1>4
  <2>4. Cardinality(uploading') \in Nat /\ Bytes(uploading') \in Nat
    BY <2>3, Uploaded
  <2> QED BY <1>2, <1>3, <1>5, <2>1, <2>2, <2>4 DEF Room
<1>7. ASSUME NEW s \in Remotes
      PROVE  Cardinality(Uploads(s)') <= PerRemote' /\ Bytes(Uploads(s)') <= RemoteBytes
  <2>1. CASE s = r
    <3>1. Uploads(s)' = Uploads(s) \cup {i0}
      BY <1>2, <1>3, <2>1 DEF Uploads
    <3>2. /\ Cardinality(Uploads(s)') <= Cardinality(Uploads(s)) + 1
          /\ Bytes(Uploads(s)') <= Bytes(Uploads(s)) + BytesOf[i0]
      BY <1>3, <1>4, <3>1, UploadedMore
    <3>3. Cardinality(Uploads(s)) \in Nat /\ Bytes(Uploads(s)) \in Nat
      BY <1>4, Uploaded
    <3>4. Uploads(s)' \in SUBSET Indices
      BY <1>3, <1>4, <3>1
    <3>5. Cardinality(Uploads(s)') \in Nat /\ Bytes(Uploads(s)') \in Nat
      BY <3>4, Uploaded
    <3> QED BY <1>3, <1>5, <2>1, <3>2, <3>3, <3>5 DEF Room
  <2>2. CASE s # r
    <3>1. Uploads(s)' = Uploads(s)
      BY <1>2, <1>3, <2>2 DEF Uploads
    <3> QED BY <1>5, <3>1 DEF UploadsHeld
  <2> QED BY <2>1, <2>2
<1> QED BY <1>6, <1>7 DEF UploadsHeld, Bytes

\* An upload that ends returns its permit.
LEMMA UploadEndsHeld ==
  ASSUME Placed, UploadsHeld, NEW i, uploading' = uploading \ {i}, capacity' = capacity
  PROVE  UploadsHeld'
<1>0. TypeOK
  BY DEF Placed
<1>1. uploading \in SUBSET Indices /\ \A s \in Remotes : Uploads(s) \in SUBSET Indices
  BY <1>0 DEF TypeOK, Uploads
<1>2. /\ capacity \in Nat /\ PerRemote \in Nat /\ PerRemote' = PerRemote
      /\ RemoteBytes \in Nat /\ GlobalBytes \in Nat
  BY <1>0, PerRemoteNat, BudgetAssumption DEF PerRemote
<1>3. ASSUME NEW S \in SUBSET Indices, NEW m \in Nat, NEW n \in Nat,
             Cardinality(S) <= m, Bytes(S) <= n
      PROVE  Cardinality(S \ {i}) <= m /\ Bytes(S \ {i}) <= n
  <2>1. Cardinality(S \ {i}) <= Cardinality(S) /\ Bytes(S \ {i}) <= Bytes(S)
    BY UploadedLess
  <2>2. S \ {i} \in SUBSET Indices
    OBVIOUS
  <2>3. /\ Cardinality(S) \in Nat /\ Bytes(S) \in Nat
        /\ Cardinality(S \ {i}) \in Nat /\ Bytes(S \ {i}) \in Nat
    BY <2>2, Uploaded
  <2> QED BY <1>3, <2>1, <2>3
<1>4. Cardinality(uploading') <= capacity' /\ Bytes(uploading') <= GlobalBytes
  BY <1>1, <1>2, <1>3 DEF UploadsHeld
<1>5. ASSUME NEW s \in Remotes
      PROVE  Cardinality(Uploads(s)') <= PerRemote' /\ Bytes(Uploads(s)') <= RemoteBytes
  <2>1. Uploads(s)' = Uploads(s) \ {i}
    BY DEF Uploads
  <2> QED BY <1>1, <1>2, <1>3, <2>1 DEF UploadsHeld
<1> QED BY <1>4, <1>5 DEF UploadsHeld, Bytes

\* Steps that neither begin nor end an upload.
LEMMA SameUploads ==
  ASSUME UploadsHeld, UNCHANGED <<capacity, uploading>>
  PROVE  UploadsHeld'
BY DEF UploadsHeld, Uploads, Bytes, PerRemote

\* Where no remote probes none do.
LEMMA NoProbes ==
  ASSUME \A r \in Remotes : Probes(r) = 0
  PROVE  AllProbes = 0
<1> DEFINE f == [r \in Remotes |-> Probes(r)]
           Fits == {n \in Nat : \A S \in SUBSET Remotes : Cardinality(S) = n => Sum(f, S) = 0}
<1>1. IsFiniteSet(Remotes) /\ \A r \in Remotes : f[r] = 0
  BY ObjectsAssumption
<1>2. AllProbes = Sum(f, Remotes)
  BY DEF AllProbes
<1> HIDE DEF f
<1>3. 0 \in Fits
  <2>1. ASSUME NEW S \in SUBSET Remotes, Cardinality(S) = 0 PROVE Sum(f, S) = 0
    <3>1. S = {}
      BY <1>1, <2>1, FS_Subset, FS_EmptySet
    <3> QED BY <3>1, FS_EmptySet, SumStep
  <2> QED BY <2>1
<1>4. ASSUME NEW n \in Nat, n \in Fits PROVE n + 1 \in Fits
  <2>1. ASSUME NEW S \in SUBSET Remotes, Cardinality(S) = n + 1 PROVE Sum(f, S) = 0
    <3>1. S # {} /\ IsFiniteSet(S)
      BY <1>1, <2>1, FS_Subset, FS_EmptySet
    <3> DEFINE x == CHOOSE x \in S : TRUE
               V == S \ {x}
    <3>2. x \in S /\ V \in SUBSET Remotes /\ Cardinality(V) = n
      BY <2>1, <3>1, Smaller
    <3>3. Sum(f, V) = 0 /\ f[x] = 0
      BY <1>1, <1>4, <3>2
    <3>4. Sum(f, S) = f[x] + Sum(f, V)
      BY <3>1, SumStep
    <3> QED BY <3>3, <3>4
  <2> QED BY <2>1
<1>5. Cardinality(Remotes) \in Fits
  <2>1. Cardinality(Remotes) \in Nat
    BY <1>1, FS_CardinalityType
  <2> HIDE DEF Fits
  <2> QED BY <1>3, <1>4, <2>1, Induction
<1> QED BY <1>2, <1>5

\* At first all permits are free.
LEMMA InitHeld ==
  ASSUME Init
  PROVE  ProbesHeld /\ UploadsHeld
<1>1. Placed /\ TypeOK
  BY InitLocated DEF Located, Placed
<1>2. forming = [r \in Remotes |-> << >>] /\ probing = {} /\ uploading = {}
  BY DEF Init
<1>3. capacity \in Nat /\ PerRemote \in Nat /\ RemoteBytes \in Nat /\ GlobalBytes \in Nat
  BY <1>1, PerRemoteNat, BudgetAssumption
<1>4. ASSUME NEW f PROVE Sum(f, {}) = 0
  BY FS_EmptySet, SumStep
<1>5. ASSUME NEW r \in Remotes PROVE Probes(r) = 0
  <2>1. Probes(r) = Len(forming[r]) + Permits(probing, r)
    BY <1>1, ProbesAre
  <2>2. Mine(probing, r) = {}
    BY <1>2 DEF Mine
  <2>3. Permits(probing, r) = 0
    BY <1>4, <2>2 DEF Permits
  <2>4. Len(forming[r]) = 0
    BY <1>2, EmptySeq
  <2> QED BY <2>1, <2>3, <2>4
<1>6. AllProbes = 0
  BY <1>5, NoProbes
<1>7. Cardinality(uploading) = 0 /\ Bytes(uploading) = 0
  BY <1>2, <1>4, FS_EmptySet DEF Bytes
<1>8. ASSUME NEW r \in Remotes PROVE Cardinality(Uploads(r)) = 0 /\ Bytes(Uploads(r)) = 0
  <2>1. Uploads(r) = {}
    BY <1>2 DEF Uploads
  <2> QED BY <1>4, <2>1, FS_EmptySet DEF Bytes
<1>9. ProbesHeld
  BY <1>3, <1>5, <1>6 DEF ProbesHeld
<1>10. UploadsHeld
  BY <1>3, <1>7, <1>8 DEF UploadsHeld
<1> QED BY <1>9, <1>10

\* Layer three is inductive.
LEMMA NextHeld ==
  ASSUME Located, Held, [Next]_vars
  PROVE  Held'
<1>0. Placed /\ Placed' /\ ProbesHeld /\ UploadsHeld
  BY NextLocated DEF Located, Held
<1>1. CASE AdmitProbe
  <2>1. UNCHANGED <<capacity, uploading>>
    BY <1>1 DEF AdmitProbe
  <2> QED BY <1>0, <1>1, <2>1, AdmitProbeHeld, SameUploads DEF Held
<1>2. CASE AdmitUpload
  <2>1. UNCHANGED <<capacity, forming, probing>>
    BY <1>2 DEF AdmitUpload
  <2> QED BY <1>0, <1>2, <2>1, AdmitUploadHeld, SameProbes DEF Held
<1>3. CASE EndRefill
  <2>1. UNCHANGED <<capacity, uploading>>
    BY <1>3 DEF EndRefill, admissionVars
  <2> QED BY <1>0, <1>3, <2>1, EndRefillHeld, SameUploads DEF Held
<1>4. CASE PassOver \/ StartVerification \/ Finish \/ Cancel \/ UNCHANGED vars
  <2>1. UNCHANGED <<capacity, forming, probing, uploading>>
    BY <1>4 DEF PassOver, StartVerification, Finish, Cancel, vars, workVars, admissionVars
  <2> QED BY <1>0, <2>1, SameProbes, SameUploads DEF Held
<1>5. ASSUME NEW b \in probing, ProbePresent(b) \/ ProbeAbsent(b) \/ ProbeFails(b)
      PROVE  Held'
  <2>1. Delivered(b) /\ UNCHANGED <<capacity, forming, uploading>>
    BY <1>5 DEF ProbePresent, ProbeAbsent, ProbeFails, admissionVars
  <2> QED BY <1>0, <2>1, DeliveredHeld, SameUploads DEF Held
<1>6. ASSUME NEW i \in uploading, UploadSucceeds(i) \/ UploadFails(i)
      PROVE  Held'
  <2>1. uploading' = uploading \ {i} /\ UNCHANGED <<capacity, forming, probing>>
    BY <1>6 DEF UploadSucceeds, UploadFails, workVars
  <2> QED BY <1>0, <2>1, UploadEndsHeld, SameProbes DEF Held
<1>7. ASSUME NEW found, VerifySucceeds(found)
      PROVE  Held'
  <2>1. UNCHANGED <<capacity, forming, probing, uploading>>
    BY <1>7 DEF VerifySucceeds, admissionVars
  <2> QED BY <1>0, <2>1, SameProbes, SameUploads DEF Held
<1>8. ASSUME NEW culprits, VerifyFails(culprits)
      PROVE  Held'
  <2>1. UNCHANGED <<capacity, forming, probing, uploading>>
    BY <1>8 DEF VerifyFails, admissionVars
  <2> QED BY <1>0, <2>1, SameProbes, SameUploads DEF Held
<1>9. CASE Answer
  BY <1>5, <1>6, <1>7, <1>8, <1>9 DEF Answer
<1> QED BY <1>1, <1>2, <1>3, <1>4, <1>9 DEF Next, Coordinate, Returned

\* The first three layers hold in every state.
LEMMA HeldAlways == Spec => [](Located /\ Before /\ Held)
<1>1. Init => Held
  BY InitHeld DEF Held
<1>2. Located /\ Held /\ [Next]_vars => Held'
  BY NextHeld
<1> QED BY <1>1, <1>2, LocatedAlways, PTL DEF Spec

\* No schedule of probes, batches and uploads exceeds a budget.
THEOREM BudgetsHeld == Spec => []LimitsHeld
<1>1. Held => LimitsHeld
  BY DEF Held, ProbesHeld, UploadsHeld, LimitsHeld
<1> QED BY <1>1, HeldAlways, PTL

-----------------------------------------------------------------------------
(***************************************************************************)
(* Layer four: the scans.                                                  *)
(***************************************************************************)
\* A scan passes the remotes in their order, and at its end all of them.
LEMMA PassedSome ==
  ASSUME TypeOK
  PROVE  /\ Passed \subseteq Ordered /\ Ordered \subseteq Remotes
         /\ scan = 0 => Passed = {}
         /\ scan = Len(RemoteOrder) => Passed = Ordered
<1> DEFINE L == Len(RemoteOrder)
           At(k) == RemoteOrder[((nextRemote + k) % L) + 1]
<1>1. L \in Nat \ {0} /\ \A k \in 1 .. L : RemoteOrder[k] \in Remotes
  BY Ordering
<1>2. nextRemote \in 0 .. L - 1 /\ scan \in 0 .. L
  BY DEF TypeOK
<1>3. Passed = {At(k) : k \in 0 .. scan - 1} /\ Ordered = {RemoteOrder[k] : k \in 1 .. L}
  BY DEF Passed, Ordered
<1> HIDE DEF L
<1>4. \A k \in 0 .. L - 1 : ((nextRemote + k) % L) + 1 \in 1 .. L
  <2>1. TAKE k \in 0 .. L - 1
  <2>2. nextRemote + k \in Nat /\ nextRemote + k < 2 * L
    BY <1>1, <1>2
  <2>3. (nextRemote + k) % L \in 0 .. L - 1
    BY <1>1, <2>2, Wraps
  <2> QED BY <1>1, <2>3
<1>5. Passed \subseteq Ordered
  <2>1. \A k \in 0 .. scan - 1 : k \in 0 .. L - 1
    BY <1>1, <1>2
  <2> QED BY <1>3, <1>4, <2>1
<1>6. scan = 0 => Passed = {}
  <2>1. 0 .. 0 - 1 = {}
    OBVIOUS
  <2> QED BY <1>3, <2>1
<1>7. ASSUME scan = L PROVE Ordered \subseteq Passed
  <2>1. ASSUME NEW k \in 1 .. L PROVE \E j \in 0 .. L - 1 : ((nextRemote + j) % L) + 1 = k
    <3>0. k \in Nat /\ k >= 1 /\ k <= L /\ nextRemote \in Nat /\ nextRemote < L /\ L \in Nat
      BY <1>1, <1>2
    <3>1. CASE nextRemote < k
      <4> DEFINE j == k - 1 - nextRemote
                 x == k - 1
      <4>1. j \in 0 .. L - 1 /\ nextRemote + j = x /\ x \in Nat /\ x < L /\ x < 2 * L /\ x = k - 1
        BY <3>0, <3>1
      <4> HIDE DEF x
      <4>2. x % L = k - 1
        BY <1>1, <4>1, Wraps
      <4>3. (nextRemote + j) % L = k - 1
        BY <4>1, <4>2
      <4>4. j \in 0 .. L - 1
        BY <4>1
      <4> HIDE DEF j
      <4> QED BY <3>0, <4>3, <4>4
    <3>2. CASE ~(nextRemote < k)
      <4> DEFINE j == k - 1 - nextRemote + L
                 x == k - 1 + L
      <4>1. /\ j \in 0 .. L - 1 /\ nextRemote + j = x /\ x \in Nat /\ ~(x < L) /\ x < 2 * L
            /\ x - L = k - 1
        BY <3>0, <3>2
      <4> HIDE DEF x
      <4>2. x % L = k - 1
        BY <1>1, <4>1, Wraps
      <4>3. (nextRemote + j) % L = k - 1
        BY <4>1, <4>2
      <4>4. j \in 0 .. L - 1
        BY <4>1
      <4> HIDE DEF j
      <4> QED BY <3>0, <4>3, <4>4
    <3> QED BY <3>1, <3>2
  <2> QED BY <1>3, <1>7, <2>1
<1>8. Ordered \subseteq Remotes
  BY <1>1, <1>3
<1> QED BY <1>5, <1>6, <1>7, <1>8 DEF L

\* The visited remote is one of the order.
LEMMA VisitedOrdered ==
  ASSUME TypeOK, Scanning
  PROVE  Visited \in Ordered /\ Visited \in Remotes
<1>1. Position \in 0 .. Len(RemoteOrder) - 1 /\ Len(RemoteOrder) \in Nat /\ Visited \in Remotes
  BY VisitedRemote, Ordering
<1>2. Position + 1 \in 1 .. Len(RemoteOrder)
  BY <1>1
<1> QED BY <1>1, <1>2 DEF Visited, Ordered

\* One step of a scan.
LEMMA PassedNext ==
  ASSUME TypeOK, Scanning, nextRemote' = nextRemote, scan' = scan + 1
  PROVE  Passed' = Passed \cup {Visited}
<1> DEFINE L == Len(RemoteOrder)
           At(k) == RemoteOrder[((nextRemote + k) % L) + 1]
<1>1. scan \in Nat
  BY VisitedRemote
<1>2. 0 .. (scan + 1) - 1 = (0 .. scan - 1) \cup {scan}
  BY <1>1
<1>3. Passed = {At(k) : k \in 0 .. scan - 1} /\ Passed' = {At(k) : k \in 0 .. (scan + 1) - 1}
  BY DEF Passed
<1>4. Visited = At(scan)
  BY DEF Visited, Position
<1> HIDE DEF At
<1> QED BY <1>2, <1>3, <1>4

\* The other remotes are owed nothing.
LEMMA OrderedOnly ==
  ASSUME Placed, NEW r \in Remotes, r \notin Ordered
  PROVE  pending[r] = << >> /\ ready[r] = << >>
<1>1. \A i \in Indices : RemoteOf(i) # r
  BY Ordering DEF Ordered
<1>2. OwnList(pending[r], r) /\ OwnList(ready[r], r)
  BY ListsOf
<1>3. ToSet(pending[r]) = {} /\ ToSet(ready[r]) = {}
  BY <1>1, <1>2, OwnType
<1> QED BY <1>2, <1>3, OwnType

\* Who waits rightly asks for no more than a remote may have.
LEMMA RightBytes ==
  ASSUME Placed, NEW w, Right(w), w.remote \in Remotes
  PROVE  w.bytes \in Nat /\ w.bytes <= RemoteBytes
<1>1. Head(ready[w.remote]) \in Indices
  BY ListsOf, OwnTail DEF Right
<1> QED BY <1>1, UploadBytes DEF Right

\* While nothing is uploaded whoever is first in line gets the permit.
LEMMA FirstGranted ==
  ASSUME Placed, NEW r \in Remotes, ready[r] # << >>, ~CanUpload(r),
         uploading = {}, \A w \in ToSet(queue) : Right(w)
  PROVE  queue # << >> /\ Head(queue).remote # r
<1> DEFINE i0 == Head(ready[r])
           n == BytesOf[i0]
           q == Queued(r, n)
           T == {w \in ToSet(q) : HasRoom(w)}
<1>0. TypeOK /\ Lined(queue) /\ queue \in Seq(Waiters)
  BY DEF Placed, Listed, Lined
<1>1. i0 \in Indices
  BY ListsOf, OwnTail
<1>2. n \in Nat /\ n <= RemoteBytes
  BY <1>1, UploadBytes
<1>3. ~(/\ Keep(q, T) # << >> /\ Head(Keep(q, T)).remote = r
        /\ Cardinality(uploading) < capacity /\ Bytes(uploading) + n <= GlobalBytes)
  BY DEF CanUpload
<1> HIDE DEF n
<1>4. Asks(q, queue, r, n)
  BY <1>0, <1>2, QueuedOnce
<1>5. /\ capacity \in Nat \ {0} /\ PerRemote \in Nat \ {0}
      /\ RemoteBytes \in Nat /\ GlobalBytes \in Nat /\ RemoteBytes <= GlobalBytes
  BY <1>0, PerRemoteNat, BudgetAssumption
<1>6. Bytes({}) = 0 /\ Cardinality({}) = 0
  BY FS_EmptySet, SumStep DEF Bytes
<1>7. ASSUME NEW w \in ToSet(q) PROVE HasRoom(w)
  <2>1. w.bytes \in Nat /\ w.bytes <= RemoteBytes
    <3>1. CASE w \in ToSet(queue)
      <4>1. w.remote \in Remotes
        <5>1. ToSet(queue) \subseteq Waiters
          BY <1>0, ListsItself
        <5> QED BY <3>1, <5>1 DEF Waiters
      <4> QED BY <3>1, <4>1, RightBytes
    <3>2. CASE w = [remote |-> r, bytes |-> n]
      BY <1>2, <3>2
    <3> QED BY <1>4, <3>1, <3>2 DEF Asks
  <2>2. Uploads(w.remote) = {}
    BY DEF Uploads
  <2> QED BY <1>5, <1>6, <2>1, <2>2 DEF HasRoom
<1>8. q \in Seq(Waiters) /\ q # << >> /\ Head(q) \in ToSet(q)
  <2> HIDE DEF q
  <2>1. q \in Seq(Waiters) /\ q # << >>
    BY <1>4 DEF Asks
  <2>2. 1 \in DOMAIN q /\ Head(q) = q[1]
    BY <2>1, LenProperties, EmptySeq
  <2> QED BY <2>1, <2>2 DEF ToSet
<1>9. Head(q) \in T
  BY <1>7, <1>8
<1> HIDE DEF q, T
<1>10. Keep(q, T) # << >> /\ Head(Keep(q, T)) = Head(q)
  BY <1>8, <1>9, KeepHead
<1>11. Head(q).remote # r
  BY <1>2, <1>3, <1>5, <1>6, <1>10
<1> QED BY <1>4, <1>11 DEF Asks

\* What Asked returns, for the remotes that wait.
LEMMA AskedRight ==
  ASSUME Placed, NEW r \in Remotes
  PROVE  \A w \in ToSet(Asked(r)) :
           \/ w \in ToSet(queue) /\ w.remote # r
           \/ w.remote = r /\ Right(w)
<1>1. CASE ready[r] = << >>
  <2>1. Without(Asked(r), queue, r)
    BY <1>1, AskedFor
  <2> QED BY <2>1 DEF Without
<1>2. CASE ready[r] # << >>
  <2>1. Asks(Asked(r), queue, r, BytesOf[Head(ready[r])])
    BY <1>2, AskedFor
  <2> QED BY <1>2, <2>1 DEF Asks, Right
<1> QED BY <1>1, <1>2

\* A place in the queue depends on the uploads that are queued, and only on
\* the next one of a remote.
Awaits(r) == ready[r] # << >> => ready'[r] # << >> /\ Head(ready'[r]) = Head(ready[r])

LEMMA RightKeeps ==
  ASSUME NEW w, Right(w), Awaits(w.remote)
  PROVE  Right(w)'
<1>1. Right(w)' <=> ready'[w.remote] # << >> /\ w.bytes = BytesOf[Head(ready'[w.remote])]
  BY DEF Right
<1> QED BY <1>1 DEF Right, Awaits

\* The remotes that wait.
LEMMA WaitersRemotes ==
  ASSUME Placed
  PROVE  \A w \in ToSet(queue) : w.remote \in Remotes
<1>1. queue \in Seq(Waiters)
  BY DEF Placed, Listed, Lined
<1>2. ToSet(queue) \subseteq Waiters
  BY <1>1, ListsItself
<1> QED BY <1>2 DEF Waiters

\* Answers leave the line as it is.
LEMMA LineKeeps ==
  ASSUME Placed, InLine, UNCHANGED queue,
         error' = NoError => error = NoError /\ \A r \in Remotes : Awaits(r)
  PROVE  InLine'
<1>1. ASSUME NEW w \in ToSet(queue)
      PROVE  w.remote \in Ordered /\ (error' = NoError => Right(w)')
  <2>1. w.remote \in Remotes /\ w.remote \in Ordered /\ (error = NoError => Right(w))
    BY WaitersRemotes DEF InLine
  <2>2. ASSUME error' = NoError PROVE Right(w)'
    <3>1. Right(w) /\ Awaits(w.remote)
      BY <2>1, <2>2
    <3> QED BY <3>1, RightKeeps
  <2> QED BY <2>1, <2>2
<1>2. InLine' <=> \A w \in ToSet(queue') : w.remote \in Ordered /\ (error' = NoError => Right(w)')
  BY DEF InLine, Ordered
<1> QED BY <1>1, <1>2

\* Asking puts a remote that is visited in line, and rightly.
LEMMA LineAsked ==
  ASSUME Placed, InLine, NEW r \in Remotes, r \in Ordered, queue' = Asked(r), UNCHANGED <<ready, error>>
  PROVE  InLine'
<1>1. ASSUME NEW w \in ToSet(queue')
      PROVE  w.remote \in Ordered /\ (error' = NoError => Right(w)')
  <2>1. w.remote \in Ordered /\ (error = NoError => Right(w))
    BY AskedRight DEF InLine
  <2>2. Right(w)' <=> Right(w)
    BY DEF Right
  <2> QED BY <2>1, <2>2
<1>2. InLine' <=> \A w \in ToSet(queue') : w.remote \in Ordered /\ (error' = NoError => Right(w)')
  BY DEF InLine, Ordered
<1> QED BY <1>1, <1>2

\* A permit takes a remote out of the line.
LEMMA LineForgotten ==
  ASSUME Placed, InLine, NEW r \in Remotes, queue' = Forgotten(r), UNCHANGED error,
         \A s \in Remotes : s # r => ready'[s] = ready[s]
  PROVE  InLine'
<1>0. Without(Forgotten(r), queue, r)
  BY ForgottenOthers DEF Placed, Listed, Lined
<1>1. ASSUME NEW w \in ToSet(queue')
      PROVE  w.remote \in Ordered /\ (error' = NoError => Right(w)')
  <2>1. w \in ToSet(queue) /\ w.remote # r
    BY <1>0 DEF Without
  <2>2. w.remote \in Remotes /\ w.remote \in Ordered /\ (error = NoError => Right(w))
    BY <2>1, WaitersRemotes DEF InLine
  <2>3. Awaits(w.remote)
    BY <2>1, <2>2 DEF Awaits
  <2> QED BY <2>2, <2>3, RightKeeps
<1>2. InLine' <=> \A w \in ToSet(queue') : w.remote \in Ordered /\ (error' = NoError => Right(w)')
  BY DEF InLine, Ordered
<1> QED BY <1>1, <1>2

\* At first nobody waits and nothing is passed.
LEMMA InitScanned ==
  ASSUME Init
  PROVE  Scanned
<1>1. TypeOK
  BY InitLocated DEF Located, Placed
<1>2. queue = << >> /\ scan = 0 /\ phase = "refill" /\ unverified = << >>
  BY DEF Init
<1>3. ToSet(queue) = {}
  BY <1>2, ListsNone DEF Lists
<1>4. Passed = {}
  BY <1>1, <1>2, PassedSome
<1> QED BY <1>2, <1>3, <1>4 DEF Scanned, InLine, Passing, Foremost, Rested, Started

\* An admission begins a new scan.
LEMMA AdmitScanned ==
  ASSUME Scanned, phase = "refill", scan' = 0, InLine',
         UNCHANGED <<phase, batch, unverified, cancelled>>
  PROVE  Scanned'
<1>1. Passed' = {}
  <2>1. Passed' = {RemoteOrder[((nextRemote' + k) % Len(RemoteOrder)) + 1] : k \in 0 .. 0 - 1}
    BY DEF Passed
  <2>2. 0 .. 0 - 1 = {}
    OBVIOUS
  <2> QED BY <2>1, <2>2
<1>2. Passing'
  BY <1>1 DEF Passing, Foremost
<1>3. Rested'
  BY DEF Rested
<1>4. Started'
  BY DEF Scanned, Started
<1> QED BY <1>2, <1>3, <1>4 DEF Scanned

\* Be it for a probe.
LEMMA AdmitProbeScanned ==
  ASSUME Placed, Scanned, AdmitProbe
  PROVE  Scanned'
<1>0. TypeOK /\ Scanning /\ InLine
  BY DEF Placed, AdmitProbe, Scanned
<1> DEFINE r == Visited
<1>1. r \in Remotes /\ r \in Ordered
  BY <1>0, VisitedOrdered
<1>2. /\ queue' = Asked(r) \/ queue' = queue
      /\ phase = "refill" /\ scan' = 0
      /\ UNCHANGED <<phase, ready, batch, unverified, error, cancelled>>
  BY DEF AdmitProbe, Admitted, Scanning, cacheVars
<1> HIDE DEF r
<1>3. InLine'
  <2>1. CASE queue' = Asked(r)
    BY <1>0, <1>1, <1>2, <2>1, LineAsked
  <2>2. CASE queue' = queue
    <3>1. \A s \in Remotes : Awaits(s)
      BY <1>2 DEF Awaits
    <3> QED BY <1>0, <1>2, <2>2, <3>1, LineKeeps
  <2> QED BY <1>2, <2>1, <2>2
<1> QED BY <1>2, <1>3, AdmitScanned

\* Or for an upload.
LEMMA AdmitUploadScanned ==
  ASSUME Placed, Scanned, AdmitUpload
  PROVE  Scanned'
<1>0. TypeOK /\ Scanning /\ InLine
  BY DEF Placed, AdmitUpload, Scanned
<1> DEFINE r == Visited
<1>1. r \in Remotes
  BY <1>0, VisitedOrdered
<1>2. /\ queue' = Forgotten(r) /\ ready' = [ready EXCEPT ![r] = Tail(@)]
      /\ phase = "refill" /\ scan' = 0
      /\ UNCHANGED <<phase, batch, unverified, error, cancelled>>
  BY DEF AdmitUpload, Admitted, Scanning, cacheVars
<1> HIDE DEF r
<1>3. \A s \in Remotes : s # r => ready'[s] = ready[s]
  BY <1>0, <1>1, <1>2 DEF TypeOK
<1>4. InLine'
  BY <1>0, <1>1, <1>2, <1>3, LineForgotten
<1> QED BY <1>2, <1>4, AdmitScanned

\* The first of a sequence is one of its elements.
LEMMA FirstIn ==
  ASSUME NEW R, NEW s \in Seq(R)
  PROVE  s # << >> => Head(s) \in ToSet(s)
<1> HAVE s # << >>
<1>1. 1 \in DOMAIN s /\ Head(s) = s[1]
  BY LenProperties, EmptySeq
<1> QED BY <1>1 DEF ToSet

\* With nothing uploaded and no failure the line is never headed by a remote
\* that has been passed over.
LEMMA PassOverForemost ==
  ASSUME Placed, NEW r \in Remotes, NEW P, ~CanUpload(r), queue' = Asked(r),
         uploading = {}, \A w \in ToSet(queue) : Right(w),
         queue # << >> => Head(queue).remote \notin P,
         \A s \in P : ready[s] # << >> => queue # << >>
  PROVE  /\ queue' # << >> => Head(queue').remote \notin P \cup {r}
         /\ \A s \in P \cup {r} : ready[s] # << >> => queue' # << >>
<1>0. queue \in Seq(Waiters)
  BY DEF Placed, Listed, Lined
<1>1. CASE ready[r] # << >>
  <2>1. queue # << >> /\ Head(queue).remote # r
    BY <1>1, FirstGranted
  <2>2. Asks(queue', queue, r, BytesOf[Head(ready[r])])
    BY <1>1, AskedFor
  <2>3. queue' # << >> /\ Head(queue').remote = Head(queue).remote
    BY <2>1, <2>2 DEF Asks
  <2> QED BY <2>1, <2>3
<1>2. CASE ready[r] = << >>
  <2>1. Without(queue', queue, r)
    BY <1>2, AskedFor
  <2>2. CASE queue = << >>
    <3>1. ToSet(queue) = {}
      BY <2>2, ListsNone DEF Lists
    <3>2. ToSet(queue') = {} /\ queue' \in Seq(Waiters)
      BY <2>1, <3>1 DEF Without
    <3>3. queue' = << >>
      BY <3>2, FirstIn
    <3> QED BY <1>2, <2>2, <3>3
  <2>3. CASE queue # << >>
    <3>1. Head(queue) \in ToSet(queue)
      BY <1>0, <2>3, FirstIn
    <3>2. Head(queue).remote # r
      BY <1>2, <3>1 DEF Right
    <3>3. queue' # << >> /\ Head(queue') = Head(queue)
      BY <2>1, <2>3, <3>2 DEF Without
    <3> QED BY <2>3, <3>2, <3>3
  <2> QED BY <2>2, <2>3
<1> QED BY <1>1, <1>2

\* A remote is passed over.
LEMMA PassOverScanned ==
  ASSUME Placed, Scanned, PassOver
  PROVE  Scanned'
<1> DEFINE r == Visited
<1>0. TypeOK /\ Scanning /\ InLine /\ Passing /\ Started
  BY DEF Placed, PassOver, Scanned
<1>1. r \in Remotes /\ r \in Ordered
  BY <1>0, VisitedOrdered
<1>2. /\ queue' = Asked(r)
      /\ pending[r] = << >> \/ ~CanProbe(r)
      /\ ~CanUpload(r) /\ phase = "refill" /\ scan' = scan + 1
      /\ UNCHANGED <<capacity, phase, pending, forming, probing, ready, batch, unverified,
                     uploading, nextRemote, error, cancelled>>
  BY DEF PassOver, Scanning, workVars, cacheVars
<1>3. Passed' = Passed \cup {r}
  BY <1>0, <1>2, PassedNext
<1> HIDE DEF r
<1>4. InLine'
  BY <1>0, <1>1, <1>2, LineAsked
<1>5. \A w : Right(w)' <=> Right(w)
  BY <1>2 DEF Right
<1>6. /\ \A w \in ToSet(queue) : w.remote \in Passed => Right(w)
      /\ \A s \in Passed : pending[s] = << >> \/ ~CanProbe(s)
      /\ uploading = {} /\ error = NoError => Foremost
  BY <1>0, <1>2 DEF Passing
<1>7. \A w \in ToSet(queue') : w.remote \in Passed' => Right(w)'
  BY <1>1, <1>2, <1>3, <1>5, <1>6, AskedRight
<1>8. \A s : CanProbe(s)' <=> CanProbe(s)
  BY <1>2 DEF CanProbe, Probes, AllProbes, PerRemote
<1>9. \A s \in Passed' : pending'[s] = << >> \/ ~CanProbe(s)'
  BY <1>2, <1>3, <1>6, <1>8
<1>10. ASSUME uploading' = {}, error' = NoError PROVE Foremost'
  <2>1. uploading = {} /\ error = NoError /\ \A w \in ToSet(queue) : Right(w)
    BY <1>0, <1>2, <1>10 DEF InLine
  <2>2. /\ queue # << >> => Head(queue).remote \notin Passed
        /\ \A s \in Passed : ready[s] # << >> => queue # << >>
    BY <1>6, <2>1 DEF Foremost
  <2>3. /\ queue' # << >> => Head(queue').remote \notin Passed \cup {r}
        /\ \A s \in Passed \cup {r} : ready[s] # << >> => queue' # << >>
    BY <1>1, <1>2, <2>1, <2>2, PassOverForemost
  <2> QED BY <1>2, <1>3, <2>3 DEF Foremost
<1>11. Passing'
  BY <1>7, <1>9, <1>10 DEF Passing
<1>12. Rested'
  BY <1>2 DEF Rested
<1>13. Started'
  BY <1>0, <1>2 DEF Started
<1> QED BY <1>4, <1>11, <1>12, <1>13 DEF Scanned

\* With no batch under way every remote can probe.
LEMMA FreeProbes ==
  ASSUME Placed, probing = {}, \A s \in Remotes : forming[s] = << >>, NEW r \in Remotes
  PROVE  CanProbe(r)
<1>1. \A s \in Remotes : Probes(s) = 0
  <2>1. TAKE s \in Remotes
  <2>2. Probes(s) = Len(forming[s]) + Permits(probing, s)
    BY ProbesAre
  <2>3. Mine(probing, s) = {}
    BY DEF Mine
  <2>4. Permits(probing, s) = 0
    BY <2>3, FS_EmptySet, SumStep DEF Permits
  <2>5. Len(forming[s]) = 0
    BY EmptySeq
  <2> QED BY <2>2, <2>4, <2>5
<1>2. AllProbes = 0
  BY <1>1, NoProbes
<1>3. capacity \in Nat \ {0} /\ PerRemote \in Nat \ {0}
  BY PerRemoteNat DEF Placed
<1> QED BY <1>1, <1>2, <1>3 DEF CanProbe

\* A refill ends when all remotes are passed, unless it is interrupted.
LEMMA EndRefillScanned ==
  ASSUME Placed, Scanned, EndRefill
  PROVE  Scanned'
<1>0. TypeOK /\ InLine /\ Passing /\ Started /\ phase = "refill" /\ ~Scanning
  BY DEF Placed, EndRefill, Scanned
<1>1. /\ probing' = probing \cup {Sent(forming[s], Len(forming[s])) : s \in {s \in Remotes : forming[s] # << >>}}
      /\ forming' = [s \in Remotes |-> << >>] /\ phase' = "wait"
      /\ UNCHANGED <<pending, ready, batch, unverified, uploading, queue, error, cancelled>>
  BY DEF EndRefill, Sent, cacheVars, admissionVars
<1>2. \A r \in Remotes : forming'[r] = << >>
  BY <1>1
<1>3. \A w : Right(w)' <=> Right(w)
  BY <1>1 DEF Right
<1>4. InLine'
  BY <1>0, <1>1, <1>3 DEF InLine, Ordered
<1>5. ASSUME ~cancelled
      PROVE  /\ \A w \in ToSet(queue) : Right(w)
             /\ probing' = {} => \A r \in Remotes : pending[r] = << >>
             /\ uploading = {} /\ error = NoError => \A r \in Remotes : ready[r] = << >>
  <2>1. Passed = Ordered
    <3>1. scan \in 0 .. Len(RemoteOrder) /\ Len(RemoteOrder) \in Nat \ {0}
      BY <1>0, Ordering DEF TypeOK
    <3>2. scan = Len(RemoteOrder)
      BY <1>0, <1>5, <3>1 DEF Scanning
    <3> QED BY <1>0, <3>2, PassedSome
  <2>2. /\ \A w \in ToSet(queue) : w.remote \in Passed => Right(w)
        /\ \A s \in Passed : pending[s] = << >> \/ ~CanProbe(s)
        /\ uploading = {} /\ error = NoError => Foremost
    BY <1>0 DEF Passing
  <2>3. \A w \in ToSet(queue) : w.remote \in Ordered
    BY <1>0 DEF InLine
  <2>4. ASSUME probing' = {}, NEW r \in Remotes PROVE pending[r] = << >>
    <3>1. probing = {} /\ \A s \in Remotes : forming[s] = << >>
      BY <1>1, <2>4
    <3>2. CanProbe(r)
      BY <3>1, FreeProbes
    <3> QED BY <2>1, <2>2, <3>2, OrderedOnly
  <2>5. ASSUME uploading = {}, error = NoError, NEW r \in Remotes PROVE ready[r] = << >>
    <3>1. Foremost /\ queue \in Seq(Waiters)
      BY <2>2, <2>5 DEF Placed, Listed, Lined
    <3>2. queue = << >>
      BY <2>1, <2>3, <3>1, FirstIn DEF Foremost
    <3> QED BY <2>1, <3>1, <3>2, OrderedOnly DEF Foremost
  <2> QED BY <2>1, <2>2, <2>3, <2>4, <2>5
<1>6. Rested'
  BY <1>1, <1>2, <1>3, <1>5 DEF Rested
<1>7. Passing' /\ Started'
  BY <1>0, <1>1 DEF Passing, Started
<1> QED BY <1>4, <1>6, <1>7 DEF Scanned

\* What is queued behind other uploads leaves the next one as it is.
LEMMA HeadStays ==
  ASSUME NEW s \in Seq(Indices), s # << >>
  PROVE  /\ \A i \in Indices : Append(s, i) # << >> /\ Head(Append(s, i)) = Head(s)
         /\ \A t \in Seq(Indices) : s \o t # << >> /\ Head(s \o t) = Head(s)
<1>1. Len(s) \in Nat /\ Len(s) # 0 /\ Head(s) = s[1]
  BY LenProperties, EmptySeq
<1>2. ASSUME NEW i \in Indices PROVE Append(s, i) # << >> /\ Head(Append(s, i)) = Head(s)
  BY AppendProperties, HeadTailAppend
<1>3. ASSUME NEW t \in Seq(Indices) PROVE s \o t # << >> /\ Head(s \o t) = Head(s)
  <2> DEFINE u == s \o t
  <2>1. u \in Seq(Indices) /\ Len(u) = Len(s) + Len(t) /\ Len(t) \in Nat /\ u[1] = s[1]
    BY <1>1, ConcatProperties, LenProperties
  <2> HIDE DEF u
  <2>2. u # << >> /\ Head(u) = u[1]
    BY <1>1, <2>1, EmptySeq
  <2> QED BY <1>1, <2>1, <2>2 DEF u
<1> QED BY <1>2, <1>3

\* An answer leaves the line as it is, unless it is a failure.
LEMMA AnswerLine ==
  ASSUME Located, Answer
  PROVE  /\ phase' = "drain" /\ UNCHANGED queue
         /\ error' = NoError => error = NoError /\ \A r \in Remotes : Awaits(r)
<1> DEFINE Goal == /\ phase' = "drain" /\ UNCHANGED queue
                   /\ error' = NoError => error = NoError /\ \A r \in Remotes : Awaits(r)
<1>0. Placed /\ TypeOK /\ Checked /\ \A r \in Remotes : ready[r] \in Seq(Indices)
  BY DEF Located, Placed, TypeOK
<1>1. ASSUME NEW b \in probing, ProbePresent(b) PROVE Goal
  BY <1>1 DEF ProbePresent, Draining, admissionVars, Awaits
<1>2. ASSUME NEW b \in probing, ProbeAbsent(b) PROVE Goal
  <2> DEFINE i0 == Head(b.left)
  <2>1. /\ phase' = "drain" /\ UNCHANGED <<queue, error>>
        /\ UNCHANGED ready \/ Enqueue({i0})
    BY <1>2 DEF ProbeAbsent, Draining, admissionVars
  <2>2. i0 \in Indices
    <3>1. Delivered(b)
      BY <1>2 DEF ProbeAbsent
    <3> QED BY <1>0, <3>1, Answered DEF Taken
  <2> HIDE DEF i0
  <2>3. ASSUME Enqueue({i0}), NEW r \in Remotes PROVE Awaits(r)
    <3> DEFINE mine == {i \in {i0} : RemoteOf(i) = r /\ i < error}
    <3>1. ready'[r] = IF mine = {} THEN ready[r] ELSE Append(ready[r], CHOOSE i \in mine : TRUE)
      BY <2>3 DEF Enqueue
    <3>2. CASE mine = {}
      BY <3>1, <3>2 DEF Awaits
    <3>3. CASE mine # {}
      <4>1. (CHOOSE i \in mine : TRUE) \in mine
        BY <3>3
      <4>2. (CHOOSE i \in mine : TRUE) = i0
        BY <4>1
      <4> HIDE DEF mine
      <4>3. ready'[r] = Append(ready[r], i0)
        BY <3>1, <3>3, <4>2
      <4> QED BY <1>0, <2>2, <4>3, HeadStays DEF Awaits
    <3> QED BY <3>2, <3>3
  <2> QED BY <2>1, <2>3 DEF Awaits
<1>3. ASSUME NEW b \in probing, ProbeFails(b) PROVE Goal
  <2>1. Failed(Head(b.left))
    BY <1>0, <1>3, ProbeFailsPlaces
  <2> QED BY <1>3, <2>1 DEF ProbeFails, Draining, admissionVars, Failed
<1>4. ASSUME NEW i \in uploading, UploadSucceeds(i) PROVE Goal
  BY <1>4 DEF UploadSucceeds, Draining, workVars, Awaits
<1>5. ASSUME NEW i \in uploading, UploadFails(i) PROVE Goal
  <2>1. Failed(i)
    BY <1>0, <1>5, UploadFailsPlaces
  <2> QED BY <1>5, <2>1 DEF UploadFails, Draining, Failed
<1>6. ASSUME NEW found \in [ToSet(batch) -> {"valid", "missing", "corrupt"}], VerifySucceeds(found)
      PROVE  Goal
  <2>1. /\ phase' = "drain" /\ UNCHANGED <<queue, error>>
        /\ ready' = [r \in Remotes |-> ready[r] \o Released(found, r)]
    BY <1>6 DEF VerifySucceeds, Draining, admissionVars, Released, Good, Sought
  <2>2. ASSUME NEW r \in Remotes PROVE Awaits(r)
    <3>1. Released(found, r) \in Seq(Indices)
      BY <1>0, ReleasedLists, OwnType
    <3>2. ready'[r] = ready[r] \o Released(found, r)
      BY <2>1
    <3> QED BY <1>0, <3>1, <3>2, HeadStays DEF Awaits
  <2> QED BY <2>1, <2>2
<1>7. ASSUME NEW culprits \in {{o} : o \in ToSet(batch)} \cup {ToSet(batch)}, VerifyFails(culprits)
      PROVE  Goal
  <2>1. ToSet(batch) # {}
    <3>1. batch # << >>
      BY <1>7 DEF VerifyFails
    <3>2. Lists(batch, ToSet(batch))
      BY <1>0, Verifications
    <3> QED BY <3>1, <3>2, ListsPlaces
  <2>2. culprits \subseteq ToSet(batch) /\ culprits # {}
    BY <2>1
  <2>3. error' # NoError
    BY <1>7, <2>2, VerifyFailsLocated
  <2>4. phase' = "drain" /\ UNCHANGED queue
    BY <1>7 DEF VerifyFails, Draining, admissionVars
  <2> QED BY <2>3, <2>4
<1> QED BY <1>1, <1>2, <1>3, <1>4, <1>5, <1>6, <1>7 DEF Answer

\* After draining, the next verification is started and a scan begins.
LEMMA StartVerificationScanned ==
  ASSUME Located, Scanned, StartVerification
  PROVE  Scanned'
<1>1. /\ phase' = "refill" /\ scan' = 0
      /\ UNCHANGED <<ready, queue, error, cancelled>>
  BY DEF StartVerification, workVars, admissionVars
<1>2. Passed' = {}
  <2>1. Passed' = {RemoteOrder[((nextRemote' + k) % Len(RemoteOrder)) + 1] : k \in 0 .. 0 - 1}
    BY <1>1 DEF Passed
  <2>2. 0 .. 0 - 1 = {}
    OBVIOUS
  <2> QED BY <2>1, <2>2
<1>3. InLine'
  <2>1. Placed /\ InLine /\ \A r \in Remotes : Awaits(r)
    BY <1>1 DEF Located, Scanned, Awaits
  <2> QED BY <1>1, <2>1, LineKeeps
<1>4. Passing'
  BY <1>2 DEF Passing, Foremost
<1>5. Rested'
  BY <1>1 DEF Rested
<1>6. Started'
  BY <1>1, VerificationStarted DEF Started
<1> QED BY <1>3, <1>4, <1>5, <1>6 DEF Scanned

\* Returning, an interrupt and no step at all.
LEMMA OtherScanned ==
  ASSUME Placed, Scanned, Finish \/ Cancel \/ UNCHANGED vars
  PROVE  Scanned'
<1>0. InLine /\ Passing /\ Rested /\ Started
  BY DEF Scanned
<1>1. UNCHANGED <<capacity, pending, forming, probing, ready, batch, unverified, uploading, queue,
                  nextRemote, scan, error>>
  BY DEF Finish, Cancel, vars, workVars, cacheVars, admissionVars, robinVars
<1>2. /\ phase' = phase \/ (phase = "wait" /\ phase' = "done" /\ Idle)
      /\ ~cancelled' => ~cancelled
  BY DEF Finish, Cancel, vars
<1>3. \A w : Right(w)' <=> Right(w)
  BY <1>1 DEF Right
<1>4. InLine'
  BY <1>0, <1>1, <1>3 DEF InLine, Ordered
<1>5. Passed' = Passed /\ \A s : CanProbe(s)' <=> CanProbe(s)
  BY <1>1 DEF Passed, CanProbe, Probes, AllProbes, PerRemote
<1>6. Passing'
  <2>1. CASE phase' = phase
    BY <1>0, <1>1, <1>3, <1>5, <2>1 DEF Passing, Foremost
  <2>2. CASE phase' = "done"
    BY <2>2 DEF Passing
  <2> QED BY <1>2, <2>1, <2>2
<1>7. Rested'
  <2>1. Idle' <=> Idle
    BY <1>1 DEF Idle
  <2> QED BY <1>0, <1>1, <1>2, <1>3, <2>1 DEF Rested
<1>8. Started'
  BY <1>0, <1>1, <1>2 DEF Started
<1> QED BY <1>4, <1>6, <1>7, <1>8 DEF Scanned

\* Layer four is inductive.
LEMMA NextScanned ==
  ASSUME Located, Scanned, [Next]_vars
  PROVE  Scanned'
<1>0. Placed
  BY DEF Located
<1>1. CASE Answer
  <2>1. InLine'
    BY <1>0, <1>1, AnswerLine, LineKeeps DEF Scanned
  <2>2. phase' = "drain"
    BY <1>1, AnswerLine
  <2> QED BY <2>1, <2>2 DEF Scanned, Passing, Rested, Started
<1>2. CASE Coordinate
  BY <1>0, <1>2, AdmitProbeScanned, AdmitUploadScanned, PassOverScanned, EndRefillScanned,
     StartVerificationScanned, OtherScanned DEF Coordinate
<1>3. CASE Cancel \/ Returned \/ UNCHANGED vars
  BY <1>0, <1>3, OtherScanned DEF Returned
<1> QED BY <1>1, <1>2, <1>3 DEF Next

\* The inductive invariant holds in every state.
LEMMA InvariantAlways == Spec => []IInv
<1>1. Init => Scanned
  BY InitScanned
<1>2. Located /\ Scanned /\ [Next]_vars => Scanned'
  BY NextScanned
<1>3. Located /\ Before /\ Held /\ Scanned => IInv
  BY DEF IInv
<1> QED BY <1>1, <1>2, <1>3, HeldAlways, PTL DEF Spec

\* While the coordinator waits no place in the queue is that of a remote whose
\* work a failure has dropped.
THEOREM NoPlaceKept == Spec => []NoGhostWaiter
<1>1. ASSUME IInv PROVE NoGhostWaiter
  <2>1. SUFFICES ASSUME phase = "wait", ~cancelled, NEW k \in DOMAIN queue
                 PROVE  /\ Right(queue[k])
                        /\ \A l \in DOMAIN queue : queue[l].remote = queue[k].remote => l = k
    BY DEF NoGhostWaiter, Right
  <2>2. Right(queue[k])
    <3>1. queue[k] \in ToSet(queue)
      BY DEF ToSet
    <3> QED BY <1>1, <2>1, <3>1 DEF IInv, Scanned, Rested
  <2>3. Lined(queue)
    BY <1>1 DEF IInv, Located, Placed, Listed
  <2> QED BY <2>1, <2>2, <2>3 DEF Lined
<1> QED BY <1>1, InvariantAlways, PTL

\* A window that returns has settled everything before the frontier, but for
\* who came late to a verification and who was overtaken in the last scan.
THEOREM WindowsReturnSettled == Spec => []Settled
<1>1. ASSUME IInv PROVE Settled
  <2>1. SUFFICES ASSUME phase = "done", ~cancelled, NEW i \in Indices, i < error, statuses[i] = None
                 PROVE  error # NoError /\ (Abandoned(i) \/ Overtaken(i))
    BY DEF Settled
  <2>2. /\ probing = {} /\ uploading = {} /\ batch = << >> /\ unverified = << >>
        /\ \A r \in Remotes : forming[r] = << >> /\ pending[r] = << >>
        /\ error = NoError => \A r \in Remotes : ready[r] = << >>
    BY <1>1, <2>1 DEF IInv, Scanned, Rested, Started, Idle
  <2>3. RemoteOf(i) \in Remotes /\ OidOf(i) \in Oids
    BY Numbered
  <2>4. ToSet(<< >>) = {}
    BY OwnNone
  <2>5. ~InPending(i) /\ ~InForming(i) /\ ~InProbing(i) /\ ~InUploading(i)
    BY <2>2, <2>3, <2>4 DEF InPending, InForming, InProbing, InUploading, Carried
  <2>6. InWaiting(i) \/ InReady(i)
    BY <1>1, <2>1, <2>5 DEF IInv, Located, Placed, Kept, Nowhere
  <2>7. ASSUME InReady(i) PROVE error # NoError /\ Overtaken(i)
    BY <2>2, <2>3, <2>4, <2>7 DEF InReady, Overtaken
  <2>8. ASSUME InWaiting(i) PROVE error # NoError /\ Abandoned(i)
    <3>1. Underway = {}
      BY <2>2, <2>4 DEF Underway
    <3>2. i \in late
      BY <1>1, <2>1, <2>3, <2>8, <3>1 DEF IInv, Located, Checked, InWaiting
    <3>3. error = NoError => late = {}
      BY <1>1 DEF IInv, Located, Checked
    <3> QED BY <3>2, <3>3 DEF Abandoned
  <2> QED BY <2>6, <2>7, <2>8
<1> QED BY <1>1, InvariantAlways, PTL

=============================================================================
