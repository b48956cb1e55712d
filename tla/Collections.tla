---------------------------- MODULE Collections ----------------------------
(***************************************************************************)
(* Filters and sums that proofs can use: the operators of the libraries    *)
(* take an operator where these take a set or a function.                  *)
(***************************************************************************)
EXTENDS Naturals, Sequences, FiniteSetsExt

\* The elements of s that are in S, in their order.
Keep(s, S) ==
  LET kept[n \in 0 .. Len(s)] ==
        IF n = 0 THEN << >>
        ELSE IF s[n] \in S THEN Append(kept[n - 1], s[n]) ELSE kept[n - 1]
  IN  kept[Len(s)]

\* The sum of f[x] over the elements x of the finite set S.
Sum(f, S) == MapThenSumSet(LAMBDA x : f[x], S)
=============================================================================
