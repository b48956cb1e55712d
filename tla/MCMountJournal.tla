-------------------------- MODULE MCMountJournal --------------------------
(***************************************************************************)
(* Small instances of MountJournal: snapshots of two rows, of one of them  *)
(* and of none, so that an update both adds and drops rows and a mount may *)
(* own nothing yet.                                                        *)
(***************************************************************************)
EXTENDS MountJournal, TLC

CONSTANTS p1, p2, m, t1, t2, a, b, both, one, empty

MCContent == [v \in Versions |-> IF v = both THEN {a, b} ELSE IF v = one THEN {b} ELSE {}]

\* Sound where only safety is checked: a process is nothing but its name.
Interchangeable == Permutations(Procs)
============================================================================
