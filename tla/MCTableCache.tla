------------------------------ MODULE MCTableCache -----------------------------
(* TableCache for TLC. *)
EXTENDS TableCache, TLC

CONSTANTS r1, r2, b, f1, f2, f3

MCSymmetry == Permutations({r1, r2}) \cup Permutations({f1, f2, f3})
===============================================================================
