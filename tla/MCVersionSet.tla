------------------------------ MODULE MCVersionSet -----------------------------
(* VersionSet for TLC. *)
EXTENDS VersionSet

\* Two files at level 0, or two entries further down, are to be compacted.
MCLimit == [l \in 0..(NumLevels - 2) |-> 2]
===============================================================================
