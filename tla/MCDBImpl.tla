-------------------------------- MODULE MCDBImpl -------------------------------
(* DBImpl for TLC. *)
EXTENDS DBImpl, TLC

CONSTANTS a, b, c, d

\* Batches of one and two entries, and a NULL batch.
MCOps == [w \in Clients |-> CASE w = b -> 2 [] w = d -> 0 [] OTHER -> 1]
===============================================================================
