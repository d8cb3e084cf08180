------------------------------ MODULE DurableStore -----------------------------
(***************************************************************************)
(* What leveldb promises of its writes, all of files, logs and threads     *)
(* taken away: a batch is in the store or it is not; it gets in with its   *)
(* answer, together with others; only a crash takes batches away, and none *)
(* of those that have become hard.                                         *)
(***************************************************************************)
CONSTANT Clients   \* the batches, one for each call of DB::Write

VARIABLES
    contents,   \* the batches a reader sees, or would after recovery
    hard,       \* those of them that no crash can take away
    answer,     \* of each call: "new", "pending", "ok", "error" or "lost"
    up          \* whether the store is open

store == <<contents, hard, answer, up>>

StoreInit ==
    /\ contents = {} /\ hard = {}
    /\ answer = [c \in Clients |-> "new"]
    /\ up = FALSE

Hardens == hard \subseteq hard' /\ hard' \subseteq contents'

Submit(c) ==
    /\ up /\ answer[c] = "new"
    /\ answer' = [answer EXCEPT ![c] = "pending"]
    /\ UNCHANGED <<contents, hard, up>>

\* Calls that wait are answered together.
Respond(S, with) ==
    /\ up /\ \A c \in S : answer[c] = "pending"
    /\ answer' = [c \in Clients |-> IF c \in S THEN with ELSE answer[c]]
    /\ UNCHANGED up

\* An empty batch has nothing to be seen.
Commit(S) ==
    /\ Respond(S, "ok")
    /\ contents \subseteq contents' /\ contents' \subseteq contents \cup S
    /\ Hardens

Refuse(S) == Respond(S, "error") /\ UNCHANGED <<contents, hard>>

Harden == Hardens /\ UNCHANGED <<contents, answer, up>>

\* What is hard stays; of the rest, and of the calls that were not answered or
\* that were answered with an error, any may be there.
Crash ==
    /\ contents' \subseteq contents \cup
           {c \in Clients : answer[c] \in {"pending", "error"}}
    /\ Hardens
    /\ answer' = [c \in Clients |->
                     IF answer[c] = "pending" THEN "lost" ELSE answer[c]]
    /\ up' = FALSE

Open == ~up /\ up' /\ Hardens /\ UNCHANGED <<contents, answer>>

StoreNext ==
    \/ \E c \in Clients : Submit(c)
    \/ Harden
    \/ \E S \in (SUBSET Clients) \ {{}} : Commit(S) \/ Refuse(S)
    \/ Crash \/ Open

StoreSpec == StoreInit /\ [][StoreNext]_store
===============================================================================
