------------------------------ MODULE StarCounter -----------------------------
(***************************************************************************)
(* What the album node promises to its readers: an atomic star counter.    *)
(* Between two states of the node one user stars or unstars it, or one     *)
(* entry of a comment's index appears; no other user's star and no         *)
(* comment is ever lost on the way.                                        *)
(***************************************************************************)
EXTENDS Integers

CONSTANTS
    Users,       \* account uids
    Comments     \* what comments enter below the node

VARIABLE album

Missing == [exists |-> FALSE, adds |-> {}, addsCount |-> 0, comments |-> {}]

Init == album \in {Missing, [Missing EXCEPT !.exists = TRUE]}

\* The catalog writes the node.
Create == ~album.exists /\ album' = [Missing EXCEPT !.exists = TRUE]

Star(u) ==
    /\ album.exists
    /\ u \notin album.adds
    /\ album' = [album EXCEPT !.adds = @ \cup {u}, !.addsCount = @ + 1]

Unstar(u) ==
    /\ album.exists
    /\ u \in album.adds
    /\ album' = [album EXCEPT !.adds = @ \ {u}, !.addsCount = @ - 1]

IndexComment(entry) ==
    album' = [album EXCEPT !.exists = TRUE, !.comments = @ \cup {entry}]

Next ==
    \/ Create
    \/ \E u \in Users : Star(u) \/ Unstar(u)
    \/ \E entry \in Comments : IndexComment(entry)

Spec == Init /\ [][Next]_album
===============================================================================
