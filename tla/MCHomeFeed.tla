------------------------------- MODULE MCHomeFeed ------------------------------
(***************************************************************************)
(* Small instances of HomeFeed for TLC.                                    *)
(***************************************************************************)
EXTENDS HomeFeed, TLC

CONSTANTS phone, tablet, folklore, evermore, lover

\* A malformed album behind two that are entered, and before one that is not.
LongFeed == [top |-> <<folklore, evermore, lover>>, new |-> <<lover, folklore>>]
TwiceAndOnce == (phone :> 2) @@ (tablet :> 1)
===============================================================================
