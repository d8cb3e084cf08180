---------------------------- MODULE MCCommentThread ----------------------------
(***************************************************************************)
(* Small instances of CommentThread for TLC.                               *)
(***************************************************************************)
EXTENDS CommentThread, TLC

CONSTANTS phone, tablet, anna, ben, folklore, evermore

\* Two users, one device each; Anna's feed has both albums.
TwoUsers == (phone :> anna) @@ (tablet :> ben)
TwoFeeds == (phone :> {folklore, evermore}) @@ (tablet :> {folklore})
TwiceAndOnce == (phone :> 2) @@ (tablet :> 1)
===============================================================================
