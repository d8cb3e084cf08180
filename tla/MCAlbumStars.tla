----------------------------- MODULE MCAlbumStars -----------------------------
(***************************************************************************)
(* Small instances of AlbumStars for TLC.                                  *)
(***************************************************************************)
EXTENDS AlbumStars, TLC

CONSTANTS phone, tablet, anna, ben

\* Two users, one device each.
TwoUsers == (phone :> anna) @@ (tablet :> ben)
\* One user on two devices.
TwoDevices == (phone :> anna) @@ (tablet :> anna)
OneDevice == phone :> anna

TwoTapsAgainstOne == (phone :> 2) @@ (tablet :> 1)
OneTapEach == (phone :> 1) @@ (tablet :> 1)
ThreeTaps == phone :> 3
TwoTaps == phone :> 2
===============================================================================
