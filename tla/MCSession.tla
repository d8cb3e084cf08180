------------------------------- MODULE MCSession -------------------------------
(***************************************************************************)
(* Small instances of Session for TLC.                                     *)
(***************************************************************************)
EXTENDS Session, TLC

CONSTANTS anna, ben

\* The accounts are alike.
AccountSymmetry == Permutations(Accounts)
===============================================================================
