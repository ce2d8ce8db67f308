---------------------------- MODULE MCBoardPage ----------------------------
(***************************************************************************)
(* Instance of BoardPage for TLC.                                          *)
(***************************************************************************)
EXTENDS BoardPage, TLC

Perms == Permutations(Jobs)
=============================================================================
