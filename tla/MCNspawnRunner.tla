--------------------------- MODULE MCNspawnRunner ---------------------------
(***************************************************************************)
(* Instances of NspawnRunner for TLC.                                      *)
(***************************************************************************)
EXTENDS NspawnRunner, TLC

Perms == Permutations(Jobs)

=============================================================================
