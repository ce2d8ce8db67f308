--------------------------- MODULE MCBoardServer ---------------------------
(***************************************************************************)
(* Instances of BoardServer for TLC.                                       *)
(***************************************************************************)
EXTENDS BoardServer, TLC

MCStartTimes == 0..1

Perms == Permutations(Jobs) \cup Permutations(Conns)

=============================================================================
