---------------------------- MODULE MCTreadmill ----------------------------
(* TLC instance of Treadmill. *)
EXTENDS Treadmill, TLC

Perms == Permutations(Jobs) \cup Permutations(Conns)

=============================================================================
