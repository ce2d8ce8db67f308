---------------------------- MODULE MCRendezvous ----------------------------
(* TLC instance of Rendezvous. *)
EXTENDS Rendezvous, TLC

MCPorts == {1, 2}
Perms == Permutations(Clients)

=============================================================================
