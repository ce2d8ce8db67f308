--------------------------- MODULE MCControlSocket ---------------------------
(***************************************************************************)
(* An instance of ControlSocket for TLC.                                   *)
(***************************************************************************)
EXTENDS ControlSocket

=============================================================================
