--------------------------- MODULE MCNetbootRunner ---------------------------
(***************************************************************************)
(* Instances of NetbootRunner for TLC.                                     *)
(***************************************************************************)
EXTENDS NetbootRunner

=============================================================================
