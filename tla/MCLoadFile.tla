----------------------------- MODULE MCLoadFile -----------------------------
(***************************************************************************)
(* A TLC instance of LoadFile.                                             *)
(***************************************************************************)
EXTENDS LoadFile

=============================================================================
