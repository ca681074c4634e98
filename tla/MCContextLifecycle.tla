------------------------- MODULE MCContextLifecycle -------------------------
(***************************************************************************)
(* TLC instances of ContextLifecycle.                                      *)
(***************************************************************************)
EXTENDS ContextLifecycleInv

AnyCatch == CatchKinds
Uncaught == {"terminate"}
HandledInside == {"handle"}

=============================================================================
