---------------------------- MODULE MCTransfers ----------------------------
(***************************************************************************)
(* TLC instances of Transfers.                                             *)
(***************************************************************************)
EXTENDS Transfers

TwoCells == [b \in Buffers |-> 2]

Blocking == {TRUE}
NonBlocking == {FALSE}

=============================================================================
