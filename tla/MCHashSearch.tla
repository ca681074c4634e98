---------------------------- MODULE MCHashSearch ----------------------------
(***************************************************************************)
(* TLC instances of HashSearch.                                            *)
(***************************************************************************)
EXTENDS HashSearchInv

\* Every residue of the small modulus: with 10, one hash no word has, some hashes only
\* one word has, and some that two items of one launch match at once.
MCTargetHashes == 0 .. LONG_RANGE - 1

\* A hash no word has: every launch runs, as many as in the program.
NoWordHasIt == {CHOOSE h \in 0 .. 63 : \A w \in Words : Hash(w) # h}

=============================================================================
