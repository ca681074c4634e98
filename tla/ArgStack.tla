------------------------------ MODULE ArgStack ------------------------------
(***************************************************************************)
(* What Kernel.hpp promises of push_arg and execute: a kernel runs with    *)
(* the arguments pushed since it was executed last, and all of them have   *)
(* to be pushed again before the next time.                                *)
(***************************************************************************)
EXTENDS Naturals, Sequences

CONSTANTS
  Kernels, Arity,     \* the kernels of a context, and the arguments each takes
  Values              \* argument values

VARIABLES
  pushed,             \* per kernel, the arguments pushed since its last launch
  launched,           \* per kernel, the arguments of each of its launches
  stopped

Init ==
  /\ pushed = [k \in Kernels |-> <<>>]
  /\ launched = [k \in Kernels |-> <<>>]
  /\ stopped = FALSE

Push(k, v) ==
  /\ ~stopped /\ Len(pushed[k]) < Arity[k]
  /\ pushed' = [pushed EXCEPT ![k] = Append(@, v)]
  /\ UNCHANGED <<launched, stopped>>

Launch(k) ==
  /\ ~stopped /\ Len(pushed[k]) = Arity[k]
  /\ launched' = [launched EXCEPT ![k] = Append(@, pushed[k])]
  /\ pushed' = [pushed EXCEPT ![k] = <<>>]
  /\ UNCHANGED stopped

\* An error, after which nothing is launched; it may drop the arguments pushed.
Stop ==
  /\ ~stopped /\ stopped' = TRUE
  /\ \E K \in SUBSET Kernels :
       pushed' = [k \in Kernels |-> IF k \in K THEN <<>> ELSE pushed[k]]
  /\ UNCHANGED launched

Next ==
  \/ \E k \in Kernels, v \in Values : Push(k, v)
  \/ \E k \in Kernels : Launch(k)
  \/ Stop

Spec == Init /\ [][Next]_<<pushed, launched, stopped>>

=============================================================================
