---------------------------- MODULE BufferStore ----------------------------
(***************************************************************************)
(* What the transfers of a Context promise a client that leaves the host   *)
(* memory of a transfer alone until it is over: device buffers and host    *)
(* arrays behave as if every transfer took place at its call.              *)
(***************************************************************************)
EXTENDS Integers

CONSTANTS
  Buffers, Size,      \* device buffers, and the cells of each
  Regions,            \* the client's arrays
  RegionSize,         \* cells of each of them
  Values              \* what a cell can hold; 0 among them

VARIABLES memory, host

Contents(n) == [0 .. n - 1 -> Values]
Memories == {m \in [Buffers -> UNION {Contents(Size[b]) : b \in Buffers}] :
               \A b \in Buffers : m[b] \in Contents(Size[b])}

\* Array `to` with n cells from `from`, its first one put at t.
Copied(to, t, from, f, n) ==
  [k \in DOMAIN to |-> IF k \in t .. t + n - 1 THEN from[k - t + f] ELSE to[k]]

Fits(b, offset, n) == offset + n <= Size[b] /\ n <= RegionSize

Write(b, offset, n, r) ==
  /\ Fits(b, offset, n)
  /\ memory' = [memory EXCEPT ![b] = Copied(@, offset, host[r], 0, n)]
  /\ UNCHANGED host

Read(b, offset, n, r) ==
  /\ Fits(b, offset, n)
  /\ host' = [host EXCEPT ![r] = Copied(@, 0, memory[b], offset, n)]
  /\ UNCHANGED memory

Zero(b) ==
  /\ memory' = [memory EXCEPT ![b] = [k \in DOMAIN @ |-> 0]]
  /\ UNCHANGED host

Store(r, v) ==
  /\ host' = [host EXCEPT ![r] = [k \in DOMAIN @ |-> v]]
  /\ UNCHANGED memory

Init == memory \in Memories /\ host \in [Regions -> Contents(RegionSize)]

Next ==
  \/ \E b \in Buffers, r \in Regions, n \in 0 .. RegionSize :
       \E offset \in 0 .. Size[b] : Write(b, offset, n, r) \/ Read(b, offset, n, r)
  \/ \E b \in Buffers : Zero(b)
  \/ \E r \in Regions, v \in Values : Store(r, v)

Spec == Init /\ [][Next]_<<memory, host>>

=============================================================================
