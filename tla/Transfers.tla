----------------------------- MODULE Transfers -----------------------------
(***************************************************************************)
(* Context::read_buffer, write_buffer, zeros_float and block over an       *)
(* in-order queue that the device works off on its own: what a transfer    *)
(* copies is what is in host memory when the device gets to it.            *)
(*                                                                         *)
(* The client leaves a region it gave to a non-blocking transfer alone     *)
(* until it has called block().                                            *)
(***************************************************************************)
EXTENDS Integers, Sequences

CONSTANTS
  Buffers, Size, Regions, RegionSize, Values,
  FLOAT_SIZE,        \* cells of a float
  ZerosBlock,        \* the values of `block` that zeros_float is called with
  MaxQueue           \* bound on the commands pending

ASSUME TransfersAssumption ==
  /\ Size \in [Buffers -> Nat] /\ RegionSize \in Nat
  /\ 0 \in Values
  /\ FLOAT_SIZE \in Nat \ {0} /\ ZerosBlock \subseteq BOOLEAN /\ MaxQueue \in Nat

VARIABLES
  memory, host,      \* cells of the buffers and of the client's regions
  vector,            \* cells of zeros_float's vector, 0 once it is destroyed
  queue,
  host_pc,
  in_use,            \* the regions the client must leave alone, as far as it knows
  zeroed             \* the buffers last written by zeros_float

vars == <<memory, host, vector, queue, host_pc, in_use, zeroed>>

Store == INSTANCE BufferStore

Init ==
  /\ memory \in Store!Memories
  /\ host \in [Regions -> Store!Contents(RegionSize)]
  /\ vector = 0 /\ queue = <<>>
  /\ host_pc = "run" /\ in_use = {} /\ zeroed = {}

-----------------------------------------------------------------------------
(* The host *)

Vector == "vector"      \* the host memory of the write that zeros_float makes
ASSUME VectorAssumption == Vector \notin Regions

Command(op, b, offset, n, r) == [op |-> op, buffer |-> b, offset |-> offset, size |-> n, host |-> r]

\* clEnqueue...Buffer took the command; a blocking one waits for its end.
Enqueue(c, block) ==
  /\ Len(queue) < MaxQueue
  /\ queue' = Append(queue, c)
  /\ host_pc' = IF block THEN "blocked" ELSE "run"

Throw ==
  /\ host_pc' = "threw"
  /\ UNCHANGED <<memory, host, vector, queue, in_use, zeroed>>

\* All the wrapper looks at: the size, wherever the transfer starts.
SizeFits(b, n) == n <= Size[b]

\* The driver looks at where it starts and ends; it may refuse for reasons of its own, too.
DriverTakes(b, offset, n) == n > 0 /\ offset + n <= Size[b]

UsesRegion(r, block) == in_use' = IF block THEN in_use ELSE in_use \union {r}

WriteBuffer(b, offset, n, r, block) ==
  /\ host_pc = "run"
  /\ \/ Throw
     \/ /\ SizeFits(b, n) /\ DriverTakes(b, offset, n)
        /\ Enqueue(Command("write", b, offset, n, r), block)
        /\ UsesRegion(r, block)
        /\ zeroed' = zeroed \ {b}
        /\ UNCHANGED <<memory, host, vector>>

ReadBuffer(b, offset, n, r, block) ==
  /\ host_pc = "run"
  /\ \/ Throw
     \/ /\ SizeFits(b, n) /\ DriverTakes(b, offset, n)
        /\ Enqueue(Command("read", b, offset, n, r), block)
        /\ UsesRegion(r, block)
        /\ UNCHANGED <<memory, host, vector, zeroed>>

\* A slip in vector_size: the loop that fills the vector stops one short.
vector_size_short(b) == (Size[b] \div FLOAT_SIZE - 1) * FLOAT_SIZE

vector_size(b) == (Size[b] \div FLOAT_SIZE) * FLOAT_SIZE

\* A slip in ZerosFloat: the write is not given `block`.
ZerosFloatUnblocked(b, block) ==
  /\ host_pc = "run"
  /\ \/ Throw
     \/ /\ Enqueue(Command("write", b, 0, Size[b], Vector), FALSE)
        /\ vector' = 0
        /\ zeroed' = zeroed \union {b}
        /\ UNCHANGED <<memory, host, in_use>>

\* The vector lives until zeros_float returns, which it does at once unless it blocks.
ZerosFloat(b, block) ==
  /\ host_pc = "run"
  /\ \/ Throw
     \/ /\ Enqueue(Command("write", b, 0, Size[b], Vector), block)
        /\ vector' = IF block THEN vector_size(b) ELSE 0
        /\ zeroed' = zeroed \union {b}
        /\ UNCHANGED <<memory, host, in_use>>

\* A slip in Block: it flushes the queue and does not wait.
BlockUnfinished ==
  /\ host_pc = "run" /\ host_pc' = "run"
  /\ in_use' = {}
  /\ UNCHANGED <<memory, host, vector, queue, zeroed>>

\* Flush, then finish, which hands over what is queued itself and waits for its end.
Block ==
  /\ host_pc = "run" /\ host_pc' = "blocked"
  /\ in_use' = {}
  /\ UNCHANGED <<memory, host, vector, queue, zeroed>>

\* A slip in Return: a wait that is over when the device has one command left.
ReturnEarly ==
  /\ host_pc = "blocked" /\ Len(queue) <= 1
  /\ host_pc' = "run"
  /\ vector' = 0
  /\ UNCHANGED <<memory, host, queue, in_use, zeroed>>

\* The end of a wait: the last command is over, and so is everything before it.
Return ==
  /\ host_pc = "blocked" /\ queue = <<>>
  /\ host_pc' = "run"
  /\ vector' = 0
  /\ UNCHANGED <<memory, host, queue, in_use, zeroed>>

\* The client fills a region of its own.
ClientStore(r, v) ==
  /\ host_pc = "run" /\ r \notin in_use
  /\ host' = [host EXCEPT ![r] = [k \in DOMAIN @ |-> v]]
  /\ UNCHANGED <<memory, vector, queue, host_pc, in_use, zeroed>>

-----------------------------------------------------------------------------
(* The device *)

\* What a write may find in host memory: past the vector's cells, or once it is
\* destroyed, anything.
Sources(c) ==
  IF c.host # Vector THEN {host[c.host]}
  ELSE {s \in Store!Contents(c.size) : \A k \in DOMAIN s : k < vector => s[k] = 0}

ExecuteHead ==
  /\ queue # <<>>
  /\ queue' = Tail(queue)
  /\ LET c == Head(queue) IN
       \/ /\ c.op = "write"
          /\ \E s \in Sources(c) :
               memory' = [memory EXCEPT ![c.buffer] = Store!Copied(@, c.offset, s, 0, c.size)]
          /\ UNCHANGED host
       \/ /\ c.op = "read"
          /\ host' = [host EXCEPT ![c.host] =
                        Store!Copied(@, 0, memory[c.buffer], c.offset, c.size)]
          /\ UNCHANGED memory
  /\ UNCHANGED <<vector, host_pc, in_use, zeroed>>

Threw == host_pc = "threw" /\ UNCHANGED vars

Next ==
  \/ \E b \in Buffers, r \in Regions, n \in 0 .. RegionSize, block \in BOOLEAN :
       \E offset \in 0 .. Size[b] :
         WriteBuffer(b, offset, n, r, block) \/ ReadBuffer(b, offset, n, r, block)
  \/ \E b \in Buffers, block \in ZerosBlock : ZerosFloat(b, block)
  \/ \E r \in Regions, v \in Values : ClientStore(r, v)
  \/ Block \/ Return
  \/ ExecuteHead
  \/ Threw

Spec == Init /\ [][Next]_vars

-----------------------------------------------------------------------------
(* Properties *)

Commands ==
  [op : {"read", "write"}, buffer : Buffers, offset : Nat, size : Nat, host : Regions \union {Vector}]

\* The types, and what zeros_float's own memory hangs on: a write of its vector is the last
\* command there is, the host is still waiting for it, and the vector is as long as the buffer.
TransferInv ==
  /\ memory \in Store!Memories
  /\ host \in [Regions -> Store!Contents(RegionSize)]
  /\ vector \in Nat /\ queue \in Seq(Commands)
  /\ host_pc \in {"run", "blocked", "threw"}
  /\ in_use \subseteq Regions /\ zeroed \subseteq Buffers
  /\ \A i \in DOMAIN queue : queue[i].host = Vector =>
       /\ i = Len(queue) /\ host_pc = "blocked"
       /\ queue[i].size = Size[queue[i].buffer] /\ vector = queue[i].size

\* A region the client may touch again is no longer touched by the device: a blocking
\* transfer is over when it returns, and every transfer is after block().
RegionsSettled ==
  host_pc = "run" =>
    \A i \in DOMAIN queue : queue[i].host \in in_use \union {Vector}

\* zeros_float fills with zero values (Context.hpp:151): once no write to the buffer is
\* pending, it holds nothing else.
ZerosFilled ==
  \A b \in zeroed :
    (\A i \in DOMAIN queue : ~(queue[i].op = "write" /\ queue[i].buffer = b)) =>
      \A k \in DOMAIN memory[b] : memory[b][k] = 0

\* Buffers and regions s as they are once the commands q are done.
Done(c, s) ==
  IF c.op = "read"
    THEN [s EXCEPT !.host[c.host] = Store!Copied(@, 0, s.memory[c.buffer], c.offset, c.size)]
  ELSE IF c.host = Vector
    THEN [s EXCEPT !.memory[c.buffer] = [k \in DOMAIN @ |-> 0]]
  ELSE [s EXCEPT !.memory[c.buffer] = Store!Copied(@, c.offset, s.host[c.host], 0, c.size)]

AllDone(q, s) ==
  LET after[i \in 0 .. Len(q)] == IF i = 0 THEN s ELSE Done(q[i], after[i - 1])
  IN after[Len(q)]

Settled == AllDone(queue, [memory |-> memory, host |-> host])

\* The transfers implement BufferStore: to a client that keeps to the rule, every transfer
\* takes place at its call.
Promise == INSTANCE BufferStore WITH memory <- Settled.memory, host <- Settled.host
RefinesBufferStore == Promise!Spec

=============================================================================
