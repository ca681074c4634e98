-------------------------- MODULE TransfersProofs --------------------------
(***************************************************************************)
(* Proofs about Transfers, for any buffers, regions, values and length of  *)
(* the queue: what is settled when the host may go on, and what            *)
(* zeros_float needs to keep its promise.                                  *)
(***************************************************************************)
EXTENDS Transfers, Recursion

-----------------------------------------------------------------------------
(* The queue *)

LEMMA AppendFacts ==
  ASSUME NEW S, NEW s \in Seq(S), NEW c \in S
  PROVE  /\ Append(s, c) \in Seq(S) /\ Len(Append(s, c)) = Len(s) + 1
         /\ DOMAIN Append(s, c) = 1 .. Len(s) + 1
         /\ \A j \in 1 .. Len(s) : Append(s, c)[j] = s[j]
         /\ Append(s, c)[Len(s) + 1] = c
OBVIOUS

LEMMA TailFacts ==
  ASSUME NEW S, NEW s \in Seq(S), s # <<>>
  PROVE  /\ Tail(s) \in Seq(S) /\ Len(s) \in Nat \ {0} /\ Len(Tail(s)) = Len(s) - 1
         /\ DOMAIN s = 1 .. Len(s) /\ DOMAIN Tail(s) = 1 .. Len(s) - 1
         /\ \A j \in 1 .. Len(s) - 1 : Tail(s)[j] = s[j + 1]
         /\ Head(s) = s[1] /\ s[1] \in S
OBVIOUS

-----------------------------------------------------------------------------
(* Cells *)

LEMMA SizeFacts ==
  /\ RegionSize \in Nat /\ \A b \in Buffers : Size[b] \in Nat
  /\ 0 \in Values
BY TransfersAssumption

\* A buffer replaced by one of its size.
LEMMA MemoryFacts ==
  ASSUME NEW m \in Store!Memories, NEW b \in Buffers
  PROVE  /\ DOMAIN m = Buffers /\ m[b] \in Store!Contents(Size[b])
         /\ \A x \in Store!Contents(Size[b]) : [m EXCEPT ![b] = x] \in Store!Memories
<1>1. /\ m \in [Buffers -> UNION {Store!Contents(Size[a]) : a \in Buffers}]
      /\ \A a \in Buffers : m[a] \in Store!Contents(Size[a])
  BY DEF Store!Memories
<1>2. ASSUME NEW x \in Store!Contents(Size[b])
      PROVE  [m EXCEPT ![b] = x] \in Store!Memories
  <2>. DEFINE mm == [m EXCEPT ![b] = x]
  <2>1. mm \in [Buffers -> UNION {Store!Contents(Size[a]) : a \in Buffers}]
    BY <1>1
  <2>2. \A a \in Buffers : mm[a] \in Store!Contents(Size[a])
    BY <1>1
  <2>. HIDE DEF mm
  <2>3. mm \in Store!Memories
    BY <2>1, <2>2 DEF Store!Memories
  <2>. QED BY <2>3 DEF mm
<1>. QED
  BY <1>1, <1>2

\* What is copied stays within the cells and the values of both sides.
LEMMA CopiedType ==
  ASSUME NEW n \in Nat, NEW m \in Nat, NEW to \in Store!Contents(n), NEW from \in Store!Contents(m),
         NEW t \in Nat, NEW f \in Nat, NEW k \in Nat, f + k <= m
  PROVE  Store!Copied(to, t, from, f, k) \in Store!Contents(n)
<1>1. \A j \in 0 .. n - 1 : to[j] \in Values
  BY DEF Store!Contents
<1>2. \A j \in 0 .. m - 1 : from[j] \in Values
  BY DEF Store!Contents
<1>3. \A j \in t .. t + k - 1 : j - t + f \in 0 .. m - 1
  OBVIOUS
<1>4. DOMAIN to = 0 .. n - 1
  BY DEF Store!Contents
<1>5. \A j \in 0 .. n - 1 :
        (IF j \in t .. t + k - 1 THEN from[j - t + f] ELSE to[j]) \in Values
  BY <1>1, <1>2, <1>3
<1>. QED
  BY <1>4, <1>5 DEF Store!Copied, Store!Contents

LEMMA VectorSizeType == \A b \in Buffers : vector_size(b) \in Nat
<1>. SUFFICES ASSUME NEW b \in Buffers PROVE vector_size(b) \in Nat
  OBVIOUS
<1>. DEFINE q == Size[b] \div FLOAT_SIZE
<1>1. Size[b] \in Nat /\ FLOAT_SIZE \in Nat /\ FLOAT_SIZE > 0
  BY TransfersAssumption
<1>2. q \in Nat
  BY <1>1
<1>3. q * FLOAT_SIZE \in Nat
  <2>. HIDE DEF q
  <2>. QED BY <1>1, <1>2
<1>. QED
  BY <1>3 DEF vector_size

-----------------------------------------------------------------------------
(* Types *)

\* The commands there are: each stays inside its buffer, and either inside a region or
\* writes a vector to the whole buffer.
ProperCommands ==
  {c \in Commands :
     /\ c.offset + c.size <= Size[c.buffer]
     /\ IF c.host = Vector
          THEN c.op = "write" /\ c.offset = 0 /\ c.size = Size[c.buffer]
          ELSE c.size <= RegionSize}

TypeInv ==
  /\ memory \in Store!Memories
  /\ host \in [Regions -> Store!Contents(RegionSize)]
  /\ vector \in Nat
  /\ queue \in Seq(ProperCommands)
  /\ host_pc \in {"run", "blocked", "threw"}
  /\ in_use \subseteq Regions /\ zeroed \subseteq Buffers

LEMMA TypeInvFacts ==
  ASSUME TypeInv
  PROVE  /\ DOMAIN memory = Buffers
         /\ \A b \in Buffers : DOMAIN memory[b] = 0 .. Size[b] - 1
         /\ DOMAIN queue = 1 .. Len(queue) /\ Len(queue) \in Nat
         /\ \A j \in DOMAIN queue : queue[j] \in ProperCommands
<1>1. ASSUME NEW b \in Buffers PROVE DOMAIN memory[b] = 0 .. Size[b] - 1
  BY MemoryFacts DEF TypeInv, Store!Contents
<1>2. DOMAIN memory = Buffers
  BY DEF TypeInv, Store!Memories
<1>3. /\ DOMAIN queue = 1 .. Len(queue) /\ Len(queue) \in Nat
      /\ \A j \in DOMAIN queue : queue[j] \in ProperCommands
  BY DEF TypeInv
<1>. QED
  BY <1>1, <1>2, <1>3

LEMMA CommandTypes ==
  ASSUME NEW op \in {"read", "write"}, NEW b \in Buffers, NEW offset \in Nat, NEW n \in Nat,
         NEW r \in Regions \union {Vector}
  PROVE  /\ Command(op, b, offset, n, r) \in Commands
         /\ Command(op, b, offset, n, r).op = op
         /\ Command(op, b, offset, n, r).buffer = b
         /\ Command(op, b, offset, n, r).offset = offset
         /\ Command(op, b, offset, n, r).size = n
         /\ Command(op, b, offset, n, r).host = r
BY DEF Command, Commands

\* The ways the host puts a command into the queue.
Transfer(op, b, offset, n, r, block) ==
  /\ host_pc = "run"
  /\ Store!Fits(b, offset, n)
  /\ Enqueue(Command(op, b, offset, n, r), block)
  /\ UsesRegion(r, block)
  /\ zeroed' = IF op = "write" THEN zeroed \ {b} ELSE zeroed
  /\ UNCHANGED <<memory, host, vector>>

Zeroing(b, block) ==
  /\ host_pc = "run"
  /\ Enqueue(Command("write", b, 0, Size[b], Vector), block)
  /\ vector' = IF block THEN vector_size(b) ELSE 0
  /\ zeroed' = zeroed \union {b}
  /\ UNCHANGED <<memory, host, in_use>>

LEMMA StepKinds ==
  ASSUME [Next]_vars
  PROVE  \/ \E b \in Buffers, r \in Regions, n \in 0 .. RegionSize, block \in BOOLEAN,
               op \in {"read", "write"} : \E offset \in 0 .. Size[b] :
               Transfer(op, b, offset, n, r, block)
         \/ \E b \in Buffers, block \in ZerosBlock : Zeroing(b, block)
         \/ host_pc = "run" /\ Throw
         \/ \E r \in Regions, v \in Values : ClientStore(r, v)
         \/ Block \/ Return \/ ExecuteHead
         \/ UNCHANGED vars
<1>1. ASSUME NEW b \in Buffers, NEW r \in Regions, NEW n \in 0 .. RegionSize,
             NEW block \in BOOLEAN, NEW offset \in 0 .. Size[b]
      PROVE  /\ WriteBuffer(b, offset, n, r, block) =>
                  (host_pc = "run" /\ Throw) \/ Transfer("write", b, offset, n, r, block)
             /\ ReadBuffer(b, offset, n, r, block) =>
                  (host_pc = "run" /\ Throw) \/ Transfer("read", b, offset, n, r, block)
  <2>1. DriverTakes(b, offset, n) => Store!Fits(b, offset, n)
    BY SizeFacts DEF DriverTakes, Store!Fits
  <2>. QED BY <2>1 DEF WriteBuffer, ReadBuffer, Transfer
<1>2. ASSUME NEW b \in Buffers, NEW block \in ZerosBlock, ZerosFloat(b, block)
      PROVE  (host_pc = "run" /\ Throw) \/ Zeroing(b, block)
  BY <1>2 DEF ZerosFloat, Zeroing
<1>. QED
  BY <1>1, <1>2 DEF Next, Threw

\* The command a step puts into the queue.
LEMMA TransferCommand ==
  ASSUME NEW op \in {"read", "write"}, NEW b \in Buffers, NEW offset \in 0 .. Size[b],
         NEW n \in 0 .. RegionSize, NEW r \in Regions, Store!Fits(b, offset, n)
  PROVE  /\ offset \in Nat /\ n \in Nat
         /\ Command(op, b, offset, n, r) \in ProperCommands
         /\ Command(op, b, offset, n, r).host = r /\ r # Vector
<1>1. offset \in Nat /\ n \in Nat
  BY SizeFacts
<1>2. r # Vector /\ r \in Regions \union {Vector}
  BY VectorAssumption
<1>. DEFINE c == Command(op, b, offset, n, r)
<1>3. /\ c \in Commands /\ c.buffer = b /\ c.offset = offset
      /\ c.size = n /\ c.host = r
  BY <1>1, <1>2, CommandTypes
<1>. HIDE DEF c
<1>4. c \in ProperCommands
  BY <1>2, <1>3 DEF ProperCommands, Store!Fits
<1>. QED
  BY <1>1, <1>2, <1>3, <1>4 DEF c

LEMMA ZeroingCommand ==
  ASSUME NEW b \in Buffers
  PROVE  Command("write", b, 0, Size[b], Vector) \in ProperCommands
<1>. DEFINE c == Command("write", b, 0, Size[b], Vector)
<1>1. Size[b] \in Nat /\ 0 + Size[b] <= Size[b]
  BY SizeFacts
<1>2. /\ c \in Commands /\ c.op = "write" /\ c.buffer = b /\ c.offset = 0
      /\ c.size = Size[b] /\ c.host = Vector
  BY <1>1, CommandTypes
<1>. HIDE DEF c
<1>3. c \in ProperCommands
  BY <1>1, <1>2 DEF ProperCommands
<1>. QED
  BY <1>3 DEF c

\* A longer queue.
LEMMA EnqueueTypes ==
  ASSUME TypeInv, NEW c \in ProperCommands, NEW block \in BOOLEAN, Enqueue(c, block)
  PROVE  /\ queue' \in Seq(ProperCommands)
         /\ host_pc' \in {"run", "blocked", "threw"}
<1>1. queue' \in Seq(ProperCommands)
  BY AppendFacts DEF Enqueue, TypeInv
<1>2. host_pc' \in {"run", "blocked", "threw"}
  BY DEF Enqueue
<1>. QED
  BY <1>1, <1>2

LEMMA TypeInit == Init => TypeInv
BY DEF Init, TypeInv

LEMMA DeviceTypes ==
  ASSUME TypeInv, ExecuteHead
  PROVE  TypeInv'
<1>. DEFINE c == Head(queue)
<1>1. /\ queue # <<>> /\ queue' = Tail(queue)
      /\ UNCHANGED <<vector, host_pc, in_use, zeroed>>
  BY DEF ExecuteHead
<1>2. queue' \in Seq(ProperCommands) /\ c \in ProperCommands
  BY <1>1, TailFacts DEF TypeInv
<1>4. /\ c.buffer \in Buffers /\ c.offset \in Nat /\ c.size \in Nat
      /\ c.offset + c.size <= Size[c.buffer]
      /\ c.host \in Regions \/ (c.host = Vector /\ c.op = "write" /\ c.size = Size[c.buffer])
      /\ c.host \in Regions => c.size <= RegionSize /\ c.host # Vector
  BY <1>2, VectorAssumption DEF ProperCommands, Commands
<1>. HIDE DEF c
<1>5. /\ memory[c.buffer] \in Store!Contents(Size[c.buffer])
      /\ c.host \in Regions => host[c.host] \in Store!Contents(RegionSize)
      /\ Size[c.buffer] \in Nat /\ RegionSize \in Nat
  BY <1>4, MemoryFacts, SizeFacts DEF TypeInv
<1>6. ASSUME c.op = "write", NEW s \in Sources(c)
      PROVE  Store!Copied(memory[c.buffer], c.offset, s, 0, c.size)
               \in Store!Contents(Size[c.buffer])
  <2>1. CASE c.host \in Regions
    <3>1. s \in Store!Contents(RegionSize) /\ 0 + c.size <= RegionSize
      BY <1>4, <1>5, <1>6, <2>1 DEF Sources
    <3>. QED BY <1>4, <1>5, <3>1, CopiedType
  <2>2. CASE c.host = Vector
    <3>1. s \in Store!Contents(c.size) /\ 0 + c.size <= c.size
      BY <1>4, <1>6, <2>2 DEF Sources
    <3>. QED BY <1>4, <1>5, <3>1, CopiedType
  <2>. QED BY <1>4, <2>1, <2>2
<1>7. ASSUME c.op = "read"
      PROVE  /\ c.host \in Regions
             /\ Store!Copied(host[c.host], 0, memory[c.buffer], c.offset, c.size)
                  \in Store!Contents(RegionSize)
  <2>1. c.host \in Regions
    BY <1>4, <1>7
  <2>. QED BY <1>4, <1>5, <2>1, CopiedType
<1>8. memory' \in Store!Memories /\ host' \in [Regions -> Store!Contents(RegionSize)]
  <2>1. CASE /\ c.op = "write" /\ UNCHANGED host
             /\ \E s \in Sources(c) :
                  memory' = [memory EXCEPT ![c.buffer] = Store!Copied(@, c.offset, s, 0, c.size)]
    <3>1. PICK s \in Sources(c) : memory' =
            [memory EXCEPT ![c.buffer] = Store!Copied(memory[c.buffer], c.offset, s, 0, c.size)]
      BY <1>4, <2>1, TypeInvFacts
    <3>. QED BY <1>4, <1>6, <2>1, <3>1, MemoryFacts DEF TypeInv
  <2>2. CASE /\ c.op = "read" /\ UNCHANGED memory
             /\ host' = [host EXCEPT ![c.host] =
                           Store!Copied(@, 0, memory[c.buffer], c.offset, c.size)]
    BY <1>7, <2>2 DEF TypeInv
  <2>. QED BY <2>1, <2>2 DEF ExecuteHead, c
<1>. QED
  BY <1>1, <1>2, <1>8 DEF TypeInv

LEMMA TypeStep ==
  ASSUME TypeInv, [Next]_vars
  PROVE  TypeInv'
<1>1. ASSUME NEW b \in Buffers, NEW r \in Regions, NEW n \in 0 .. RegionSize,
             NEW block \in BOOLEAN, NEW op \in {"read", "write"}, NEW offset \in 0 .. Size[b],
             Transfer(op, b, offset, n, r, block)
      PROVE  TypeInv'
  <2>1. Command(op, b, offset, n, r) \in ProperCommands
    BY <1>1, TransferCommand DEF Transfer
  <2>2. in_use' \subseteq Regions /\ zeroed' \subseteq Buffers
    BY <1>1 DEF Transfer, UsesRegion, TypeInv
  <2>. QED BY <1>1, <2>1, <2>2, EnqueueTypes DEF Transfer, TypeInv
<1>2. ASSUME NEW b \in Buffers, NEW block \in ZerosBlock, Zeroing(b, block)
      PROVE  TypeInv'
  <2>1. Command("write", b, 0, Size[b], Vector) \in ProperCommands /\ block \in BOOLEAN
    BY ZeroingCommand, TransfersAssumption
  <2>2. vector' \in Nat /\ zeroed' \subseteq Buffers
    BY <1>2, VectorSizeType DEF Zeroing, TypeInv
  <2>. QED BY <1>2, <2>1, <2>2, EnqueueTypes DEF Zeroing, TypeInv
<1>3. ASSUME NEW r \in Regions, NEW v \in Values, ClientStore(r, v)
      PROVE  TypeInv'
  <2>1. host[r] \in Store!Contents(RegionSize)
    BY DEF TypeInv
  <2>2. [k \in DOMAIN host[r] |-> v] \in Store!Contents(RegionSize)
    BY <2>1 DEF Store!Contents
  <2>3. host' \in [Regions -> Store!Contents(RegionSize)]
    BY <1>3, <2>2 DEF ClientStore, TypeInv
  <2>. QED BY <1>3, <2>3 DEF ClientStore, TypeInv
<1>4. CASE Block
  BY <1>4, TypeInvFacts DEF Block, TypeInv
<1>5. CASE Return \/ Throw \/ UNCHANGED vars
  BY <1>5 DEF Return, Throw, vars, TypeInv
<1>. QED
  BY <1>1, <1>2, <1>3, <1>4, <1>5, StepKinds, DeviceTypes

-----------------------------------------------------------------------------
(* What is settled when the host may go on *)

LEMMA RegionsStep ==
  ASSUME TypeInv, RegionsSettled, [Next]_vars
  PROVE  RegionsSettled'
<1>1. ASSUME NEW b \in Buffers, NEW r \in Regions, NEW n \in 0 .. RegionSize,
             NEW block \in BOOLEAN, NEW op \in {"read", "write"}, NEW offset \in 0 .. Size[b],
             Transfer(op, b, offset, n, r, block), host_pc' = "run"
      PROVE  RegionsSettled'
  <2>1. block = FALSE /\ in_use' = in_use \union {r} /\ host_pc = "run"
        /\ queue' = Append(queue, Command(op, b, offset, n, r))
    BY <1>1 DEF Transfer, Enqueue, UsesRegion
  <2>2. /\ Command(op, b, offset, n, r) \in ProperCommands
        /\ Command(op, b, offset, n, r).host = r
    BY <1>1, TransferCommand DEF Transfer
  <2>. QED BY <2>1, <2>2, AppendFacts DEF RegionsSettled, TypeInv
<1>2. ASSUME NEW b \in Buffers, NEW block \in ZerosBlock, Zeroing(b, block)
      PROVE  RegionsSettled'
  <2>1. in_use' = in_use /\ host_pc = "run"
        /\ queue' = Append(queue, Command("write", b, 0, Size[b], Vector))
    BY <1>2 DEF Zeroing, Enqueue
  <2>2. /\ Command("write", b, 0, Size[b], Vector) \in ProperCommands
        /\ Command("write", b, 0, Size[b], Vector).host = Vector
    BY ZeroingCommand, CommandTypes, SizeFacts
  <2>. QED BY <2>1, <2>2, AppendFacts DEF RegionsSettled, TypeInv
<1>3. CASE ExecuteHead
  BY <1>3, TailFacts DEF ExecuteHead, RegionsSettled, TypeInv
<1>4. CASE Return
  BY <1>4 DEF Return, RegionsSettled
<1>5. CASE Block \/ Throw
  BY <1>5 DEF Block, Throw, RegionsSettled
<1>6. CASE UNCHANGED vars \/ \E r \in Regions, v \in Values : ClientStore(r, v)
  BY <1>6 DEF vars, ClientStore, RegionsSettled
<1>7. CASE host_pc' # "run"
  BY <1>7 DEF RegionsSettled
<1>. QED
  BY <1>1, <1>2, <1>3, <1>4, <1>5, <1>6, <1>7, StepKinds

(***************************************************************************)
(* When a blocking transfer or block() returns, no region the client was   *)
(* told to leave alone until then is still in the device's hands: only     *)
(* those of transfers made since, without blocking, are.                   *)
(***************************************************************************)
THEOREM RegionsAreSettled == Spec => []RegionsSettled
<1>1. Init => RegionsSettled
  BY DEF Init, RegionsSettled
<1>. QED
  BY <1>1, TypeInit, TypeStep, RegionsStep, PTL DEF Spec

-----------------------------------------------------------------------------
(* zeros_float *)

\* What zeros_float needs of its caller: that it blocks, and buffers of whole floats.
UsedWell ==
  /\ ZerosBlock \subseteq {TRUE}
  /\ \A b \in Buffers : Size[b] % FLOAT_SIZE = 0

Untouched(b) == \A j \in DOMAIN queue : ~(queue[j].op = "write" /\ queue[j].buffer = b)
AllZero(b)   == \A k \in DOMAIN memory[b] : memory[b][k] = 0
LastZeroes(b) ==
  queue # <<>> /\ queue[Len(queue)].host = Vector /\ queue[Len(queue)].buffer = b

\* The write of a vector is the last command, the host waits for it, and the vector is
\* whole.
VectorInv ==
  \A j \in DOMAIN queue : queue[j].host = Vector =>
    /\ j = Len(queue) /\ host_pc = "blocked"
    /\ queue[j].op = "write" /\ queue[j].offset = 0
    /\ queue[j].size = Size[queue[j].buffer] /\ vector = Size[queue[j].buffer]

\* A buffer zeros_float wrote last is full of zeros, or will be.
ZeroedInv ==
  /\ zeroed \subseteq Buffers
  /\ \A b \in zeroed : (Untouched(b) /\ AllZero(b)) \/ LastZeroes(b)

ZerosInv == TypeInv /\ VectorInv /\ ZeroedInv

LEMMA VectorSize ==
  ASSUME UsedWell, NEW b \in Buffers
  PROVE  vector_size(b) = Size[b]
<1>. DEFINE n == Size[b]
            q == n \div FLOAT_SIZE
<1>1. n \in Nat /\ FLOAT_SIZE \in Nat \ {0} /\ n % FLOAT_SIZE = 0
  BY TransfersAssumption DEF UsedWell
<1>2. n = q * FLOAT_SIZE + (n % FLOAT_SIZE) /\ q \in Int
  <2>. HIDE DEF n
  <2>. QED BY <1>1
<1>3. n = q * FLOAT_SIZE
  <2>. HIDE DEF n, q
  <2>. QED BY <1>1, <1>2
<1>. QED
  BY <1>3 DEF vector_size

\* While the host runs no write of a vector is pending.
LEMMA RunHasNoVector ==
  ASSUME ZerosInv, host_pc = "run"
  PROVE  /\ \A j \in DOMAIN queue : queue[j].host # Vector
         /\ \A b \in zeroed : Untouched(b) /\ AllZero(b)
<1>1. \A j \in DOMAIN queue : queue[j].host # Vector
  BY DEF ZerosInv, VectorInv
<1>2. queue # <<>> => Len(queue) \in DOMAIN queue
  BY TailFacts DEF ZerosInv, TypeInv
<1>. QED
  BY <1>1, <1>2 DEF ZerosInv, ZeroedInv, LastZeroes

LEMMA TransferKeepsZeros ==
  ASSUME ZerosInv, NEW b \in Buffers, NEW r \in Regions, NEW n \in 0 .. RegionSize,
         NEW block \in BOOLEAN, NEW op \in {"read", "write"}, NEW offset \in 0 .. Size[b],
         Transfer(op, b, offset, n, r, block)
  PROVE  VectorInv' /\ ZeroedInv'
<1>. DEFINE c == Command(op, b, offset, n, r)
<1>1. /\ host_pc = "run" /\ queue' = Append(queue, c) /\ UNCHANGED <<memory, vector>>
      /\ zeroed' = IF op = "write" THEN zeroed \ {b} ELSE zeroed
  BY DEF Transfer, Enqueue
<1>2. c \in ProperCommands /\ c.host = r /\ c.op = op /\ c.buffer = b /\ r # Vector
  BY TransferCommand, CommandTypes DEF Transfer
<1>. HIDE DEF c
<1>3. /\ DOMAIN queue' = 1 .. Len(queue) + 1 /\ DOMAIN queue = 1 .. Len(queue)
      /\ Len(queue) \in Nat
      /\ \A j \in 1 .. Len(queue) : queue'[j] = queue[j]
      /\ queue'[Len(queue) + 1] = c
  BY <1>1, <1>2, AppendFacts DEF ZerosInv, TypeInv
<1>4. \A j \in DOMAIN queue' : j \in DOMAIN queue \/ j = Len(queue) + 1
  BY <1>3
<1>5. VectorInv'
  BY <1>1, <1>2, <1>3, <1>4, RunHasNoVector DEF VectorInv
<1>6. ASSUME NEW a \in zeroed' PROVE a \in zeroed /\ Untouched(a)' /\ AllZero(a)'
  <2>1. a \in zeroed /\ (op = "write" => a # b)
    BY <1>1, <1>6
  <2>2. Untouched(a) /\ AllZero(a)
    BY <1>1, <2>1, RunHasNoVector
  <2>. QED BY <1>1, <1>2, <1>3, <1>4, <2>1, <2>2 DEF Untouched, AllZero
<1>. QED
  BY <1>5, <1>6 DEF ZerosInv, ZeroedInv

LEMMA ZeroingKeepsZeros ==
  ASSUME ZerosInv, UsedWell, NEW b \in Buffers, NEW block \in ZerosBlock, Zeroing(b, block)
  PROVE  VectorInv' /\ ZeroedInv'
<1>. DEFINE c == Command("write", b, 0, Size[b], Vector)
<1>1. /\ host_pc = "run" /\ host_pc' = "blocked" /\ queue' = Append(queue, c)
      /\ vector' = Size[b] /\ zeroed' = zeroed \union {b} /\ UNCHANGED memory
  BY VectorSize DEF Zeroing, Enqueue, UsedWell
<1>2. /\ c \in ProperCommands /\ c.op = "write" /\ c.buffer = b /\ c.offset = 0
      /\ c.size = Size[b] /\ c.host = Vector
  BY ZeroingCommand, CommandTypes, SizeFacts
<1>. HIDE DEF c
<1>3. /\ DOMAIN queue' = 1 .. Len(queue) + 1 /\ DOMAIN queue = 1 .. Len(queue)
      /\ Len(queue) \in Nat /\ Len(queue') = Len(queue) + 1 /\ queue' # <<>>
      /\ \A j \in 1 .. Len(queue) : queue'[j] = queue[j]
      /\ queue'[Len(queue) + 1] = c
  BY <1>1, <1>2, AppendFacts DEF ZerosInv, TypeInv
<1>4. \A j \in DOMAIN queue' : j \in DOMAIN queue \/ j = Len(queue) + 1
  BY <1>3
<1>5. VectorInv'
  BY <1>1, <1>2, <1>3, <1>4, RunHasNoVector DEF VectorInv
<1>6. LastZeroes(b)'
  BY <1>2, <1>3 DEF LastZeroes
<1>7. ASSUME NEW a \in zeroed, a # b PROVE Untouched(a)' /\ AllZero(a)'
  BY <1>1, <1>2, <1>3, <1>4, <1>7, RunHasNoVector DEF Untouched, AllZero
<1>. QED
  BY <1>1, <1>6, <1>7, <1>5 DEF ZerosInv, ZeroedInv

LEMMA DeviceKeepsZeros ==
  ASSUME ZerosInv, ExecuteHead
  PROVE  VectorInv' /\ ZeroedInv'
<1>. DEFINE c == Head(queue)
            last == Len(queue)
<1>1. /\ queue # <<>> /\ queue' = Tail(queue) /\ UNCHANGED <<vector, host_pc, zeroed>>
  BY DEF ExecuteHead
<1>2. /\ last \in Nat \ {0} /\ Len(queue') = last - 1
      /\ DOMAIN queue = 1 .. last /\ DOMAIN queue' = 1 .. last - 1
      /\ \A j \in 1 .. last - 1 : queue'[j] = queue[j + 1] /\ j + 1 \in 1 .. last
      /\ c = queue[1] /\ c \in ProperCommands
  BY <1>1, TailFacts DEF ZerosInv, TypeInv
<1>3. c.buffer \in Buffers /\ c.size \in Nat
  BY <1>2 DEF ProperCommands, Commands
<1>4. \/ /\ c.op = "write"
         /\ \E s \in Sources(c) :
              memory' = [memory EXCEPT ![c.buffer] = Store!Copied(@, c.offset, s, 0, c.size)]
      \/ c.op = "read" /\ UNCHANGED memory
  BY DEF ExecuteHead
<1>. HIDE DEF c, last
<1>5. VectorInv'
  <2>. SUFFICES ASSUME NEW j \in DOMAIN queue', queue'[j].host = Vector
       PROVE  /\ j = last - 1 /\ host_pc = "blocked"
              /\ queue'[j].op = "write" /\ queue'[j].offset = 0
              /\ queue'[j].size = Size[queue'[j].buffer] /\ vector = Size[queue'[j].buffer]
    BY <1>1, <1>2 DEF VectorInv
  <2>1. j + 1 \in DOMAIN queue /\ queue'[j] = queue[j + 1]
    BY <1>2
  <2>2. j + 1 = last
    BY <2>1 DEF ZerosInv, VectorInv, last
  <2>3. j = last - 1
    BY <1>2, <2>2
  <2>. QED BY <2>1, <2>3 DEF ZerosInv, VectorInv
<1>6. ASSUME NEW b \in zeroed, Untouched(b), AllZero(b)
      PROVE  Untouched(b)' /\ AllZero(b)'
  <2>1. Untouched(b)'
    BY <1>2, <1>6 DEF Untouched
  <2>2. ~(c.op = "write" /\ c.buffer = b)
    BY <1>2, <1>6 DEF Untouched
  <2>3. b \in Buffers /\ DOMAIN memory = Buffers
    BY TypeInvFacts DEF ZerosInv, ZeroedInv
  <2>4. memory'[b] = memory[b]
    BY <1>3, <1>4, <2>2, <2>3
  <2>. QED BY <1>6, <2>1, <2>4 DEF AllZero
<1>7. ASSUME NEW b \in zeroed, LastZeroes(b), last > 1
      PROVE  LastZeroes(b)'
  <2>1. last - 1 \in 1 .. last - 1 /\ (last - 1) + 1 = last
    BY <1>2, <1>7
  <2>2. queue' # <<>> /\ queue'[Len(queue')] = queue[last]
    BY <1>2, <2>1
  <2>. QED BY <1>7, <2>2 DEF LastZeroes, last
<1>8. ASSUME NEW b \in zeroed, LastZeroes(b), last = 1
      PROVE  Untouched(b)' /\ AllZero(b)'
  <2>1. /\ c.op = "write" /\ c.offset = 0 /\ c.size = Size[b] /\ vector = Size[b]
        /\ c.host = Vector /\ c.buffer = b
    BY <1>2, <1>8 DEF LastZeroes, ZerosInv, VectorInv, last
  <2>2. Untouched(b)'
    BY <1>2, <1>8 DEF Untouched
  <2>3. b \in Buffers /\ DOMAIN memory = Buffers /\ DOMAIN memory[b] = 0 .. Size[b] - 1
        /\ Size[b] \in Nat
    BY <1>3, <2>1, TypeInvFacts, SizeFacts DEF ZerosInv
  <2>4. PICK s \in Sources(c) :
          memory' = [memory EXCEPT ![b] = Store!Copied(@, 0, s, 0, Size[b])]
    BY <1>4, <2>1
  <2>5. \A k \in 0 .. Size[b] - 1 : s[k] = 0
    <3>1. s \in Store!Contents(Size[b]) /\ \A k \in DOMAIN s : k < Size[b] => s[k] = 0
      BY <2>1 DEF Sources
    <3>. QED BY <2>3, <3>1 DEF Store!Contents
  <2>6. memory'[b] = [k \in 0 .. Size[b] - 1 |->
                        IF k \in 0 .. 0 + Size[b] - 1 THEN s[k - 0 + 0] ELSE memory[b][k]]
    BY <2>3, <2>4 DEF Store!Copied
  <2>7. \A k \in 0 .. Size[b] - 1 : k \in 0 .. 0 + Size[b] - 1 /\ k - 0 + 0 = k
    BY <2>3
  <2>. QED BY <2>2, <2>5, <2>6, <2>7 DEF AllZero
<1>9. last = 1 \/ last > 1
  BY <1>2
<1>. QED
  BY <1>1, <1>5, <1>6, <1>7, <1>8, <1>9 DEF ZerosInv, ZeroedInv

LEMMA ZerosStep ==
  ASSUME UsedWell, ZerosInv, [Next]_vars
  PROVE  ZerosInv'
<1>. SUFFICES VectorInv' /\ ZeroedInv'
  BY TypeStep DEF ZerosInv
<1>1. CASE host_pc = "run" /\ UNCHANGED <<memory, queue, zeroed>>
  <2>1. VectorInv'
    BY <1>1, RunHasNoVector DEF VectorInv
  <2>2. \A b \in zeroed : Untouched(b)' /\ AllZero(b)'
    BY <1>1, RunHasNoVector DEF Untouched, AllZero
  <2>. QED BY <1>1, <2>1, <2>2 DEF ZerosInv, ZeroedInv
<1>2. CASE Return
  BY <1>2 DEF Return, VectorInv, ZeroedInv, ZerosInv, Untouched, AllZero, LastZeroes
<1>3. CASE UNCHANGED vars
  BY <1>3 DEF vars, VectorInv, ZeroedInv, ZerosInv, Untouched, AllZero, LastZeroes
<1>. QED
  BY <1>1, <1>2, <1>3, StepKinds, TransferKeepsZeros, ZeroingKeepsZeros, DeviceKeepsZeros
     DEF Block, Throw, ClientStore, ZerosInv

LEMMA ZerosInvariance ==
  ASSUME UsedWell
  PROVE  Spec => []ZerosInv
<1>1. Init => ZerosInv
  BY TypeInit DEF Init, ZerosInv, VectorInv, ZeroedInv
<1>2. ZerosInv /\ [Next]_vars => ZerosInv'
  BY ZerosStep
<1>. QED
  BY <1>1, <1>2, PTL DEF Spec

(***************************************************************************)
(* Whatever is transferred, filled or stored, and in whatever order the    *)
(* device gets to it: buffers and regions keep their cells, and nothing    *)
(* that zeros_float started is left when it returns, so that its vector,   *)
(* as long as the buffer, lives until the device has read it.              *)
(***************************************************************************)
THEOREM VectorOutlivesItsWrite ==
  ASSUME UsedWell
  PROVE  Spec => []TransferInv
<1>1. ZerosInv => TransferInv
  <2>. SUFFICES ASSUME ZerosInv PROVE TransferInv
    OBVIOUS
  <2>1. queue \in Seq(Commands)
    BY DEF ZerosInv, TypeInv, ProperCommands
  <2>. QED BY <2>1 DEF ZerosInv, TypeInv, VectorInv, TransferInv
<1>. QED
  BY <1>1, ZerosInvariance, PTL

(***************************************************************************)
(* zeros_float keeps its promise to every caller that lets it block and    *)
(* whose buffers are whole numbers of floats, whatever transfers come      *)
(* before and after: the vector it writes from lives until it is read.     *)
(***************************************************************************)
THEOREM ZerosAreFilled ==
  ASSUME UsedWell
  PROVE  Spec => []ZerosFilled
<1>1. ZerosInv => ZerosFilled
  <2>. SUFFICES ASSUME ZerosInv, NEW b \in zeroed, Untouched(b) PROVE AllZero(b)
    BY DEF ZerosFilled, Untouched, AllZero
  <2>1. queue # <<>> => Len(queue) \in DOMAIN queue
    BY TailFacts DEF ZerosInv, TypeInv
  <2>. QED BY <2>1 DEF ZerosInv, ZeroedInv, VectorInv, LastZeroes, Untouched
<1>. QED
  BY <1>1, ZerosInvariance, PTL

-----------------------------------------------------------------------------
(* Buffers and regions as they are once the commands of a queue are done *)

States == [memory : Store!Memories, host : [Regions -> Store!Contents(RegionSize)]]

\* f goes through the states that s is in as the commands q are done one by one.
IsRunOf(f, q, s) ==
  f = [j \in 0 .. Len(q) |-> IF j = 0 THEN s ELSE Done(q[j], f[j - 1])]

LEMMA DoneType ==
  ASSUME NEW c \in ProperCommands, NEW s \in States
  PROVE  Done(c, s) \in States
<1>1. /\ c.buffer \in Buffers /\ c.offset \in Nat /\ c.size \in Nat
      /\ c.op \in {"read", "write"} /\ c.offset + c.size <= Size[c.buffer]
      /\ c.host \in Regions \/ (c.host = Vector /\ c.op = "write")
      /\ c.host \in Regions => c.size <= RegionSize /\ c.host # Vector
  BY VectorAssumption DEF ProperCommands, Commands
<1>2. /\ s.memory \in Store!Memories /\ s.host \in [Regions -> Store!Contents(RegionSize)]
      /\ s.memory[c.buffer] \in Store!Contents(Size[c.buffer])
      /\ c.host \in Regions => s.host[c.host] \in Store!Contents(RegionSize)
      /\ Size[c.buffer] \in Nat /\ RegionSize \in Nat
  BY <1>1, MemoryFacts, SizeFacts DEF States
<1>3. CASE c.op = "read"
  <2>1. Store!Copied(s.host[c.host], 0, s.memory[c.buffer], c.offset, c.size)
          \in Store!Contents(RegionSize)
    BY <1>1, <1>2, <1>3, CopiedType
  <2>2. c.host \in Regions
    BY <1>1, <1>3
  <2>. QED BY <1>2, <1>3, <2>1, <2>2 DEF Done, States
<1>4. CASE c.op = "write" /\ c.host = Vector
  <2>. DEFINE x == [k \in DOMAIN s.memory[c.buffer] |-> 0]
  <2>1. x \in Store!Contents(Size[c.buffer])
    BY <1>2, SizeFacts DEF Store!Contents
  <2>. HIDE DEF x
  <2>2. [s.memory EXCEPT ![c.buffer] = x] \in Store!Memories
    BY <1>1, <1>2, <2>1, MemoryFacts
  <2>3. Done(c, s) = [s EXCEPT !.memory = [s.memory EXCEPT ![c.buffer] = x]]
    BY <1>4 DEF Done, x
  <2>. QED BY <1>2, <2>2, <2>3 DEF States
<1>5. CASE c.op = "write" /\ c.host \in Regions
  <2>. DEFINE x == Store!Copied(s.memory[c.buffer], c.offset, s.host[c.host], 0, c.size)
  <2>1. x \in Store!Contents(Size[c.buffer])
    <3>1. 0 + c.size <= RegionSize
      BY <1>1, <1>5
    <3>. QED BY <1>1, <1>2, <1>5, <3>1, CopiedType
  <2>. HIDE DEF x
  <2>2. [s.memory EXCEPT ![c.buffer] = x] \in Store!Memories
    BY <1>1, <1>2, <2>1, MemoryFacts
  <2>3. Done(c, s) = [s EXCEPT !.memory = [s.memory EXCEPT ![c.buffer] = x]]
    BY <1>1, <1>5 DEF Done, x
  <2>. QED BY <1>2, <2>2, <2>3 DEF States
<1>. QED
  BY <1>1, <1>3, <1>4, <1>5

LEMMA RunExists ==
  ASSUME NEW q \in Seq(ProperCommands), NEW s \in States
  PROVE  \E f \in [0 .. Len(q) -> States] : IsRunOf(f, q, s)
<1>. DEFINE m == Len(q)
            step == [n \in Nat |-> [x \in States |-> IF n < m THEN Done(q[n + 1], x) ELSE x]]
<1>1. m \in Nat /\ \A n \in Nat : n < m => q[n + 1] \in ProperCommands
  OBVIOUS
<1>2. step \in StepFunctions(States)
  BY <1>1, DoneType DEF StepFunctions
<1>3. PICK f \in [0 .. m -> States] : IsRun(f, m, s, step)
  <2>. HIDE DEF step, m
  <2>. QED BY <1>1, <1>2, BoundedRecursion
<1>4. ASSUME NEW j \in 0 .. m, j # 0
      PROVE  step[j - 1][f[j - 1]] = Done(q[j], f[j - 1])
  <2>1. j - 1 \in Nat /\ j - 1 < m /\ j - 1 \in 0 .. m /\ (j - 1) + 1 = j
    BY <1>1, <1>4
  <2>2. f[j - 1] \in States
    BY <1>3, <2>1
  <2>. QED BY <2>1, <2>2
<1>5. f = [j \in 0 .. m |-> IF j = 0 THEN s ELSE Done(q[j], f[j - 1])]
  <2>. HIDE DEF step, m
  <2>. QED BY <1>3, <1>4 DEF IsRun
<1>. QED
  BY <1>5 DEF IsRunOf

LEMMA RunIsUnique ==
  ASSUME NEW q, Len(q) \in Nat, NEW s, NEW f, NEW g, IsRunOf(f, q, s), IsRunOf(g, q, s)
  PROVE  f = g
<1>. DEFINE m == Len(q)
            E == {n \in Nat : n <= m => f[n] = g[n]}
<1>1. 0 \in E
  BY DEF IsRunOf
<1>2. ASSUME NEW n \in Nat, n \in E PROVE n + 1 \in E
  <2>1. CASE ~ (n + 1 <= m)
    BY <2>1
  <2>2. CASE n + 1 <= m
    <3>1. n + 1 \in 0 .. m /\ (n + 1) - 1 = n /\ n + 1 # 0 /\ n <= m
      BY <2>2
    <3>2. f[n + 1] = Done(q[n + 1], f[n]) /\ g[n + 1] = Done(q[n + 1], g[n])
      BY <3>1 DEF IsRunOf
    <3>. QED BY <1>2, <3>1, <3>2
  <2>. QED BY <2>1, <2>2
<1>3. Nat \subseteq E
  <2>. HIDE DEF E
  <2>. QED BY <1>1, <1>2, NatSetInduction
<1>4. \A n \in 0 .. m : f[n] = g[n]
  BY <1>3
<1>. QED
  BY <1>4 DEF IsRunOf

\* Any such run ends in what AllDone says.
LEMMA AllDoneIs ==
  ASSUME NEW q, Len(q) \in Nat, NEW s, NEW f, IsRunOf(f, q, s)
  PROVE  AllDone(q, s) = f[Len(q)]
<1>. DEFINE h == CHOOSE g : IsRunOf(g, q, s)
<1>1. IsRunOf(h, q, s)
  OBVIOUS
<1>2. AllDone(q, s) = h[Len(q)]
  BY DEF AllDone, IsRunOf
<1>. HIDE DEF h
<1>. QED
  BY <1>1, <1>2, RunIsUnique

LEMMA AllDoneType ==
  ASSUME NEW q \in Seq(ProperCommands), NEW s \in States
  PROVE  AllDone(q, s) \in States
<1>1. PICK f \in [0 .. Len(q) -> States] : IsRunOf(f, q, s)
  BY RunExists
<1>2. Len(q) \in Nat /\ Len(q) \in 0 .. Len(q)
  OBVIOUS
<1>. QED
  BY <1>1, <1>2, AllDoneIs

LEMMA AllDoneEmpty ==
  ASSUME NEW s
  PROVE  AllDone(<<>>, s) = s
<1>. DEFINE f == [j \in 0 .. 0 |-> s]
<1>1. Len(<<>>) = 0 /\ 0 \in Nat
  OBVIOUS
<1>2. IsRunOf(f, <<>>, s)
  BY <1>1 DEF IsRunOf
<1>3. f[0] = s
  OBVIOUS
<1>. HIDE DEF f
<1>. QED
  BY <1>1, <1>2, <1>3, AllDoneIs

\* A command put at the end is done last.
LEMMA AllDoneAppend ==
  ASSUME NEW q \in Seq(ProperCommands), NEW s \in States, NEW c \in ProperCommands
  PROVE  AllDone(Append(q, c), s) = Done(c, AllDone(q, s))
<1>. DEFINE m == Len(q)
            qq == Append(q, c)
<1>1. PICK f \in [0 .. m -> States] : IsRunOf(f, q, s)
  BY RunExists
<1>2. /\ m \in Nat /\ Len(qq) = m + 1 /\ \A j \in 1 .. m : qq[j] = q[j]
      /\ qq[m + 1] = c
  BY AppendFacts
<1>. HIDE DEF qq, m
<1>. DEFINE g == [j \in 0 .. m + 1 |-> IF j = m + 1 THEN Done(c, f[m]) ELSE f[j]]
<1>3. ASSUME NEW j \in 0 .. m + 1
      PROVE  g[j] = IF j = 0 THEN s ELSE Done(qq[j], g[j - 1])
  <2>1. CASE j = 0
    BY <1>1, <1>2, <2>1 DEF IsRunOf, m
  <2>2. CASE j = m + 1
    BY <1>2, <2>2
  <2>3. CASE j \in 1 .. m
    <3>1. j \in 0 .. m /\ j # 0 /\ j # m + 1 /\ j - 1 \in 0 .. m + 1 /\ j - 1 # m + 1
      BY <1>2, <2>3
    <3>2. f[j] = Done(q[j], f[j - 1])
      BY <1>1, <3>1 DEF IsRunOf, m
    <3>. QED BY <1>2, <2>3, <3>1, <3>2
  <2>. QED BY <1>2, <2>1, <2>2, <2>3
<1>4. IsRunOf(g, qq, s)
  BY <1>2, <1>3 DEF IsRunOf
<1>5. g[m + 1] = Done(c, f[m])
  BY <1>2
<1>. HIDE DEF g
<1>6. AllDone(qq, s) = g[m + 1] /\ m + 1 \in Nat
  BY <1>2, <1>4, AllDoneIs
<1>7. AllDone(q, s) = f[m]
  BY <1>1, <1>2, AllDoneIs DEF m
<1>. QED
  BY <1>5, <1>6, <1>7 DEF qq

\* The command at the head is done first.
LEMMA AllDoneTail ==
  ASSUME NEW q \in Seq(ProperCommands), q # <<>>, NEW s \in States
  PROVE  AllDone(q, s) = AllDone(Tail(q), Done(Head(q), s))
<1>. DEFINE m == Len(q)
            qq == Tail(q)
            first == Done(Head(q), s)
<1>1. PICK f \in [0 .. m -> States] : IsRunOf(f, q, s)
  BY RunExists
<1>2. /\ m \in Nat \ {0} /\ Len(qq) = m - 1 /\ \A j \in 1 .. m - 1 : qq[j] = q[j + 1]
      /\ Head(q) = q[1]
  BY TailFacts
<1>3. ASSUME NEW j \in 0 .. m PROVE f[j] = IF j = 0 THEN s ELSE Done(q[j], f[j - 1])
  BY <1>1 DEF IsRunOf
<1>. HIDE DEF qq, m
<1>. DEFINE g == [j \in 0 .. m - 1 |-> f[j + 1]]
<1>4. ASSUME NEW j \in 0 .. m - 1
      PROVE  g[j] = IF j = 0 THEN first ELSE Done(qq[j], g[j - 1])
  <2>1. j + 1 \in 0 .. m /\ j + 1 # 0 /\ (j + 1) - 1 = j
    BY <1>2
  <2>2. f[j + 1] = Done(q[j + 1], f[j])
    BY <1>3, <2>1
  <2>3. CASE j = 0
    <3>1. f[0] = s /\ j + 1 = 1
      BY <1>2, <1>3, <2>3
    <3>. QED BY <1>2, <2>2, <2>3, <3>1
  <2>4. CASE j # 0
    <3>1. j \in 1 .. m - 1 /\ j - 1 \in 0 .. m - 1 /\ (j - 1) + 1 = j
      BY <1>2, <2>4
    <3>. QED BY <1>2, <2>2, <2>4, <3>1
  <2>. QED BY <2>3, <2>4
<1>. HIDE DEF first
<1>5. IsRunOf(g, qq, first)
  BY <1>2, <1>4 DEF IsRunOf
<1>6. g[m - 1] = f[m] /\ m - 1 \in Nat
  BY <1>2
<1>. HIDE DEF g
<1>7. AllDone(qq, first) = g[m - 1]
  BY <1>2, <1>5, <1>6, AllDoneIs
<1>8. AllDone(q, s) = f[m]
  BY <1>1, <1>2, AllDoneIs DEF m
<1>. QED
  BY <1>6, <1>7, <1>8 DEF qq, first

\* A region that no command names may be filled before or after.
Stored(s, r, x) == [s EXCEPT !.host = [s.host EXCEPT ![r] = x]]

LEMMA DoneStored ==
  ASSUME NEW c \in ProperCommands, NEW s \in States, NEW r \in Regions, c.host # r, NEW x
  PROVE  Done(c, Stored(s, r, x)) = Stored(Done(c, s), r, x)
<1>1. /\ c.op \in {"read", "write"} /\ c.host \in Regions \union {Vector}
      /\ s.host \in [Regions -> Store!Contents(RegionSize)]
      /\ s = [memory |-> s.memory, host |-> s.host]
  BY DEF ProperCommands, Commands, States
<1>2. /\ Stored(s, r, x).memory = s.memory
      /\ Stored(s, r, x).host = [s.host EXCEPT ![r] = x]
      /\ c.host \in Regions => Stored(s, r, x).host[c.host] = s.host[c.host]
  BY <1>1 DEF Stored
<1>3. CASE c.op = "read"
  <2>. DEFINE y == Store!Copied(s.host[c.host], 0, s.memory[c.buffer], c.offset, c.size)
  <2>1. c.host \in Regions
    BY <1>3 DEF ProperCommands, Commands
  <2>2. Done(c, s) = [memory |-> s.memory, host |-> [s.host EXCEPT ![c.host] = y]]
    BY <1>1, <1>3 DEF Done
  <2>3. Done(c, Stored(s, r, x)) =
          [memory |-> s.memory, host |-> [[s.host EXCEPT ![r] = x] EXCEPT ![c.host] = y]]
    BY <1>1, <1>2, <1>3, <2>1 DEF Done, Stored
  <2>. HIDE DEF y
  <2>4. [[s.host EXCEPT ![r] = x] EXCEPT ![c.host] = y]
          = [[s.host EXCEPT ![c.host] = y] EXCEPT ![r] = x]
    BY <1>1
  <2>. QED BY <2>2, <2>3, <2>4 DEF Stored
<1>4. CASE c.op = "write"
  <2>. DEFINE from == IF c.host = Vector THEN [k \in DOMAIN s.memory[c.buffer] |-> 0]
                      ELSE Store!Copied(s.memory[c.buffer], c.offset, s.host[c.host], 0, c.size)
  <2>1. Done(c, s) = [memory |-> [s.memory EXCEPT ![c.buffer] = from], host |-> s.host]
    BY <1>1, <1>4 DEF Done
  <2>2. Done(c, Stored(s, r, x)) =
          [memory |-> [s.memory EXCEPT ![c.buffer] = from], host |-> [s.host EXCEPT ![r] = x]]
    BY <1>1, <1>2, <1>4 DEF Done, Stored
  <2>. HIDE DEF from
  <2>. QED BY <2>1, <2>2 DEF Stored
<1>. QED
  BY <1>1, <1>3, <1>4

LEMMA AllDoneStored ==
  ASSUME NEW q \in Seq(ProperCommands), NEW s \in States, NEW r \in Regions,
         \A j \in DOMAIN q : q[j].host # r, NEW x
  PROVE  AllDone(q, Stored(s, r, x)) = Stored(AllDone(q, s), r, x)
<1>. DEFINE m == Len(q)
<1>1. PICK f \in [0 .. m -> States] : IsRunOf(f, q, s)
  BY RunExists
<1>2. m \in Nat /\ \A j \in 1 .. m : q[j] \in ProperCommands /\ q[j].host # r
  OBVIOUS
<1>. DEFINE g == [j \in 0 .. m |-> Stored(f[j], r, x)]
<1>3. ASSUME NEW j \in 0 .. m
      PROVE  g[j] = IF j = 0 THEN Stored(s, r, x) ELSE Done(q[j], g[j - 1])
  <2>1. f[j] = IF j = 0 THEN s ELSE Done(q[j], f[j - 1])
    BY <1>1 DEF IsRunOf
  <2>2. CASE j = 0
    BY <2>1, <2>2
  <2>3. CASE j # 0
    <3>1. j \in 1 .. m /\ j - 1 \in 0 .. m
      BY <1>2, <2>3
    <3>2. f[j - 1] \in States
      BY <1>1, <3>1
    <3>3. Done(q[j], Stored(f[j - 1], r, x)) = Stored(Done(q[j], f[j - 1]), r, x)
      BY <1>2, <3>1, <3>2, DoneStored
    <3>. QED BY <2>1, <2>3, <3>1, <3>3
  <2>. QED BY <2>2, <2>3
<1>4. IsRunOf(g, q, Stored(s, r, x))
  BY <1>3 DEF IsRunOf
<1>5. g[m] = Stored(f[m], r, x)
  BY <1>2
<1>. HIDE DEF g
<1>. QED
  BY <1>1, <1>2, <1>4, <1>5, AllDoneIs

-----------------------------------------------------------------------------
(* Every transfer takes place at its call *)

Now == [memory |-> memory, host |-> host]

PromiseInv == ZerosInv /\ RegionsSettled

LEMMA NowFacts ==
  ASSUME TypeInv
  PROVE  /\ Now \in States /\ queue \in Seq(ProperCommands)
         /\ Settled = AllDone(queue, Now) /\ Settled \in States
<1>1. Now \in States /\ queue \in Seq(ProperCommands) /\ Settled = AllDone(queue, Now)
  BY DEF Now, States, TypeInv, Settled
<1>. QED
  BY <1>1, AllDoneType

\* The same cells are copied, in the buffers and regions that are and in those that will be.
LEMMA CopiedAlike ==
  ASSUME NEW to, NEW t, NEW from, NEW f, NEW n
  PROVE  Promise!Copied(to, t, from, f, n) = Store!Copied(to, t, from, f, n)
BY DEF Promise!Copied, Store!Copied

LEMMA TransferRefines ==
  ASSUME PromiseInv, NEW b \in Buffers, NEW r \in Regions, NEW n \in 0 .. RegionSize,
         NEW block \in BOOLEAN, NEW op \in {"read", "write"}, NEW offset \in 0 .. Size[b],
         Transfer(op, b, offset, n, r, block)
  PROVE  Promise!Write(b, offset, n, r) \/ Promise!Read(b, offset, n, r)
<1>. DEFINE c == Command(op, b, offset, n, r)
<1>1. queue' = Append(queue, c) /\ UNCHANGED <<memory, host>> /\ Store!Fits(b, offset, n)
  BY DEF Transfer, Enqueue
<1>2. /\ c \in ProperCommands /\ c.op = op /\ c.buffer = b /\ c.offset = offset
      /\ c.size = n /\ c.host = r /\ r # Vector
  BY <1>1, TransferCommand, CommandTypes
<1>. HIDE DEF c
<1>3. /\ Now \in States /\ queue \in Seq(ProperCommands)
      /\ Settled = AllDone(queue, Now) /\ Settled \in States
  BY NowFacts DEF PromiseInv, ZerosInv
<1>4. Settled' = AllDone(Append(queue, c), Now)
  BY <1>1 DEF Settled, Now
<1>5. Settled' = Done(c, Settled)
  BY <1>2, <1>3, <1>4, AllDoneAppend
<1>6. Promise!Fits(b, offset, n)
  BY <1>1 DEF Promise!Fits, Store!Fits
<1>7. CASE op = "write"
  <2>1. /\ Settled.memory' =
             [Settled.memory EXCEPT ![b] = Store!Copied(@, offset, Settled.host[r], 0, n)]
        /\ Settled.host' = Settled.host
    BY <1>2, <1>3, <1>5, <1>7 DEF Done, States
  <2>. QED BY <1>6, <2>1, CopiedAlike DEF Promise!Write
<1>8. CASE op = "read"
  <2>1. /\ Settled.host' =
             [Settled.host EXCEPT ![r] = Store!Copied(@, 0, Settled.memory[b], offset, n)]
        /\ Settled.memory' = Settled.memory
    BY <1>2, <1>3, <1>5, <1>8 DEF Done, States
  <2>. QED BY <1>6, <2>1, CopiedAlike DEF Promise!Read
<1>. QED
  BY <1>7, <1>8

LEMMA ZeroingRefines ==
  ASSUME PromiseInv, NEW b \in Buffers, NEW block \in ZerosBlock, Zeroing(b, block)
  PROVE  Promise!Zero(b)
<1>. DEFINE c == Command("write", b, 0, Size[b], Vector)
<1>1. queue' = Append(queue, c) /\ UNCHANGED <<memory, host>>
  BY DEF Zeroing, Enqueue
<1>2. c \in ProperCommands /\ c.op = "write" /\ c.buffer = b /\ c.host = Vector
  BY ZeroingCommand, CommandTypes, SizeFacts
<1>. HIDE DEF c
<1>3. /\ Now \in States /\ queue \in Seq(ProperCommands)
      /\ Settled = AllDone(queue, Now) /\ Settled \in States
  BY NowFacts DEF PromiseInv, ZerosInv
<1>4. Settled' = AllDone(Append(queue, c), Now)
  BY <1>1 DEF Settled, Now
<1>5. Settled' = Done(c, Settled)
  BY <1>2, <1>3, <1>4, AllDoneAppend
<1>6. /\ Settled.memory' = [Settled.memory EXCEPT ![b] = [k \in DOMAIN @ |-> 0]]
      /\ Settled.host' = Settled.host
  BY <1>2, <1>3, <1>5 DEF Done, States
<1>. QED
  BY <1>6 DEF Promise!Zero

LEMMA StoreRefines ==
  ASSUME PromiseInv, NEW r \in Regions, NEW v \in Values, ClientStore(r, v)
  PROVE  Promise!Store(r, v)
<1>. DEFINE x == [k \in 0 .. RegionSize - 1 |-> v]
<1>1. /\ host_pc = "run" /\ r \notin in_use /\ UNCHANGED <<memory, queue>>
      /\ host' = [host EXCEPT ![r] = [k \in DOMAIN host[r] |-> v]]
  BY DEF ClientStore
<1>2. /\ Now \in States /\ queue \in Seq(ProperCommands)
      /\ Settled = AllDone(queue, Now) /\ Settled \in States
  BY NowFacts DEF PromiseInv, ZerosInv
<1>3. \A j \in DOMAIN queue : queue[j].host # r
  BY <1>1, VectorAssumption DEF PromiseInv, RegionsSettled
<1>4. DOMAIN host[r] = 0 .. RegionSize - 1 /\ DOMAIN Settled.host[r] = 0 .. RegionSize - 1
  BY <1>2 DEF PromiseInv, ZerosInv, TypeInv, States, Store!Contents
<1>5. host' = [host EXCEPT ![r] = x]
  BY <1>1, <1>4
<1>. HIDE DEF x
<1>6. Now' = Stored(Now, r, x)
  BY <1>1, <1>5 DEF Now, Stored
<1>7. Settled' = AllDone(queue, Stored(Now, r, x))
  BY <1>1, <1>6 DEF Settled, Now
<1>8. Settled' = Stored(Settled, r, x)
  BY <1>2, <1>3, <1>7, AllDoneStored
<1>9. Settled.host' = [Settled.host EXCEPT ![r] = x] /\ Settled.memory' = Settled.memory
  BY <1>2, <1>8 DEF Stored, States
<1>10. [Settled.host EXCEPT ![r] = x]
         = [Settled.host EXCEPT ![r] = [k \in DOMAIN Settled.host[r] |-> v]]
  BY <1>4 DEF x
<1>. QED
  BY <1>9, <1>10 DEF Promise!Store

\* What the device does to buffers and regions is what Done says of its command.
LEMMA DeviceDoes ==
  ASSUME PromiseInv, ExecuteHead
  PROVE  Now' = Done(Head(queue), Now)
<1>. DEFINE c == Head(queue)
<1>. SUFFICES Now' = Done(c, Now)
  OBVIOUS
<1>1. queue # <<>> /\ c \in ProperCommands /\ c = queue[1] /\ 1 \in DOMAIN queue
  BY TailFacts DEF ExecuteHead, PromiseInv, ZerosInv, TypeInv
<1>2. /\ c.buffer \in Buffers /\ c.host \in Regions \union {Vector} /\ c.size \in Nat
      /\ c.op \in {"read", "write"}
      /\ c.host = Vector => c.op = "write"
  BY <1>1 DEF ProperCommands, Commands
<1>3. /\ DOMAIN memory = Buffers /\ DOMAIN memory[c.buffer] = 0 .. Size[c.buffer] - 1
      /\ host \in [Regions -> Store!Contents(RegionSize)] /\ Size[c.buffer] \in Nat
  BY <1>2, TypeInvFacts, SizeFacts DEF PromiseInv, ZerosInv, TypeInv
<1>4. \/ /\ c.op = "write" /\ UNCHANGED host
         /\ \E s \in Sources(c) :
              memory' = [memory EXCEPT ![c.buffer] = Store!Copied(@, c.offset, s, 0, c.size)]
      \/ /\ c.op = "read" /\ UNCHANGED memory
         /\ host' = [host EXCEPT ![c.host] =
                       Store!Copied(@, 0, memory[c.buffer], c.offset, c.size)]
  BY DEF ExecuteHead
<1>5. c.host = Vector => c.offset = 0 /\ c.size = Size[c.buffer] /\ vector = Size[c.buffer]
  BY <1>1 DEF PromiseInv, ZerosInv, VectorInv
<1>. HIDE DEF c
<1>6. CASE c.op = "read"
  BY <1>3, <1>4, <1>6 DEF Now, Done
<1>7. CASE c.op = "write" /\ c.host # Vector
  BY <1>3, <1>4, <1>7 DEF Now, Done, Sources
<1>8. CASE c.op = "write" /\ c.host = Vector
  <2>1. PICK s \in Sources(c) :
          memory' = [memory EXCEPT ![c.buffer] =
                       Store!Copied(memory[c.buffer], 0, s, 0, Size[c.buffer])]
    BY <1>4, <1>5, <1>8
  <2>2. \A k \in 0 .. Size[c.buffer] - 1 : s[k] = 0
    <3>1. s \in Store!Contents(Size[c.buffer]) /\ \A k \in DOMAIN s : k < Size[c.buffer] => s[k] = 0
      BY <1>5, <1>8 DEF Sources
    <3>. QED BY <1>3, <3>1 DEF Store!Contents
  <2>3. Store!Copied(memory[c.buffer], 0, s, 0, Size[c.buffer])
          = [k \in 0 .. Size[c.buffer] - 1 |-> 0]
    <3>1. \A k \in 0 .. Size[c.buffer] - 1 : k \in 0 .. 0 + Size[c.buffer] - 1 /\ k - 0 + 0 = k
      BY <1>3
    <3>. QED BY <1>3, <2>2, <3>1 DEF Store!Copied
  <2>. QED BY <1>3, <1>4, <1>8, <2>1, <2>3 DEF Now, Done
<1>. QED
  BY <1>2, <1>6, <1>7, <1>8

LEMMA DeviceStutters ==
  ASSUME PromiseInv, ExecuteHead
  PROVE  Settled' = Settled
<1>1. queue # <<>> /\ queue' = Tail(queue)
  BY DEF ExecuteHead
<1>2. /\ Now \in States /\ queue \in Seq(ProperCommands) /\ Settled = AllDone(queue, Now)
  BY NowFacts DEF PromiseInv, ZerosInv
<1>3. Settled' = AllDone(queue', Now')
  BY DEF Settled, Now
<1>. QED
  BY <1>1, <1>2, <1>3, DeviceDoes, AllDoneTail

LEMMA StepRefines ==
  ASSUME PromiseInv, [Next]_vars
  PROVE  [Promise!Next]_<<Settled.memory, Settled.host>>
<1>1. ASSUME NEW b \in Buffers, NEW r \in Regions, NEW n \in 0 .. RegionSize,
             NEW block \in BOOLEAN, NEW op \in {"read", "write"}, NEW offset \in 0 .. Size[b],
             Transfer(op, b, offset, n, r, block)
      PROVE  Promise!Next
  BY <1>1, TransferRefines DEF Promise!Next
<1>2. ASSUME NEW b \in Buffers, NEW block \in ZerosBlock, Zeroing(b, block)
      PROVE  Promise!Next
  BY <1>2, ZeroingRefines DEF Promise!Next
<1>3. ASSUME NEW r \in Regions, NEW v \in Values, ClientStore(r, v)
      PROVE  Promise!Next
  BY <1>3, StoreRefines DEF Promise!Next
<1>4. CASE ExecuteHead
  BY <1>4, DeviceStutters
<1>5. CASE UNCHANGED <<memory, host, queue>>
  BY <1>5 DEF Settled
<1>. QED
  BY <1>1, <1>2, <1>3, <1>4, <1>5, StepKinds DEF Throw, Block, Return, vars

(***************************************************************************)
(* To a client that keeps its hands off a region until block() and has     *)
(* zeros_float wait, an in-order queue worked off at any pace is no        *)
(* different from transfers that happen at once: the delay can neither be  *)
(* read in a region nor found in a buffer.                                 *)
(***************************************************************************)
THEOREM TransfersTakePlaceAtOnce ==
  ASSUME UsedWell
  PROVE  Spec => RefinesBufferStore
<1>1. Init => PromiseInv
  BY TypeInit DEF Init, PromiseInv, ZerosInv, VectorInv, ZeroedInv, RegionsSettled
<1>2. PromiseInv /\ [Next]_vars => PromiseInv'
  BY ZerosStep, RegionsStep DEF PromiseInv, ZerosInv
<1>3. Init => Promise!Init
  <2>. SUFFICES ASSUME Init PROVE Promise!Init
    OBVIOUS
  <2>1. Settled = [memory |-> memory, host |-> host]
    BY AllDoneEmpty DEF Init, Settled
  <2>2. Settled.memory = memory /\ Settled.host = host
    BY <2>1
  <2>. QED
    BY <2>2 DEF Init, Promise!Init, Promise!Memories, Promise!Contents,
                Store!Memories, Store!Contents
<1>4. PromiseInv /\ [Next]_vars => [Promise!Next]_<<Settled.memory, Settled.host>>
  BY StepRefines
<1>. QED
  BY <1>1, <1>2, <1>3, <1>4, PTL DEF Spec, RefinesBufferStore, Promise!Spec

=============================================================================
