-------------------------- MODULE KernelArgsProofs --------------------------
(***************************************************************************)
(* For any kernels, arities and values: the stack of arguments agrees with *)
(* what the client pushed, and push_arg and execute implement ArgStack.    *)
(***************************************************************************)
EXTENDS KernelArgs, SequenceTheorems, TLAPS

Cells == Values \union {Unset}

-----------------------------------------------------------------------------
(* The invariant, action by action. *)

LEMMA IndicesFacts ==
  ASSUME NEW k \in Kernels
  PROVE  Arity[k] \in Nat /\ Indices(k) = 0 .. Arity[k] - 1
BY KernelArgsAssumption DEF Indices

\* The correction of the wait list goes wrong for nothing but a list with a negative count.
LEMMA WaitTakenUnlessNegative ==
  ASSUME NEW given \in BOOLEAN, NEW count \in Counts, ~(given /\ count < 0)
  PROVE  WaitTaken(given, count)
<1>1. count \in Int /\ 2 * count \in -UINT_RANGE .. UINT_RANGE - 1 /\ UINT_RANGE \in Nat \ {0}
  BY KernelArgsAssumption
<1>2. WaitCount(given, count) \in 0 .. UINT_RANGE - 1
  BY <1>1 DEF WaitCount
<1>3. WaitCount(given, count) % UINT_RANGE = WaitCount(given, count)
  <2>1. \A n \in 0 .. UINT_RANGE - 1 : n % UINT_RANGE = n
    BY <1>1
  <2> QED BY <1>2, <2>1
<1>4. ~given => ~(WaitCount(given, count) > 0)
  BY DEF WaitCount
<1> QED BY <1>3, <1>4 DEF WaitTaken, WaitList, NumEvents

LEMMA InitEstablishesInv == Init => StackInv /\ StopHasCause
<1> SUFFICES ASSUME Init PROVE StackInv /\ StopHasCause
  OBVIOUS
<1>1. \A k \in Kernels : <<>> \in Seq([Indices(k) -> Cells])
  BY EmptySeq
<1>2. TypeOK
  <2>1. negative_count \in BOOLEAN
    BY DEF Init
  <2>2. \A k \in Kernels : /\ kernel_arg[k] \in [Indices(k) -> Cells]
                           /\ launched[k] \in Seq([Indices(k) -> Cells])
    BY <1>1 DEF Init, Cells
  <2> QED BY <2>1, <2>2 DEF Init, TypeOK, Cells
<1> QED BY <1>2 DEF Init, StackInv, StackAgrees, StopHasCause

\* A step that touches the fields of one kernel leaves the others in agreement.
LEMMA OthersAgree ==
  ASSUME StackInv, NEW k \in Kernels, TypeOK', StackAgrees(k)', Running' => Running,
         \A j \in Kernels : j # k => /\ arg_stack_size'[j] = arg_stack_size[j]
                                     /\ initialized'[j] = initialized[j]
                                     /\ kernel_arg'[j] = kernel_arg[j]
                                     /\ pushes'[j] = pushes[j]
  PROVE  StackInv'
<1>1. ASSUME NEW j \in Kernels, j # k PROVE StackAgrees(j)'
  <2>1. StackAgrees(j)
    BY DEF StackInv
  <2> QED BY <1>1, <2>1 DEF StackAgrees
<1> QED BY <1>1 DEF StackInv

\* An error leaves the stacks where they are, or empties one.
LEMMA StopKeepsInv ==
  ASSUME StackInv, NEW k \in Kernels, NEW why \in {"events", "sizes", "driver"}, Stop(why),
         negative_count' \in BOOLEAN,
         arg_stack_size' \in {arg_stack_size, [arg_stack_size EXCEPT ![k] = 0]}
  PROVE  StackInv'
<1>1. TypeOK'
  <2>1. arg_stack_size' \in [Kernels -> Nat]
    BY DEF StackInv, TypeOK
  <2> QED BY <2>1 DEF Stop, StackInv, TypeOK
<1>2. arg_stack_size'[k] \in {0, arg_stack_size[k]} /\ ~Running'
      /\ \A j \in Kernels : j # k => arg_stack_size'[j] = arg_stack_size[j]
  BY DEF Stop, StackInv, TypeOK, Running
<1>3. StackAgrees(k)'
  <2>1. StackAgrees(k) /\ Arity[k] \in Nat /\ \A i \in Indices(k) : ~(i < 0)
    BY IndicesFacts DEF StackInv
  <2> QED BY <1>2, <2>1 DEF StackAgrees, Stop
<1> QED BY <1>1, <1>2, <1>3, OthersAgree DEF Stop

\* A kernel made, whatever its fields held before.
LEMMA KernelInitPreservesInv ==
  ASSUME StackInv, StopHasCause, NEW k \in Kernels, KernelInit(k)
  PROVE  StackInv' /\ StopHasCause'
<1>1. TypeOK'
  BY DEF KernelInit, StackInv, TypeOK
<1>2. /\ initialized'[k] /\ arg_stack_size'[k] = 0 /\ pushes'[k] = 0 /\ UNCHANGED cause
      /\ \A j \in Kernels : j # k => /\ arg_stack_size'[j] = arg_stack_size[j]
                                     /\ initialized'[j] = initialized[j]
  BY DEF KernelInit, StackInv, StackAgrees, TypeOK
<1>3. StackAgrees(k)'
  BY <1>2, IndicesFacts DEF StackAgrees
<1>4. StackInv'
  BY <1>1, <1>2, <1>3, OthersAgree DEF KernelInit, Running
<1> QED BY <1>2, <1>4 DEF StopHasCause, KernelInit

LEMMA PushArgPreservesInv ==
  ASSUME StackInv, StopHasCause, NEW k \in Kernels, NEW v \in Values, PushArg(k, v)
  PROVE  StackInv' /\ StopHasCause'
<1>1. /\ StackAgrees(k) /\ initialized[k] /\ Running
      /\ arg_stack_size[k] = pushes[k] /\ arg_stack_size[k] \in Indices(k)
      /\ arg_stack_size[k] \in Nat /\ arg_stack_size[k] + 1 <= Arity[k]
  BY IndicesFacts DEF PushArg, StackInv, StackAgrees, TypeOK
<1>2. CASE Stop("driver") /\ UNCHANGED <<arg_stack_size, negative_count>>
  <2>1. negative_count' \in BOOLEAN
    BY <1>2 DEF StackInv, TypeOK
  <2>2. StackInv'
    BY <1>2, <2>1, StopKeepsInv
  <2> QED BY <1>2, <2>2 DEF Stop, StopHasCause
<1>3. CASE /\ kernel_arg' = [kernel_arg EXCEPT ![k][arg_stack_size[k]] = v]
           /\ arg_stack_size' = [arg_stack_size EXCEPT ![k] = @ + 1]
           /\ pushes' = [pushes EXCEPT ![k] = @ + 1]
           /\ UNCHANGED <<initialized, launched, negative_count, cause>>
  <2>1. /\ DOMAIN kernel_arg' = Kernels
        /\ kernel_arg'[k] = [kernel_arg[k] EXCEPT ![arg_stack_size[k]] = v]
        /\ \A j \in Kernels : j # k => kernel_arg'[j] = kernel_arg[j]
    BY <1>3 DEF StackInv, TypeOK
  <2>2. kernel_arg[k] \in [Indices(k) -> Cells]
    BY DEF StackInv, TypeOK, Cells
  <2>3. /\ kernel_arg'[k] \in [Indices(k) -> Cells]
        /\ \A i \in Indices(k) :
             kernel_arg'[k][i] = IF i = arg_stack_size[k] THEN v ELSE kernel_arg[k][i]
    BY <1>1, <2>1, <2>2 DEF Cells
  <2>4. /\ arg_stack_size'[k] = arg_stack_size[k] + 1 /\ pushes'[k] = pushes[k] + 1
        /\ \A j \in Kernels : j # k => arg_stack_size'[j] = arg_stack_size[j] /\ pushes'[j] = pushes[j]
        /\ arg_stack_size' \in [Kernels -> Nat] /\ pushes' \in [Kernels -> Nat]
    BY <1>3 DEF StackInv, TypeOK
  <2>5. TypeOK'
    <3>1. \A j \in Kernels : kernel_arg'[j] \in [Indices(j) -> Cells]
      BY <2>1, <2>3 DEF StackInv, TypeOK, Cells
    <3> QED BY <1>3, <2>1, <2>4, <3>1 DEF StackInv, TypeOK, Cells
  <2>6. StackAgrees(k)'
    <3>1. v # Unset
      BY KernelArgsAssumption
    <3>2. \A i \in Indices(k) : i < arg_stack_size[k] + 1 => i < arg_stack_size[k] \/ i = arg_stack_size[k]
      BY <1>1, IndicesFacts
    <3>3. \A i \in Indices(k) : i < arg_stack_size'[k] => kernel_arg'[k][i] # Unset
      BY <1>1, <2>3, <2>4, <3>1, <3>2 DEF StackAgrees
    <3> QED BY <1>1, <1>3, <2>4, <3>3 DEF StackAgrees
  <2>7. StackInv'
    BY <1>3, <2>1, <2>4, <2>5, <2>6, OthersAgree DEF Running
  <2> QED BY <1>3, <2>7 DEF StopHasCause
<1> QED BY <1>1, <1>2, <1>3 DEF PushArg

LEMMA ExecutePreservesInv ==
  ASSUME StackInv, StopHasCause,
         NEW k \in Kernels, NEW given \in BOOLEAN, NEW count \in Counts, Execute(k, given, count)
  PROVE  StackInv' /\ StopHasCause'
<1>1. \A i \in Indices(k) : kernel_arg[k][i] # Unset
  <2>1. arg_stack_size[k] = Arity[k] /\ initialized[k] /\ StackAgrees(k)
    BY DEF Execute, StackInv, StackAgrees
  <2>2. \A i \in Indices(k) : i < Arity[k]
    BY IndicesFacts
  <2> QED BY <2>1, <2>2 DEF StackAgrees
<1>2. negative_count' = (given /\ count < 0)
  BY DEF Execute
<1>3. ASSUME NEW why \in {"events", "sizes", "driver"}, Stop(why), why = "events" => ~WaitTaken(given, count),
             arg_stack_size' \in {arg_stack_size, [arg_stack_size EXCEPT ![k] = 0]}
      PROVE  StackInv' /\ StopHasCause'
  <2>1. negative_count' \in BOOLEAN
    BY <1>2
  <2>2. why = "events" => negative_count'
    BY <1>2, <1>3, WaitTakenUnlessNegative
  <2>3. StackInv'
    BY <1>3, <2>1, StopKeepsInv
  <2> QED BY <1>3, <2>2, <2>3 DEF Stop, StopHasCause
<1>4. CASE /\ arg_stack_size' = [arg_stack_size EXCEPT ![k] = 0]
           /\ launched' = [launched EXCEPT ![k] = Append(@, kernel_arg[k])]
           /\ pushes' = [pushes EXCEPT ![k] = 0]
           /\ UNCHANGED <<initialized, kernel_arg, cause>>
  <2>1. Append(launched[k], kernel_arg[k]) \in Seq([Indices(k) -> Cells])
    BY AppendProperties DEF StackInv, TypeOK, Cells
  <2>2. TypeOK'
    BY <1>2, <1>4, <2>1 DEF StackInv, TypeOK, Cells
  <2>3. /\ arg_stack_size'[k] = 0 /\ pushes'[k] = 0 /\ initialized[k]
        /\ \A j \in Kernels : j # k => arg_stack_size'[j] = arg_stack_size[j] /\ pushes'[j] = pushes[j]
    BY <1>4 DEF StackInv, TypeOK, Execute
  <2>4. StackAgrees(k)'
    BY <1>4, <2>3, IndicesFacts DEF StackAgrees
  <2>5. StackInv'
    BY <1>4, <2>2, <2>3, <2>4, OthersAgree DEF Running
  <2>6. StopHasCause'
    BY <1>4 DEF StopHasCause, Execute, Running
  <2> QED BY <2>5, <2>6
<1>5. CASE Stop("sizes") /\ UNCHANGED arg_stack_size
  BY <1>3, <1>5
<1>6. CASE /\ arg_stack_size' = [arg_stack_size EXCEPT ![k] = 0]
           /\ Stop("driver") \/ (~WaitTaken(given, count) /\ Stop("events"))
  BY <1>3, <1>6
<1> QED BY <1>1, <1>4, <1>5, <1>6 DEF Execute

-----------------------------------------------------------------------------
(* Theorems *)

\* Until an error, the stack of every kernel is as high as what its client pushed since the
\* last launch, and the arguments below its top are set.
THEOREM StackInvariance == Spec => [](StackInv /\ StopHasCause)
<1>1. StackInv /\ StopHasCause /\ UNCHANGED vars => (StackInv /\ StopHasCause)'
  <2> SUFFICES ASSUME StackInv, StopHasCause, UNCHANGED vars PROVE (StackInv /\ StopHasCause)'
    OBVIOUS
  <2>1. TypeOK'
    BY DEF StackInv, TypeOK, vars
  <2>2. \A k \in Kernels : StackAgrees(k)'
    BY DEF StackInv, StackAgrees, Running, vars
  <2>3. StopHasCause'
    BY DEF StopHasCause, vars
  <2> QED BY <2>1, <2>2, <2>3 DEF StackInv
<1>2. StackInv /\ StopHasCause /\ [Next]_vars => (StackInv /\ StopHasCause)'
  BY <1>1, KernelInitPreservesInv, PushArgPreservesInv, ExecutePreservesInv
     DEF Next, Stopped, AllLaunched
<1> QED BY <1>2, InitEstablishesInv, PTL DEF Spec

\* The same, as the runs check it.
THEOREM StackIsRight == Spec => []StackInv
BY StackInvariance, PTL

\* A client that pushes all the arguments of a kernel before each launch is never refused
\* for an index or an argument that the wrapper got wrong; and for its wait list only when
\* it passed one with a negative count.
THEOREM StopsAreCaused == Spec => []StopHasCause
BY StackInvariance, PTL

-----------------------------------------------------------------------------
(* Refinement *)

LEMMA FunctionIsSeq ==
  ASSUME NEW S, NEW n \in Nat, NEW f \in [1 .. n -> S]
  PROVE  f \in Seq(S) /\ Len(f) = n
<1>1. f \in Seq(S)
  BY SeqDef
<1>2. DOMAIN f = 1 .. Len(f) /\ Len(f) \in Nat /\ DOMAIN f = 1 .. n
  BY <1>1, LenProperties
<1> QED BY <1>1, <1>2

\* What is pushed is what the cl_kernel holds below the top of the stack.
LEMMA PushedFacts ==
  ASSUME StackInv, NEW k \in Kernels, initialized[k]
  PROVE  /\ Pushed(k) \in Seq(Cells) /\ Len(Pushed(k)) = arg_stack_size[k]
         /\ arg_stack_size[k] \in 0 .. Arity[k]
         /\ \A i \in 1 .. arg_stack_size[k] : Pushed(k)[i] = kernel_arg[k][i - 1]
<1>1. arg_stack_size[k] \in 0 .. Arity[k]
  BY IndicesFacts DEF StackInv, StackAgrees, TypeOK
<1>2. Pushed(k) = [i \in 1 .. arg_stack_size[k] |-> kernel_arg[k][i - 1]]
  BY DEF Pushed
<1>3. kernel_arg[k] \in [0 .. Arity[k] - 1 -> Cells]
  BY IndicesFacts DEF StackInv, TypeOK, Cells
<1>4. \A i \in 1 .. arg_stack_size[k] : i - 1 \in 0 .. Arity[k] - 1
  BY <1>1, IndicesFacts
<1>5. Pushed(k) \in [1 .. arg_stack_size[k] -> Cells]
  BY <1>2, <1>3, <1>4
<1>6. Pushed(k) \in Seq(Cells) /\ Len(Pushed(k)) = arg_stack_size[k]
  BY <1>1, <1>5, FunctionIsSeq
<1>7. \A i \in 1 .. arg_stack_size[k] : Pushed(k)[i] = kernel_arg[k][i - 1]
  BY <1>2
<1> QED BY <1>1, <1>6, <1>7

LEMMA NothingPushed ==
  ASSUME NEW k, arg_stack_size[k] = 0 \/ ~initialized[k]
  PROVE  Pushed(k) = <<>>
<1>1. CASE ~initialized[k]
  BY <1>1 DEF Pushed
<1>2. CASE initialized[k] /\ arg_stack_size[k] = 0
  <2>1. Pushed(k) \in [1 .. 0 -> Cells]
    BY <1>2 DEF Pushed
  <2>2. Pushed(k) \in Seq(Cells) /\ Len(Pushed(k)) = 0
    BY <2>1, FunctionIsSeq
  <2> QED BY <2>2, EmptySeq
<1> QED BY <1>1, <1>2

LEMMA InitRefines == Init => Promise!Init
<1> SUFFICES ASSUME Init PROVE Promise!Init
  OBVIOUS
<1>1. \A k \in Kernels : Pushed(k) = <<>>
  BY NothingPushed DEF Init
<1>2. ASSUME NEW k \in Kernels PROVE Launches(k) = <<>>
  <2>1. launched[k] = <<>> /\ Len(launched[k]) = 0
    BY EmptySeq DEF Init
  <2>2. DOMAIN launched[k] = 1 .. 0
    BY <2>1, LenProperties, EmptySeq
  <2>3. Launches(k) \in [1 .. 0 -> {}]
    BY <2>2 DEF Launches
  <2>4. Launches(k) \in Seq({}) /\ Len(Launches(k)) = 0
    BY <2>3, FunctionIsSeq
  <2> QED BY <2>4, EmptySeq
<1> QED BY <1>1, <1>2 DEF Init, Promise!Init, Running

\* An error is a Stop, which drops the arguments of a kernel whose stack was reset.
LEMMA StopRefines ==
  ASSUME StackInv, Running, NEW k \in Kernels, NEW why \in {"events", "sizes", "driver"}, Stop(why),
         arg_stack_size' \in {arg_stack_size, [arg_stack_size EXCEPT ![k] = 0]}
  PROVE  Promise!Stop
<1>1. ~Running' /\ \A j \in Kernels : Launches(j)' = Launches(j)
  BY DEF Stop, Running, Launches
<1>2. CASE arg_stack_size' = arg_stack_size
  <2>1. \A j \in Kernels : Pushed(j)' = Pushed(j)
    BY <1>2 DEF Stop, Pushed
  <2> DEFINE none == {}
  <2>2. none \in SUBSET Kernels /\ \A j : j \notin none
    OBVIOUS
  <2> HIDE DEF none
  <2>3. [j \in Kernels |-> Pushed(j)'] =
          [j \in Kernels |-> IF j \in none THEN <<>> ELSE [i \in Kernels |-> Pushed(i)][j]]
    BY <2>1, <2>2
  <2> QED BY <1>1, <2>2, <2>3 DEF Promise!Stop
<1>3. CASE arg_stack_size' = [arg_stack_size EXCEPT ![k] = 0]
  <2>1. arg_stack_size'[k] = 0 /\ \A j \in Kernels : j # k => arg_stack_size'[j] = arg_stack_size[j]
    BY <1>3 DEF StackInv, TypeOK
  <2>2. \A i : i = k => Pushed(i)' = <<>>
    BY <2>1, NothingPushed DEF Pushed
  <2>3. \A j \in Kernels : j # k => Pushed(j)' = Pushed(j)
    BY <2>1 DEF Stop, Pushed
  <2>4. [j \in Kernels |-> Pushed(j)'] =
          [j \in Kernels |-> IF j \in {k} THEN <<>> ELSE [i \in Kernels |-> Pushed(i)][j]]
    BY <2>2, <2>3
  <2> QED BY <1>1, <2>4 DEF Promise!Stop
<1> QED BY <1>2, <1>3

\* push_arg appends to what is pushed.
LEMMA PushArgRefines ==
  ASSUME StackInv, TypeOK', StackInv', NEW k \in Kernels, NEW v \in Values, PushArg(k, v),
         arg_stack_size[k] \in Indices(k),
         kernel_arg' = [kernel_arg EXCEPT ![k][arg_stack_size[k]] = v],
         arg_stack_size' = [arg_stack_size EXCEPT ![k] = @ + 1],
         UNCHANGED <<initialized, launched, cause>>
  PROVE  Promise!Push(k, v)
<1>1. /\ initialized[k] /\ Running /\ arg_stack_size[k] < Arity[k]
      /\ arg_stack_size[k] \in Nat /\ arg_stack_size'[k] = arg_stack_size[k] + 1
      /\ \A j \in Kernels : j # k => arg_stack_size'[j] = arg_stack_size[j]
  BY IndicesFacts DEF PushArg, StackInv, TypeOK
<1>2. /\ \A j \in Kernels : j # k => kernel_arg'[j] = kernel_arg[j]
      /\ \A i \in 0 .. arg_stack_size[k] :
           kernel_arg'[k][i] = IF i = arg_stack_size[k] THEN v ELSE kernel_arg[k][i]
  <2>1. kernel_arg'[k] = [kernel_arg[k] EXCEPT ![arg_stack_size[k]] = v]
    BY DEF StackInv, TypeOK
  <2>2. kernel_arg[k] \in [0 .. Arity[k] - 1 -> Cells]
    BY IndicesFacts DEF StackInv, TypeOK, Cells
  <2> QED BY <1>1, <2>1, <2>2, IndicesFacts DEF StackInv, TypeOK
<1>3. \A j \in Kernels : j # k => Pushed(j)' = Pushed(j)
  BY <1>1, <1>2 DEF Pushed
<1>4. ASSUME NEW q, q = k PROVE Pushed(q)' = Append(Pushed(k), v)
  <2>1. /\ Pushed(k) \in Seq(Cells) /\ Len(Pushed(k)) = arg_stack_size[k]
        /\ \A i \in 1 .. arg_stack_size[k] : Pushed(k)[i] = kernel_arg[k][i - 1]
    BY <1>1, PushedFacts
  <2>2. /\ Pushed(q)' \in Seq(Cells) /\ Len(Pushed(q)') = arg_stack_size[k] + 1
        /\ \A i \in 1 .. arg_stack_size[k] + 1 : Pushed(q)'[i] = kernel_arg'[k][i - 1]
    <3>1. Pushed(q)' = [i \in 1 .. arg_stack_size[k] + 1 |-> kernel_arg'[k][i - 1]]
      BY <1>1, <1>4 DEF Pushed
    <3>2. \A i \in 1 .. arg_stack_size[k] + 1 : kernel_arg'[k][i - 1] \in Cells
      <4>1. kernel_arg'[k] \in [0 .. Arity[k] - 1 -> Cells]
        BY IndicesFacts DEF TypeOK, Cells
      <4>2. \A i \in 1 .. arg_stack_size[k] + 1 : i - 1 \in 0 .. Arity[k] - 1
        BY <1>1, IndicesFacts
      <4> QED BY <4>1, <4>2
    <3>3. Pushed(q)' \in [1 .. arg_stack_size[k] + 1 -> Cells]
      BY <3>1, <3>2
    <3>4. arg_stack_size[k] + 1 \in Nat
      BY <1>1
    <3> QED BY <3>1, <3>3, <3>4, FunctionIsSeq
  <2>3. v \in Cells
    BY DEF Cells
  <2>4. /\ Append(Pushed(k), v) \in Seq(Cells) /\ Len(Append(Pushed(k), v)) = arg_stack_size[k] + 1
        /\ \A i \in 1 .. arg_stack_size[k] : Append(Pushed(k), v)[i] = Pushed(k)[i]
        /\ Append(Pushed(k), v)[arg_stack_size[k] + 1] = v
    BY <2>1, <2>3, AppendProperties
  <2>5. \A i \in 1 .. arg_stack_size[k] + 1 : Pushed(q)'[i] = Append(Pushed(k), v)[i]
    <3>1. ASSUME NEW i \in 1 .. arg_stack_size[k] PROVE Pushed(q)'[i] = Append(Pushed(k), v)[i]
      <4>1. i - 1 \in 0 .. arg_stack_size[k] /\ i - 1 # arg_stack_size[k]
            /\ i \in 1 .. arg_stack_size[k] + 1
        BY <1>1
      <4> QED BY <1>2, <2>1, <2>2, <2>4, <4>1
    <3>2. Pushed(q)'[arg_stack_size[k] + 1] = v
      <4>1. arg_stack_size[k] \in 0 .. arg_stack_size[k]
            /\ arg_stack_size[k] + 1 \in 1 .. arg_stack_size[k] + 1
            /\ (arg_stack_size[k] + 1) - 1 = arg_stack_size[k]
        BY <1>1
      <4> QED BY <1>2, <2>2, <4>1
    <3>3. \A i \in 1 .. arg_stack_size[k] + 1 : i \in 1 .. arg_stack_size[k] \/ i = arg_stack_size[k] + 1
      BY <1>1
    <3> QED BY <2>4, <3>1, <3>2, <3>3
  <2> QED BY <2>2, <2>4, <2>5, SeqEqual
<1>5. Len(Pushed(k)) < Arity[k]
  BY <1>1, PushedFacts
<1>6. [j \in Kernels |-> Pushed(j)'] =
        [[j \in Kernels |-> Pushed(j)] EXCEPT ![k] = Append([j \in Kernels |-> Pushed(j)][k], v)]
  BY <1>3, <1>4
<1>7. \A j \in Kernels : Launches(j)' = Launches(j)
  BY DEF Launches
<1>8. Running' /\ Running
  BY <1>1 DEF Running
<1> QED BY <1>5, <1>6, <1>7, <1>8 DEF Promise!Push

\* A launch runs with what is pushed, and execute empties the stack.
LEMMA ExecuteRefines ==
  ASSUME StackInv, NEW k \in Kernels,
         Running, initialized[k], pushes[k] = Arity[k],
         arg_stack_size' = [arg_stack_size EXCEPT ![k] = 0],
         launched' = [launched EXCEPT ![k] = Append(@, kernel_arg[k])],
         UNCHANGED <<initialized, kernel_arg, cause>>
  PROVE  Promise!Launch(k)
<1>1. /\ arg_stack_size[k] = Arity[k] /\ Arity[k] \in Nat /\ arg_stack_size'[k] = 0
      /\ \A j \in Kernels : j # k => arg_stack_size'[j] = arg_stack_size[j]
  BY IndicesFacts DEF StackInv, StackAgrees, TypeOK
<1>2. /\ \A j \in Kernels : j # k => Pushed(j)' = Pushed(j)
      /\ \A q : q = k => Pushed(q)' = <<>>
  BY <1>1, NothingPushed DEF Pushed
<1>3. Pushed(k) = Arguments(kernel_arg[k], k) /\ Len(Pushed(k)) = Arity[k]
  BY <1>1, PushedFacts DEF Pushed, Arguments
<1>4. launched'[k] = Append(launched[k], kernel_arg[k])
      /\ \A j \in Kernels : j # k => launched'[j] = launched[j]
  BY DEF StackInv, TypeOK
<1> DEFINE n == Len(launched[k])
           Args == [1 .. Arity[k] -> Cells]
<1>5. /\ launched[k] \in Seq([Indices(k) -> Cells]) /\ kernel_arg[k] \in [Indices(k) -> Cells]
      /\ n \in Nat /\ DOMAIN launched[k] = 1 .. n
  BY LenProperties DEF StackInv, TypeOK, Cells
<1>6. /\ DOMAIN launched'[k] = 1 .. n + 1
      /\ \A j \in 1 .. n : launched'[k][j] = launched[k][j]
      /\ launched'[k][n + 1] = kernel_arg[k]
  <2>1. Append(launched[k], kernel_arg[k]) \in Seq([Indices(k) -> Cells])
    BY <1>5, AppendProperties
  <2> QED BY <1>4, <1>5, <2>1, AppendProperties, LenProperties
<1>7. \A a \in [Indices(k) -> Cells] : Arguments(a, k) \in Args
  <2>1. \A i \in 1 .. Arity[k] : i - 1 \in Indices(k)
    BY <1>1, IndicesFacts
  <2> QED BY <2>1 DEF Arguments
<1>8. Launches(k) \in Seq(Args) /\ Len(Launches(k)) = n
      /\ \A j \in 1 .. n : Launches(k)[j] = Arguments(launched[k][j], k)
  <2>1. \A j \in 1 .. n : Arguments(launched[k][j], k) \in Args
    BY <1>5, <1>7, ElementOfSeq
  <2>2. Launches(k) = [j \in 1 .. n |-> Arguments(launched[k][j], k)]
    BY <1>5 DEF Launches
  <2>3. Launches(k) \in [1 .. n -> Args]
    BY <2>1, <2>2
  <2> HIDE DEF Args, n
  <2> QED BY <1>5, <2>2, <2>3, FunctionIsSeq
<1>9. ASSUME NEW q, q = k PROVE Launches(q)' = Append(Launches(k), Pushed(k))
  <2>1. Launches(q)' = [j \in 1 .. n + 1 |-> Arguments(launched'[k][j], k)]
    BY <1>6, <1>9 DEF Launches, Arguments
  <2>2. \A j \in 1 .. n + 1 : launched'[k][j] = IF j <= n THEN launched[k][j] ELSE kernel_arg[k]
    BY <1>5, <1>6
  <2>3. \A j \in 1 .. n + 1 : Arguments(launched'[k][j], k) =
                                IF j <= n THEN Launches(k)[j] ELSE Pushed(k)
    <3>1. ASSUME NEW j \in 1 .. n + 1, j <= n
          PROVE  Arguments(launched'[k][j], k) = Launches(k)[j]
      <4>1. j \in 1 .. n /\ launched'[k][j] = launched[k][j]
        BY <1>5, <1>6, <3>1
      <4> QED BY <1>8, <4>1
    <3>2. ASSUME NEW j \in 1 .. n + 1, ~(j <= n) PROVE Arguments(launched'[k][j], k) = Pushed(k)
      <4>1. launched'[k][j] = kernel_arg[k]
        BY <2>2, <3>2
      <4> QED BY <1>3, <4>1
    <3> QED BY <3>1, <3>2
  <2>4. Pushed(k) \in Args
    BY <1>3, <1>5, <1>7
  <2>5. /\ Append(Launches(k), Pushed(k)) \in Seq(Args)
        /\ Len(Append(Launches(k), Pushed(k))) = n + 1
        /\ \A j \in 1 .. n : Append(Launches(k), Pushed(k))[j] = Launches(k)[j]
        /\ Append(Launches(k), Pushed(k))[n + 1] = Pushed(k)
    <3> HIDE DEF Args, n
    <3> QED BY <1>8, <2>4, AppendProperties
  <2>6. \A j \in 1 .. n + 1 : Append(Launches(k), Pushed(k))[j] = Arguments(launched'[k][j], k)
    BY <1>5, <2>3, <2>5
  <2>7. Launches(q)' \in Seq(Args) /\ Len(Launches(q)') = n + 1
    <3>1. \A j \in 1 .. n + 1 : Append(Launches(k), Pushed(k))[j] \in Args
      <4> HIDE DEF Args, n
      <4> QED BY <2>5, ElementOfSeq
    <3>2. Launches(q)' \in [1 .. n + 1 -> Args]
      BY <2>1, <2>6, <3>1
    <3>3. n + 1 \in Nat
      BY <1>5
    <3> HIDE DEF Args, n
    <3> QED BY <3>2, <3>3, FunctionIsSeq
  <2>8. \A j \in 1 .. n + 1 : Launches(q)'[j] = Append(Launches(k), Pushed(k))[j]
    BY <2>1, <2>6
  <2> HIDE DEF Args, n
  <2> QED BY <2>5, <2>7, <2>8, SeqEqual
<1>10. \A j \in Kernels : j # k => Launches(j)' = Launches(j)
  BY <1>4 DEF Launches, Arguments
<1>11. [j \in Kernels |-> Launches(j)'] =
         [[j \in Kernels |-> Launches(j)] EXCEPT
            ![k] = Append([j \in Kernels |-> Launches(j)][k], [j \in Kernels |-> Pushed(j)][k])]
  BY <1>9, <1>10
<1>12. [j \in Kernels |-> Pushed(j)'] = [[j \in Kernels |-> Pushed(j)] EXCEPT ![k] = <<>>]
  BY <1>2
<1>13. Running' /\ Running
  BY DEF Running
<1> QED BY <1>3, <1>11, <1>12, <1>13 DEF Promise!Launch

\* push_arg and execute implement ArgStack, whatever the kernels and however the calls are
\* mixed; making a kernel, with whatever its stack was before, is no step of it.
THEOREM ArgumentsAreThosePushed == Spec => RefinesArgStack
<1>1. ASSUME StackInv, StackInv', StopHasCause, Next
      PROVE  Promise!Next \/ UNCHANGED <<[k \in Kernels |-> Pushed(k)],
                                         [k \in Kernels |-> Launches(k)], ~Running>>
  <2> DEFINE Same == UNCHANGED <<[k \in Kernels |-> Pushed(k)],
                                 [k \in Kernels |-> Launches(k)], ~Running>>
  <2>1. ASSUME NEW k \in Kernels, KernelInit(k) PROVE Same
    <3>1. /\ arg_stack_size'[k] = 0 /\ ~initialized[k]
          /\ \A j \in Kernels : j # k => /\ arg_stack_size'[j] = arg_stack_size[j]
                                         /\ initialized'[j] = initialized[j]
      BY <1>1, <2>1 DEF KernelInit, StackInv, TypeOK
    <3>2. \A q : q = k => Pushed(q)' = <<>> /\ Pushed(q) = <<>>
      BY <3>1, NothingPushed DEF Pushed
    <3>3. \A j \in Kernels : Pushed(j)' = Pushed(j)
      BY <2>1, <3>1, <3>2 DEF Pushed, KernelInit
    <3>4. \A j \in Kernels : Launches(j)' = Launches(j)
      BY <2>1 DEF Launches, KernelInit
    <3> QED BY <2>1, <3>3, <3>4 DEF KernelInit, Running
  <2>2. ASSUME NEW k \in Kernels, NEW v \in Values, PushArg(k, v) PROVE Promise!Next
    <3>1. arg_stack_size[k] \in Indices(k) /\ Running
      BY <1>1, <2>2, IndicesFacts DEF PushArg, StackInv, StackAgrees, TypeOK
    <3>2. CASE Stop("driver") /\ UNCHANGED arg_stack_size
      BY <1>1, <3>1, <3>2, StopRefines DEF Promise!Next
    <3>3. CASE /\ kernel_arg' = [kernel_arg EXCEPT ![k][arg_stack_size[k]] = v]
               /\ arg_stack_size' = [arg_stack_size EXCEPT ![k] = @ + 1]
               /\ UNCHANGED <<initialized, launched, cause>>
      BY <1>1, <2>2, <3>1, <3>3, PushArgRefines DEF StackInv, Promise!Next
    <3> QED BY <2>2, <3>1, <3>2, <3>3 DEF PushArg
  <2>3. ASSUME NEW k \in Kernels, NEW given \in BOOLEAN, NEW count \in Counts,
               Execute(k, given, count)
        PROVE  Promise!Next
    <3>1. StopHasCause' /\ Running /\ initialized[k] /\ pushes[k] = Arity[k]
      BY <1>1, <2>3, ExecutePreservesInv DEF Execute
    <3>2. CASE Stop("sizes") /\ UNCHANGED arg_stack_size
      BY <1>1, <3>1, <3>2, StopRefines DEF Promise!Next
    <3>3. CASE arg_stack_size' = [arg_stack_size EXCEPT ![k] = 0] /\ (Stop("driver") \/ Stop("events"))
      BY <1>1, <3>1, <3>3, StopRefines DEF Promise!Next
    <3>4. CASE arg_stack_size' = [arg_stack_size EXCEPT ![k] = 0] /\ Stop("unset")
      BY <3>1, <3>4 DEF Stop, StopHasCause
    <3>5. CASE /\ arg_stack_size' = [arg_stack_size EXCEPT ![k] = 0]
               /\ launched' = [launched EXCEPT ![k] = Append(@, kernel_arg[k])]
               /\ UNCHANGED <<initialized, kernel_arg, cause>>
      BY <1>1, <3>1, <3>5, ExecuteRefines DEF Promise!Next
    <3> QED BY <2>3, <3>2, <3>3, <3>4, <3>5 DEF Execute
  <2>4. ASSUME UNCHANGED vars PROVE Same
    BY <2>4 DEF vars, Pushed, Launches, Running
  <2> QED BY <1>1, <2>1, <2>2, <2>3, <2>4 DEF Next, Stopped, AllLaunched
<1>2. UNCHANGED vars => UNCHANGED <<[k \in Kernels |-> Pushed(k)],
                                    [k \in Kernels |-> Launches(k)], ~Running>>
  BY DEF vars, Pushed, Launches, Running
<1>3. Spec => [](StackInv /\ StopHasCause)
  BY StackInvariance
<1> QED BY <1>1, <1>2, <1>3, InitRefines, PTL DEF Spec, RefinesArgStack, Promise!Spec

=============================================================================
