----------------------------- MODULE KernelArgs -----------------------------
(***************************************************************************)
(* The argument stack of Kernel: create_kernel, push_arg, execute and      *)
(* cleanup of several kernels of one context, in any order, over           *)
(* cl_kernels that keep the value an index was last given.                 *)
(*                                                                         *)
(* The client keeps to Kernel.hpp:35-37: it pushes all the arguments of a  *)
(* kernel, and no more, before each launch.  It stops at the first error.  *)
(***************************************************************************)
EXTENDS Integers, Sequences

CONSTANTS
  Kernels, Arity, Values,
  Unset,              \* what an index holds before it is given a value
  Counts,             \* the event counts, ints, that a client passes to execute
  UINT_RANGE,         \* of the cl_uint the driver takes: 2^32
  MaxLaunches         \* bound on the launches of each kernel

ASSUME KernelArgsAssumption ==
  /\ Arity \in [Kernels -> Nat]
  /\ Unset \notin Values
  /\ UINT_RANGE \in Nat \ {0} /\ MaxLaunches \in Nat
  /\ Counts \subseteq Int /\ \A count \in Counts : 2 * count \in -UINT_RANGE .. UINT_RANGE - 1

VARIABLES
  arg_stack_size, initialized,   \* fields of each Kernel
  kernel_arg,                    \* per cl_kernel, the value each index holds
  pushes,                        \* the client's own count of the arguments it pushed
  launched,                      \* per kernel, the arguments each launch was enqueued with
  negative_count,                \* history: the last execute had events and a count below zero
  cause                          \* why the program stopped, if it did

vars == <<arg_stack_size, initialized, kernel_arg, pushes, launched, negative_count, cause>>

Running == cause = "none"

Indices(k) == 0 .. Arity[k] - 1

\* Before init a Kernel's fields hold anything.
Init ==
  /\ arg_stack_size \in [Kernels -> {0, 1}]
  /\ initialized = [k \in Kernels |-> FALSE]
  /\ kernel_arg = [k \in Kernels |-> [i \in Indices(k) |-> Unset]]
  /\ pushes = [k \in Kernels |-> 0]
  /\ launched = [k \in Kernels |-> <<>>]
  /\ negative_count = FALSE
  /\ cause = "none"

Stop(why) ==
  /\ cause' = why
  /\ UNCHANGED <<initialized, kernel_arg, pushes, launched>>

\* A slip in KernelInit: the stack is left as it was found.
KernelInitKeepsStack(k) ==
  /\ Running /\ ~initialized[k]
  /\ initialized' = [initialized EXCEPT ![k] = TRUE]
  /\ UNCHANGED <<arg_stack_size, kernel_arg, pushes, launched, negative_count, cause>>

\* Kernel::init on the slot create_kernel took for a new cl_kernel.
KernelInit(k) ==
  /\ Running /\ ~initialized[k]
  /\ initialized' = [initialized EXCEPT ![k] = TRUE]
  /\ arg_stack_size' = [arg_stack_size EXCEPT ![k] = 0]
  /\ UNCHANGED <<kernel_arg, pushes, launched, negative_count, cause>>

\* clSetKernelArg refuses an index the kernel does not have, and may fail for another reason.
PushArg(k, v) ==
  /\ Running /\ initialized[k] /\ pushes[k] < Arity[k]
  /\ \/ /\ arg_stack_size[k] \notin Indices(k)
        /\ Stop("index") /\ UNCHANGED arg_stack_size
     \/ /\ arg_stack_size[k] \in Indices(k)
        /\ kernel_arg' = [kernel_arg EXCEPT ![k][arg_stack_size[k]] = v]
        /\ arg_stack_size' = [arg_stack_size EXCEPT ![k] = @ + 1]
        /\ pushes' = [pushes EXCEPT ![k] = @ + 1]
        /\ UNCHANGED <<initialized, launched, cause>>
     \/ Stop("driver") /\ UNCHANGED arg_stack_size
  /\ UNCHANGED negative_count

\* What execute makes of the count and, as the driver reads it, passes on: no events, no
\* count; but a negative count stays, and is a large cl_uint.
WaitCount(given, count) == IF given THEN count ELSE 0
NumEvents(given, count) == WaitCount(given, count) % UINT_RANGE

\* A slip in WaitList: the count is not looked at.
WaitListUncorrected(given, count) == given

\* No count above zero, no events.
WaitList(given, count) == given /\ WaitCount(given, count) > 0

\* The driver wants a list just when there are events to wait for.
WaitTaken(given, count) == WaitList(given, count) = (NumEvents(given, count) > 0)

\* A slip in Execute: the next argument goes where the last one went.
ExecuteKeepsStack(k, given, count) ==
  /\ Running /\ initialized[k] /\ pushes[k] = Arity[k] /\ Len(launched[k]) < MaxLaunches
  /\ launched' = [launched EXCEPT ![k] = Append(@, kernel_arg[k])]
  /\ pushes' = [pushes EXCEPT ![k] = 0]
  /\ UNCHANGED <<arg_stack_size, initialized, kernel_arg, negative_count, cause>>

\* The sizes are checked before the stack is reset, the driver called after; it refuses a
\* kernel with an argument no one set.
Execute(k, given, count) ==
  /\ Running /\ initialized[k] /\ pushes[k] = Arity[k] /\ Len(launched[k]) < MaxLaunches
  /\ negative_count' = (given /\ count < 0)
  /\ \/ Stop("sizes") /\ UNCHANGED arg_stack_size
     \/ /\ arg_stack_size' = [arg_stack_size EXCEPT ![k] = 0]
        /\ \/ ~WaitTaken(given, count) /\ Stop("events")
           \/ /\ \E i \in Indices(k) : kernel_arg[k][i] = Unset
              /\ Stop("unset")
           \/ Stop("driver")
           \/ /\ WaitTaken(given, count)
              /\ \A i \in Indices(k) : kernel_arg[k][i] # Unset
              /\ launched' = [launched EXCEPT ![k] = Append(@, kernel_arg[k])]
              /\ pushes' = [pushes EXCEPT ![k] = 0]
              /\ UNCHANGED <<initialized, kernel_arg, cause>>

Stopped == ~Running /\ UNCHANGED vars
AllLaunched == (\A k \in Kernels : Len(launched[k]) = MaxLaunches) /\ UNCHANGED vars

Next ==
  \/ \E k \in Kernels : KernelInit(k)
  \/ \E k \in Kernels, v \in Values : PushArg(k, v)
  \/ \E k \in Kernels, given \in BOOLEAN, count \in Counts : Execute(k, given, count)
  \/ Stopped \/ AllLaunched

Spec == Init /\ [][Next]_vars

-----------------------------------------------------------------------------
(* Properties *)

\* Types.
TypeOK ==
  /\ arg_stack_size \in [Kernels -> Nat] /\ initialized \in [Kernels -> BOOLEAN]
  /\ DOMAIN kernel_arg = Kernels /\ DOMAIN launched = Kernels
  /\ \A k \in Kernels : /\ kernel_arg[k] \in [Indices(k) -> Values \union {Unset}]
                         /\ launched[k] \in Seq([Indices(k) -> Values \union {Unset}])
  /\ pushes \in [Kernels -> Nat] /\ negative_count \in BOOLEAN
  /\ cause \in {"none", "index", "unset", "events", "sizes", "driver"}

\* What the stack of one kernel has to do with the client's own count of what it pushed.
StackAgrees(k) ==
  /\ ~initialized[k] => pushes[k] = 0
  /\ initialized[k] => /\ arg_stack_size[k] <= Arity[k]
                       /\ Running => arg_stack_size[k] = pushes[k]
                       /\ \A i \in Indices(k) : i < arg_stack_size[k] => kernel_arg[k][i] # Unset

\* Types; and until an error, the wrapper's stack of every kernel is as high as what the
\* client pushed since the last launch, and what lies below its top is set.
StackInv == TypeOK /\ \A k \in Kernels : StackAgrees(k)

\* A client that keeps to the rule is stopped by the work sizes it asked for or by a failing
\* driver, never by an index the wrapper got wrong or an argument it left unset: not on the
\* first launch, nor on any later one, however the calls for several kernels are mixed.  The
\* correction of the wait list (Kernel.cpp:48-50) is right for every list and count but
\* one kind: a list with a negative count, which is taken away while the count is passed on.
StopHasCause ==
  /\ cause \notin {"index", "unset"}
  /\ cause = "events" => negative_count

\* The arguments a kernel holds are those pushed since its last launch, in the order they
\* were pushed: push_arg and execute implement ArgStack.
Pushed(k) ==
  IF initialized[k] THEN [i \in 1 .. arg_stack_size[k] |-> kernel_arg[k][i - 1]] ELSE <<>>
Arguments(a, k) == [i \in 1 .. Arity[k] |-> a[i - 1]]
Launches(k) == [j \in DOMAIN launched[k] |-> Arguments(launched[k][j], k)]
Promise ==
  INSTANCE ArgStack WITH
    pushed <- [k \in Kernels |-> Pushed(k)],
    launched <- [k \in Kernels |-> Launches(k)],
    stopped <- ~Running
RefinesArgStack == Promise!Spec

=============================================================================
