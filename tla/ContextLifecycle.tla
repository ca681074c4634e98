-------------------------- MODULE ContextLifecycle --------------------------
(***************************************************************************)
(* The life of one opencl::Context and of the driver objects it creates,   *)
(* under any client: created, used, failing in any call, cleaned up by     *)
(* check_error, cleaned up again by the destructor.                        *)
(*                                                                         *)
(* The wrapper never retains an object, so that an object is live until    *)
(* its first release; a release after that is an error of the caller.  The *)
(* client calls init only while was_initialized() is false and names only  *)
(* buffers and kernels the context gave it.                                *)
(***************************************************************************)
EXTENDS Integers, Sequences

CONSTANTS
  MAX_KERNEL_COUNT,
  MAX_ALLOCATIONS_COUNT,
  Catches,       \* what becomes of the exceptions: a subset of CatchKinds
  MaxObjects     \* bound on the driver objects created

\* Nobody catches (std::terminate: no destructor runs); a handler outside the scope of
\* the context (its destructor runs); a handler inside (the client goes on using it).
CatchKinds == {"terminate", "unwind", "handle"}

ASSUME ContextAssumption ==
  /\ MAX_KERNEL_COUNT \in Nat /\ MAX_ALLOCATIONS_COUNT \in Nat /\ MaxObjects \in Nat
  /\ Catches \subseteq CatchKinds

VARIABLES
  objects,          \* per object created, in order: "live", "released", or "over" (released again)
  orphans,          \* objects whose only handle create_kernel lost
  stray,            \* a value that is no object's handle was released
  life,             \* where the context is between its construction and its end
  caught,           \* an exception was caught, so that the program went on
  initialized, clcontext, clcommand_queue,
  kernels,          \* the first _kernel_count slots of _kernels
  allocations       \* the first _allocation_count slots of _allocations

handles == <<initialized, clcontext, clcommand_queue>>
vars == <<objects, orphans, stray, life, caught, handles, kernels, allocations>>

-----------------------------------------------------------------------------
(* Handles.  An object's handle is its index in `objects`. *)

Null == 0
Wild == -1      \* a pointer nothing was ever stored in

NewHandle(n) == Len(objects) + n
Create(n) ==
  /\ Len(objects) + n <= MaxObjects
  /\ objects' = objects \o [i \in 1 .. n |-> "live"]

\* The driver's side of releasing every handle of H once.
Release(H) ==
  /\ objects' = [h \in DOMAIN objects |->
                   IF h \notin H THEN objects[h]
                   ELSE IF objects[h] = "live" THEN "released" ELSE "over"]
  /\ stray' = (stray \/ Wild \in H)

\* Kernel::cleanup and MemoryHandler::release: the handles a slot gives up, and the slot after.
KernelHandles(k) == IF k.initialized THEN {k.kernel, k.program} \ {Null} ELSE {}

\* A slip in Cleaned: Kernel::cleanup does not reset `initialized`.
CleanedKeepsFlag(k) == k

Cleaned(k) == [k EXCEPT !.initialized = FALSE]
BufferHandles(m) == IF m.released THEN {} ELSE {m.handle} \ {Null}

\* A slip in Freed: MemoryHandler::release does not set `released`.
FreedKeepsFlag(m) == m

Freed(m) == [m EXCEPT !.released = TRUE]

\* A slip in SlotHandles: _cleanup starts its loop over the buffers at 1.
SlotHandlesSkipFirst ==
  (UNION {KernelHandles(kernels[i]) : i \in DOMAIN kernels})
    \union (UNION {BufferHandles(allocations[i]) : i \in DOMAIN allocations \ {1}})

SlotHandles ==
  (UNION {KernelHandles(kernels[i]) : i \in DOMAIN kernels})
    \union (UNION {BufferHandles(allocations[i]) : i \in DOMAIN allocations})

Cleanup ==
  /\ Release(SlotHandles \union ({clcommand_queue, clcontext} \ {Null}))
  /\ kernels' = [i \in DOMAIN kernels |-> Cleaned(kernels[i])]
  /\ allocations' = [i \in DOMAIN allocations |-> Freed(allocations[i])]
  /\ UNCHANGED <<orphans, handles>>

-----------------------------------------------------------------------------
\* The constructor leaves the queue and the context as it found them on the stack.
Init ==
  /\ objects = <<>> /\ orphans = {} /\ stray = FALSE /\ life = "alive"
  /\ caught = FALSE /\ initialized = FALSE
  /\ clcontext \in {Null, Wild} /\ clcommand_queue \in {Null, Wild}
  /\ kernels = <<>> /\ allocations = <<>>

Alive == life = "alive"
Fail == life' = "failing" /\ UNCHANGED caught
Succeed == life' = "alive" /\ UNCHANGED caught

\* A slip in InitContext: init does not check the error of clCreateCommandQueue.
InitContextUnchecked ==
  /\ Alive /\ ~initialized
  /\ UNCHANGED <<orphans, stray, kernels, allocations>>
  /\ \/ Fail /\ UNCHANGED <<objects, handles>>
     \/ /\ Succeed
        /\ \E n \in 1 .. 2 :
             /\ Create(n)
             /\ clcontext' = NewHandle(1)
             /\ clcommand_queue' = IF n = 2 THEN NewHandle(2) ELSE Null
        /\ initialized' = TRUE

\* Platform and device queries, then the context, then the queue; a failed creation
\* stores NULL before its error is checked.  That the context is not initialized yet is the
\* client's rule: init itself does not look, and a second one would lose the queue and the
\* context of the first.
InitContext ==
  /\ Alive /\ ~initialized
  /\ UNCHANGED <<orphans, stray, kernels, allocations>>
  /\ \/ Fail /\ UNCHANGED <<objects, handles>>
     \/ /\ Fail
        /\ clcontext' = Null
        /\ UNCHANGED <<objects, initialized, clcommand_queue>>
     \/ /\ Fail
        /\ Create(1)
        /\ clcontext' = NewHandle(1) /\ clcommand_queue' = Null
        /\ UNCHANGED initialized
     \/ /\ Succeed
        /\ Create(2)
        /\ clcontext' = NewHandle(1) /\ clcommand_queue' = NewHandle(2)
        /\ initialized' = TRUE

\* A slot is taken before the buffer exists and is not given back when it does not.
AddAllocation(h) == allocations' = Append(allocations, [handle |-> h, released |-> FALSE])

\* A slip in Allocate: allocate compares with <= and takes a slot past the end of the array.
AllocateOneMore ==
  /\ Alive
  /\ UNCHANGED <<orphans, stray, handles, kernels>>
  /\ \/ /\ ~initialized \/ Len(allocations) > MAX_ALLOCATIONS_COUNT
        /\ Fail
        /\ UNCHANGED <<objects, allocations>>
     \/ /\ initialized /\ Len(allocations) <= MAX_ALLOCATIONS_COUNT
        /\ \/ Fail /\ AddAllocation(Null) /\ UNCHANGED objects
           \/ Succeed /\ AddAllocation(NewHandle(1)) /\ Create(1)

Allocate ==
  /\ Alive
  /\ UNCHANGED <<orphans, stray, handles, kernels>>
  /\ \/ /\ ~initialized \/ Len(allocations) >= MAX_ALLOCATIONS_COUNT
        /\ Fail
        /\ UNCHANGED <<objects, allocations>>
     \/ /\ initialized /\ Len(allocations) < MAX_ALLOCATIONS_COUNT
        /\ \/ Fail /\ AddAllocation(Null) /\ UNCHANGED objects
           \/ Succeed /\ AddAllocation(NewHandle(1)) /\ Create(1)

\* Likewise; a program that does not build, or has no such kernel, is in no slot yet
\* when check_error throws.  Kernel::init begins with a cleanup of what the slot holds
\* (Kernel.cpp:11); create_kernel takes a new slot each time, which holds nothing.
AddKernel(i, k, p) ==
  kernels' = Append(kernels, [initialized |-> i, kernel |-> k, program |-> p])

CreateKernel ==
  /\ Alive
  /\ UNCHANGED <<stray, handles, allocations>>
  /\ \/ /\ ~initialized \/ Len(kernels) >= MAX_KERNEL_COUNT
        /\ Fail
        /\ UNCHANGED <<objects, orphans, kernels>>
     \/ /\ initialized /\ Len(kernels) < MAX_KERNEL_COUNT
        /\ \/ /\ Fail                      \* no source, or no program made from it
              /\ AddKernel(FALSE, Null, Null)
              /\ UNCHANGED <<objects, orphans>>
           \/ /\ Fail                      \* clBuildProgram or clCreateKernel
              /\ AddKernel(FALSE, Null, Null)
              /\ Create(1)
              /\ orphans' = orphans \union {NewHandle(1)}
           \/ /\ Succeed
              /\ AddKernel(TRUE, NewHandle(2), NewHandle(1))
              /\ Create(2)
              /\ UNCHANGED orphans

\* The client's own releases, of any slot and as often as it likes.
KernelCleanup(i) ==
  /\ Alive /\ Succeed
  /\ Release(KernelHandles(kernels[i]))
  /\ kernels' = [kernels EXCEPT ![i] = Cleaned(@)]
  /\ UNCHANGED <<orphans, handles, allocations>>

MemRelease(i) ==
  /\ Alive /\ Succeed
  /\ Release(BufferHandles(allocations[i]))
  /\ allocations' = [allocations EXCEPT ![i] = Freed(@)]
  /\ UNCHANGED <<orphans, handles, kernels>>

\* read_buffer, write_buffer, zeros_float: rejected, or failed by the driver.  When
\* they succeed they change nothing here.
TransferFails ==
  /\ Alive /\ allocations # <<>>
  /\ Fail
  /\ UNCHANGED <<objects, orphans, stray, handles, kernels, allocations>>

\* Flush and finish fail; block itself does not ask for `initialized`.
BlockFails ==
  /\ Alive
  /\ Fail
  /\ UNCHANGED <<objects, orphans, stray, handles, kernels, allocations>>

\* A query of display_opencl_info fails.
InfoFails ==
  /\ Alive
  /\ Fail
  /\ UNCHANGED <<objects, orphans, stray, handles, kernels, allocations>>

AfterThrow == [terminate |-> "terminated", unwind |-> "unwinding", handle |-> "alive"]

\* The rest of check_error once it saw an error.
CheckError ==
  /\ life = "failing"
  /\ Cleanup
  /\ \E c \in Catches : life' = AfterThrow[c] /\ caught' = (caught \/ c # "terminate")

Destroy ==
  /\ life \in {"alive", "unwinding"}
  /\ life' = "destroyed"
  /\ Cleanup
  /\ UNCHANGED caught

\* exit() runs no destructor of an automatic object.
Exit ==
  /\ Alive
  /\ life' = "exited"
  /\ UNCHANGED <<caught, objects, orphans, stray, handles, kernels, allocations>>

Ended == life \in {"terminated", "destroyed", "exited"} /\ UNCHANGED vars

Next ==
  \/ InitContext \/ Allocate \/ CreateKernel
  \/ \E i \in DOMAIN kernels : KernelCleanup(i)
  \/ \E i \in DOMAIN allocations : MemRelease(i)
  \/ TransferFails \/ BlockFails \/ InfoFails
  \/ CheckError \/ Destroy \/ Exit
  \/ Ended

Spec == Init /\ [][Next]_vars

-----------------------------------------------------------------------------
(* Properties *)

Handle == Null .. Len(objects)

\* Type invariant; the slots in use never outgrow the arrays, although failed calls
\* keep theirs.
TypeOK ==
  /\ objects \in Seq({"live", "released", "over"})
  /\ orphans \subseteq DOMAIN objects /\ stray \in BOOLEAN
  /\ life \in {"alive", "failing", "unwinding", "terminated", "destroyed", "exited"}
  /\ caught \in BOOLEAN /\ initialized \in BOOLEAN
  /\ {clcontext, clcommand_queue} \subseteq Handle \union {Wild}
  /\ kernels \in Seq([initialized : BOOLEAN, kernel : Handle, program : Handle])
  /\ allocations \in Seq([handle : Handle, released : BOOLEAN])
  /\ Len(kernels) <= MAX_KERNEL_COUNT /\ Len(allocations) <= MAX_ALLOCATIONS_COUNT

\* Every kernel, program and buffer is released at most once, although check_error, the
\* destructor and the client may each release it: the flags of the slots see to that.
SlotsReleasedOnce ==
  \A h \in DOMAIN objects :
    objects[h] = "over" =>
      /\ \A i \in DOMAIN kernels : h \notin {kernels[i].kernel, kernels[i].program}
      /\ \A i \in DOMAIN allocations : h # allocations[i].handle

\* After the clean-up of a thrown error or of the destructor, whichever came and however
\* often init was tried again, only the programs create_kernel lost are still live.
OnlyOrphansSurvive ==
  life \in {"terminated", "destroyed"} =>
    \A h \in DOMAIN objects : objects[h] = "live" => h \in orphans

\* Until an exception is caught, and main catches none, no object at all is released
\* twice, and a context that is destroyed has released every object it made.
EveryObjectReleasedOnce ==
  ~caught =>
    /\ \A h \in DOMAIN objects : objects[h] # "over"
    /\ life = "destroyed" => \A h \in DOMAIN objects : objects[h] = "released"

IsLive(h) == h \in DOMAIN objects /\ objects[h] = "live"

\* What was_initialized() promises (Context.hpp:177): while it is true, the context and
\* the queue that every command uses exist.
UsableWhileInitialized == Alive /\ initialized => IsLive(clcontext) /\ IsLive(clcommand_queue)

\* The same, until an exception is caught.
UsableUntilCaught == caught \/ UsableWhileInitialized

\* What the null tests of _cleanup are for: it releases only what some call created.
\* Information may be asked for before init (Context.hpp:177), and init itself may fail.
ReleasesOnlyCreated == ~stray

=============================================================================
