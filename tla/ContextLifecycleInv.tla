------------------------ MODULE ContextLifecycleInv ------------------------
(***************************************************************************)
(* The inductive invariant of ContextLifecycle.                            *)
(***************************************************************************)
EXTENDS ContextLifecycle

KernelPair(i) == {kernels[i].kernel, kernels[i].program} \ {Null}
Core == {clcontext, clcommand_queue}

\* What a slot holds exists, and is live until the slot's flag says otherwise.
SlotInv ==
  /\ \A i \in DOMAIN kernels : \A h \in KernelPair(i) :
       /\ h \in DOMAIN objects
       /\ objects[h] = IF kernels[i].initialized THEN "live" ELSE "released"
  /\ \A i \in DOMAIN allocations :
       allocations[i].handle # Null =>
         /\ allocations[i].handle \in DOMAIN objects
         /\ objects[allocations[i].handle] = IF allocations[i].released THEN "released" ELSE "live"

\* No object has two owners.
OwnerInv ==
  /\ \A i, j \in DOMAIN kernels : i # j => KernelPair(i) \intersect KernelPair(j) = {}
  /\ \A i, j \in DOMAIN allocations :
       i # j /\ allocations[i].handle # Null => allocations[i].handle # allocations[j].handle
  /\ \A i \in DOMAIN kernels, j \in DOMAIN allocations : allocations[j].handle \notin KernelPair(i)
  /\ \A i \in DOMAIN kernels : Core \intersect KernelPair(i) = {}
  /\ \A i \in DOMAIN allocations :
       allocations[i].handle # Null => allocations[i].handle \notin Core

\* What is live can still be reached by a clean-up to come, or was lost by create_kernel.
LiveInv ==
  \A h \in DOMAIN objects :
    objects[h] = "live" =>
      \/ h \in orphans
      \/ life \in {"alive", "failing", "exited"} /\ h \in SlotHandles \union Core

\* Before init succeeds the context and the queue are not live, so that init may store
\* new ones; until an exception is caught they are what `initialized` says, and nothing has
\* been released twice.
CoreInv ==
  /\ Alive /\ ~initialized => \A h \in Core : ~IsLive(h)
  /\ ~caught =>
       /\ life # "unwinding"
       /\ \A h \in DOMAIN objects : objects[h] # "over"
       /\ life \in {"alive", "failing"} => \A h \in Core : h \in {Null, Wild} \/ IsLive(h)
       /\ Alive => orphans = {}
       /\ Alive /\ initialized => \A h \in Core : IsLive(h)
       /\ life = "destroyed" => \A h \in DOMAIN objects : objects[h] = "released"

LifecycleInv == TypeOK /\ SlotInv /\ OwnerInv /\ LiveInv /\ CoreInv

=============================================================================
