----------------------- MODULE ContextLifecycleProofs -----------------------
(***************************************************************************)
(* LifecycleInv is an invariant of ContextLifecycle for any number of      *)
(* slots and objects and any treatment of exceptions, and with it what the *)
(* clean-up releases and leaves.                                           *)
(***************************************************************************)
EXTENDS ContextLifecycleInv, SequenceTheorems, TLAPS

Status == {"live", "released", "over"}
KernelSlot(H) == [initialized : BOOLEAN, kernel : H, program : H]
BufferSlot(H) == [handle : H, released : BOOLEAN]

-----------------------------------------------------------------------------
\* A function on 1 .. n is a sequence of length n.
LEMMA FunctionIsSeq ==
  ASSUME NEW S, NEW n \in Nat, NEW f \in [1 .. n -> S]
  PROVE  f \in Seq(S) /\ Len(f) = n
<1>1. f \in Seq(S)
  BY SeqDef
<1>2. DOMAIN f = 1 .. Len(f) /\ Len(f) \in Nat /\ DOMAIN f = 1 .. n
  BY <1>1, LenProperties
<1> QED BY <1>1, <1>2

-----------------------------------------------------------------------------
(* The steps the actions are built from. *)

\* TypeOK, with the domains of its sequences at hand.
LEMMA Domains ==
  ASSUME TypeOK
  PROVE  /\ Len(objects) \in Nat /\ DOMAIN objects = 1 .. Len(objects)
         /\ DOMAIN kernels = 1 .. Len(kernels) /\ Len(kernels) \in Nat
         /\ DOMAIN allocations = 1 .. Len(allocations) /\ Len(allocations) \in Nat
         /\ \A h \in DOMAIN objects : objects[h] \in Status
         /\ \A i \in DOMAIN kernels : kernels[i] \in KernelSlot(Handle)
         /\ \A i \in DOMAIN allocations : allocations[i] \in BufferSlot(Handle)
BY LenProperties, ElementOfSeq DEF TypeOK, Status, KernelSlot, BufferSlot

LEMMA SlotFunctions ==
  ASSUME TypeOK
  PROVE  /\ kernels \in [DOMAIN kernels -> KernelSlot(Handle)]
         /\ allocations \in [DOMAIN allocations -> BufferSlot(Handle)]
<1>1. ASSUME NEW S, NEW s \in Seq(S) PROVE s \in [DOMAIN s -> S]
  <2>1. PICK n \in Nat : s \in [1 .. n -> S]
    BY SeqDef
  <2> QED BY <2>1
<1>2. kernels \in Seq(KernelSlot(Handle)) /\ allocations \in Seq(BufferSlot(Handle))
  BY DEF TypeOK, KernelSlot, BufferSlot
<1> QED BY <1>1, <1>2

\* Releasing handles changes the status of live and released objects, and nothing else.
LEMMA ReleaseFacts ==
  ASSUME TypeOK, NEW H, Release(H)
  PROVE  /\ objects' \in Seq(Status) /\ Len(objects') = Len(objects)
         /\ DOMAIN objects' = DOMAIN objects
         /\ \A h \in DOMAIN objects :
              objects'[h] = IF h \notin H THEN objects[h]
                            ELSE IF objects[h] = "live" THEN "released" ELSE "over"
         /\ stray' \in BOOLEAN
<1>1. objects' \in [1 .. Len(objects) -> Status]
  BY Domains DEF Release, Status
<1>2. objects' \in Seq(Status) /\ Len(objects') = Len(objects)
  BY <1>1, Domains, FunctionIsSeq
<1> QED BY <1>1, <1>2, Domains DEF Release, TypeOK

\* New objects come after the old ones and are live.
LEMMA CreateFacts ==
  ASSUME TypeOK, NEW n \in 1 .. 2, Create(n)
  PROVE  /\ objects' \in Seq(Status) /\ Len(objects') = Len(objects) + n
         /\ DOMAIN objects' = 1 .. Len(objects) + n
         /\ \A h \in DOMAIN objects : objects'[h] = objects[h]
         /\ \A h \in Len(objects) + 1 .. Len(objects) + n : objects'[h] = "live"
<1> DEFINE new == [i \in 1 .. n |-> "live"]
<1>1. new \in Seq(Status) /\ Len(new) = n /\ \A i \in 1 .. n : new[i] = "live"
  <2>1. new \in [1 .. n -> Status]
    BY DEF Status
  <2> QED BY <2>1, FunctionIsSeq
<1>2. objects \in Seq(Status) /\ objects' = objects \o new
  BY DEF TypeOK, Create, Status
<1>3. /\ objects' \in Seq(Status) /\ Len(objects') = Len(objects) + n
      /\ \A i \in 1 .. Len(objects) + n :
           objects'[i] = IF i <= Len(objects) THEN objects[i] ELSE new[i - Len(objects)]
  <2> HIDE DEF new
  <2> QED BY <1>1, <1>2, ConcatProperties
<1>4. DOMAIN objects' = 1 .. Len(objects) + n
  BY <1>3, LenProperties
<1>5. ASSUME NEW h \in Len(objects) + 1 .. Len(objects) + n PROVE objects'[h] = "live"
  <2>1. h \in 1 .. Len(objects) + n /\ ~(h <= Len(objects)) /\ h - Len(objects) \in 1 .. n
    BY Domains
  <2> QED BY <1>1, <1>3, <2>1
<1> QED BY <1>3, <1>4, <1>5, Domains

\* A slot taken comes after the others and leaves them alone.
LEMMA AddKernelFacts ==
  ASSUME TypeOK, NEW H, Handle \subseteq H, NEW slot \in KernelSlot(H),
         kernels' = Append(kernels, slot)
  PROVE  /\ kernels' \in Seq(KernelSlot(H)) /\ Len(kernels') = Len(kernels) + 1
         /\ DOMAIN kernels' = 1 .. Len(kernels) + 1
         /\ \A j \in DOMAIN kernels : kernels'[j] = kernels[j]
         /\ kernels'[Len(kernels) + 1] = slot
<1>1. KernelSlot(Handle) \subseteq KernelSlot(H)
  BY DEF KernelSlot
<1>2. kernels \in Seq(KernelSlot(H))
  BY <1>1, SeqMonotonic DEF TypeOK, KernelSlot
<1> QED BY <1>2, AppendProperties, LenProperties

LEMMA AddAllocationFacts ==
  ASSUME TypeOK, NEW H, Handle \subseteq H, NEW h \in H, AddAllocation(h)
  PROVE  /\ allocations' \in Seq(BufferSlot(H)) /\ Len(allocations') = Len(allocations) + 1
         /\ DOMAIN allocations' = 1 .. Len(allocations) + 1
         /\ \A j \in DOMAIN allocations : allocations'[j] = allocations[j]
         /\ allocations'[Len(allocations) + 1] = [handle |-> h, released |-> FALSE]
<1>1. BufferSlot(Handle) \subseteq BufferSlot(H)
  BY DEF BufferSlot
<1>2. allocations \in Seq(BufferSlot(H))
  BY <1>1, SeqMonotonic DEF TypeOK, BufferSlot
<1>3. [handle |-> h, released |-> FALSE] \in BufferSlot(H)
  BY DEF BufferSlot
<1> QED BY <1>2, <1>3, AppendProperties, LenProperties DEF AddAllocation

\* The handles a clean-up releases, apart from the queue and the context.
LEMMA SlotHandlesFacts ==
  ASSUME NEW h
  PROVE  h \in SlotHandles <=>
           \/ \E i \in DOMAIN kernels : kernels[i].initialized /\ h \in KernelPair(i)
           \/ \E i \in DOMAIN allocations :
                ~allocations[i].released /\ h = allocations[i].handle /\ h # Null
BY DEF SlotHandles, KernelHandles, BufferHandles, KernelPair
-----------------------------------------------------------------------------
(* The invariant, action by action. *)

LEMMA InitEstablishesInv == Init => LifecycleInv
<1> SUFFICES ASSUME Init PROVE LifecycleInv
  OBVIOUS
<1>1. /\ Len(objects) = 0 /\ DOMAIN objects = {} /\ DOMAIN kernels = {} /\ DOMAIN allocations = {}
      /\ objects \in Seq(Status) /\ Len(kernels) = 0 /\ Len(allocations) = 0
  BY EmptySeq, LenProperties DEF Init
<1>2. TypeOK
  <2>1. kernels \in Seq(KernelSlot(Handle)) /\ allocations \in Seq(BufferSlot(Handle))
    BY EmptySeq DEF Init
  <2>2. {clcontext, clcommand_queue} \subseteq Handle \union {Wild}
    BY <1>1 DEF Init, Handle, Null, Wild
  <2>3. Len(kernels) <= MAX_KERNEL_COUNT /\ Len(allocations) <= MAX_ALLOCATIONS_COUNT
    BY <1>1, ContextAssumption
  <2> QED BY <1>1, <2>1, <2>2, <2>3 DEF Init, TypeOK, Status, KernelSlot, BufferSlot
<1> QED
  BY <1>1, <1>2 DEF Init, LifecycleInv, SlotInv, OwnerInv, LiveInv, CoreInv, IsLive, Core, Alive

\* A call that fails, or the end of the program, without a change to the objects.
LEMMA OnlyLifeChanges ==
  ASSUME LifecycleInv, Alive, life' \in {"failing", "exited"},
         UNCHANGED <<caught, objects, orphans, stray, handles, kernels, allocations>>
  PROVE  LifecycleInv'
<1>1. TypeOK'
  BY DEF LifecycleInv, TypeOK, handles, Handle
<1>2. SlotInv' /\ OwnerInv'
  BY DEF LifecycleInv, SlotInv, OwnerInv, KernelPair, Core, handles
<1>3. SlotHandles' = SlotHandles /\ Core' = Core
  BY DEF SlotHandles, Core, handles
<1>4. LiveInv'
  BY <1>3 DEF LifecycleInv, LiveInv, Alive
<1>5. CoreInv'
  BY <1>3 DEF LifecycleInv, CoreInv, Alive, IsLive, handles
<1> QED BY <1>1, <1>2, <1>4, <1>5 DEF LifecycleInv

LEMMA StutterPreservesInv == LifecycleInv /\ UNCHANGED vars => LifecycleInv'
<1> SUFFICES ASSUME LifecycleInv, UNCHANGED vars PROVE LifecycleInv'
  OBVIOUS
<1>1. TypeOK'
  BY DEF LifecycleInv, TypeOK, vars, handles, Handle
<1>2. SlotInv' /\ OwnerInv'
  BY DEF LifecycleInv, SlotInv, OwnerInv, KernelPair, Core, vars, handles
<1>3. SlotHandles' = SlotHandles /\ Core' = Core
  BY DEF SlotHandles, Core, vars, handles
<1>4. LiveInv' /\ CoreInv'
  BY <1>3 DEF LifecycleInv, LiveInv, CoreInv, Alive, IsLive, vars, handles
<1> QED BY <1>1, <1>2, <1>4 DEF LifecycleInv

\* New objects, of which none is in a slot yet.
LEMMA HandlesGrow ==
  ASSUME TypeOK, NEW n \in 1 .. 2, Create(n)
  PROVE  /\ Handle' = Null .. Len(objects) + n /\ Handle \subseteq Handle'
         /\ \A m \in 1 .. n : NewHandle(m) \in DOMAIN objects' /\ NewHandle(m) \notin Handle
                            /\ objects'[NewHandle(m)] = "live" /\ NewHandle(m) # Wild
         /\ DOMAIN objects \subseteq DOMAIN objects'
<1>1. Len(objects') = Len(objects) + n /\ DOMAIN objects' = 1 .. Len(objects) + n
  BY CreateFacts
<1>2. Handle' = Null .. Len(objects) + n
  BY <1>1 DEF Handle
<1>3. /\ Len(objects) \in Nat /\ DOMAIN objects = 1 .. Len(objects)
      /\ \A h \in Len(objects) + 1 .. Len(objects) + n : objects'[h] = "live"
  BY CreateFacts, Domains
<1>4. \A m \in 1 .. n : /\ NewHandle(m) \in 1 .. Len(objects) + n
                         /\ NewHandle(m) \in Len(objects) + 1 .. Len(objects) + n
                         /\ NewHandle(m) \notin 0 .. Len(objects) /\ NewHandle(m) # -1
  BY <1>3 DEF NewHandle
<1>5. /\ 0 .. Len(objects) \subseteq 0 .. Len(objects) + n
      /\ 1 .. Len(objects) \subseteq 1 .. Len(objects) + n
  BY <1>3
<1>6. \A m \in 1 .. n : objects'[NewHandle(m)] = "live"
  <2> HIDE DEF NewHandle
  <2> QED BY <1>3, <1>4
<1> QED BY <1>1, <1>2, <1>3, <1>4, <1>5, <1>6 DEF Handle, Null, Wild

LEMMA InitContextPreservesInv ==
  ASSUME LifecycleInv, InitContext PROVE LifecycleInv'
<1> USE DEF LifecycleInv
<1>1. CASE Fail /\ UNCHANGED <<objects, handles>>
  BY <1>1, OnlyLifeChanges DEF InitContext, Fail, Alive
<1>2. CASE Fail /\ clcontext' = Null /\ UNCHANGED <<objects, initialized, clcommand_queue>>
  <2> USE <1>2
  <2>1. TypeOK'
    BY DEF InitContext, Fail, TypeOK, Handle, Null, handles
  <2>2. SlotInv' /\ OwnerInv'
    <3>1. UNCHANGED <<objects, kernels, allocations>> /\ Core' \subseteq Core \union {Null}
      BY DEF InitContext, Core
    <3>2. \A i : KernelPair(i)' = KernelPair(i) /\ Null \notin KernelPair(i)
      BY <3>1 DEF KernelPair
    <3> HIDE <1>2
    <3>3. SlotInv'
      BY <3>1, <3>2 DEF SlotInv
    <3>4. \A i \in DOMAIN kernels : Core' \intersect KernelPair(i)' = {}
      BY <3>1, <3>2 DEF OwnerInv
    <3>5. \A i \in DOMAIN allocations :
            allocations[i].handle # Null => allocations[i].handle \notin Core'
      BY <3>1 DEF OwnerInv
    <3> QED BY <3>1, <3>2, <3>3, <3>4, <3>5 DEF OwnerInv
  <2>3. SlotHandles' = SlotHandles /\ \A h \in Core : ~IsLive(h)
    BY DEF InitContext, SlotHandles, CoreInv
  <2>4. LiveInv'
    BY <2>3 DEF InitContext, LiveInv, Fail, Alive, Core, IsLive
  <2>5. CoreInv'
    BY <2>3 DEF InitContext, CoreInv, Fail, Alive, Core, IsLive
  <2> QED BY <2>1, <2>2, <2>4, <2>5
<1>3. ASSUME NEW n \in 1 .. 2, Create(n), clcontext' = NewHandle(1),
             clcommand_queue' = (IF n = 2 THEN NewHandle(2) ELSE Null),
             \/ n = 1 /\ Fail /\ UNCHANGED initialized
             \/ n = 2 /\ Succeed /\ initialized' = TRUE
      PROVE  LifecycleInv'
  <2> USE <1>3
  <2>1. TypeOK'
    <3>1. objects' \in Seq(Status) /\ {clcontext, clcommand_queue}' \subseteq Handle' \union {Wild}
      BY HandlesGrow, CreateFacts DEF Handle, Null, NewHandle
    <3>2. KernelSlot(Handle) \subseteq KernelSlot(Handle') /\ BufferSlot(Handle) \subseteq BufferSlot(Handle')
      BY HandlesGrow DEF KernelSlot, BufferSlot
    <3>3. kernels' \in Seq(KernelSlot(Handle')) /\ allocations' \in Seq(BufferSlot(Handle'))
      BY <3>2, SeqMonotonic DEF InitContext, TypeOK, KernelSlot, BufferSlot
    <3>4. orphans' \subseteq DOMAIN objects'
      BY HandlesGrow DEF InitContext, TypeOK
    <3> QED BY <3>1, <3>3, <3>4 DEF InitContext, TypeOK, Fail, Succeed, Status, KernelSlot, BufferSlot
  <2>2. SlotInv'
    BY CreateFacts, HandlesGrow DEF InitContext, SlotInv, KernelPair
  <2>3. \A h \in Core' : h # Null => h \notin Handle /\ IsLive(h)'
    BY HandlesGrow DEF Core, IsLive
  <2>4. OwnerInv'
    <3>1. \A i \in DOMAIN kernels : KernelPair(i) \subseteq Handle \ {Null}
      BY Domains DEF KernelPair, KernelSlot
    <3>2. \A i \in DOMAIN allocations : allocations[i].handle \in Handle
      BY Domains DEF BufferSlot
    <3> QED BY <2>3, <3>1, <3>2 DEF InitContext, OwnerInv, KernelPair
  <2>5. LiveInv'
    <3>1. SlotHandles' = SlotHandles /\ \A h \in Core : ~IsLive(h)
      BY DEF InitContext, SlotHandles, CoreInv
    <3>2. \A h \in DOMAIN objects' : h \notin DOMAIN objects => h \in Core'
      BY CreateFacts, Domains DEF Core, NewHandle
    <3> QED BY <3>1, <3>2, CreateFacts DEF InitContext, LiveInv, Alive, Fail, Succeed, IsLive
  <2>6. CoreInv'
    <3>1. \A h \in DOMAIN objects' :
            objects'[h] = "live" \/ (h \in DOMAIN objects /\ objects'[h] = objects[h])
      BY CreateFacts, Domains
    <3> QED BY <2>3, <3>1 DEF InitContext, CoreInv, Alive, Fail, Succeed, Core, NewHandle, Null, IsLive
  <2> QED BY <2>1, <2>2, <2>4, <2>5, <2>6
<1>4. CASE /\ Fail /\ Create(1) /\ clcontext' = NewHandle(1) /\ clcommand_queue' = Null
           /\ UNCHANGED initialized
  BY <1>3, <1>4, 1 \in 1 .. 2
<1>5. CASE /\ Succeed /\ Create(2) /\ clcontext' = NewHandle(1) /\ clcommand_queue' = NewHandle(2)
           /\ initialized' = TRUE
  BY <1>3, <1>5, 2 \in 1 .. 2
<1> QED BY <1>1, <1>2, <1>4, <1>5 DEF InitContext

LEMMA AllocatePreservesInv ==
  ASSUME LifecycleInv, Allocate PROVE LifecycleInv'
<1> USE DEF LifecycleInv
<1>1. CASE Fail /\ UNCHANGED <<objects, allocations>>
  BY <1>1, OnlyLifeChanges DEF Allocate, Fail, Alive
<1>2. ASSUME NEW n \in 0 .. 1, NEW h \in Handle', initialized,
             Len(allocations) < MAX_ALLOCATIONS_COUNT, AddAllocation(h),
             \/ n = 0 /\ Fail /\ h = Null /\ UNCHANGED objects
             \/ n = 1 /\ Succeed /\ h = NewHandle(1) /\ Create(1)
      PROVE  LifecycleInv'
  <2> USE <1>2
  <2>1. /\ Handle \subseteq Handle' /\ objects' \in Seq(Status)
        /\ DOMAIN objects \subseteq DOMAIN objects'
        /\ \A o \in DOMAIN objects : objects'[o] = objects[o]
        /\ \A o \in DOMAIN objects' : o \notin DOMAIN objects => o = h /\ objects'[o] = "live"
        /\ h # Null => h \in DOMAIN objects' /\ h \notin Handle /\ objects'[h] = "live" /\ h # Wild
    <3>1. CASE n = 0
      BY <3>1 DEF Handle, TypeOK, Status
    <3>2. CASE n = 1
      BY <3>2, HandlesGrow, CreateFacts, Domains DEF NewHandle
    <3> QED BY <3>1, <3>2
  <2>2. /\ allocations' \in Seq(BufferSlot(Handle'))
        /\ Len(allocations') = Len(allocations) + 1
        /\ DOMAIN allocations' = 1 .. Len(allocations) + 1
        /\ DOMAIN allocations = 1 .. Len(allocations) /\ Len(allocations) \in Nat
        /\ \A j \in DOMAIN allocations : allocations'[j] = allocations[j]
        /\ allocations'[Len(allocations) + 1] = [handle |-> h, released |-> FALSE]
    BY <2>1, AddAllocationFacts, Domains
  <2>3. /\ \A i \in DOMAIN kernels : KernelPair(i) \subseteq Handle \ {Null}
        /\ \A i \in DOMAIN allocations : allocations[i].handle \in Handle
        /\ Core \subseteq Handle \union {Wild}
    BY Domains DEF KernelPair, KernelSlot, BufferSlot, TypeOK, Core
  <2>4. /\ UNCHANGED <<orphans, stray, kernels, caught>> /\ Core' = Core
        /\ UNCHANGED <<initialized, clcontext, clcommand_queue>>
        /\ life' \in {"alive", "failing"} /\ Alive
        /\ \A i : KernelPair(i)' = KernelPair(i)
    BY DEF Allocate, Fail, Succeed, Core, handles, KernelPair
  <2>5. TypeOK'
    <3>1. KernelSlot(Handle) \subseteq KernelSlot(Handle')
      BY <2>1 DEF KernelSlot
    <3>2. kernels' \in Seq(KernelSlot(Handle'))
      BY <2>4, <3>1, SeqMonotonic DEF TypeOK, KernelSlot
    <3>3. Len(allocations') <= MAX_ALLOCATIONS_COUNT
      BY <2>2, ContextAssumption
    <3> QED BY <2>1, <2>2, <2>4, <3>2, <3>3 DEF TypeOK, Status, KernelSlot, BufferSlot
  <2>6. SlotInv'
    BY <2>1, <2>2, <2>4 DEF SlotInv
  <2>7. OwnerInv'
    BY <2>1, <2>2, <2>3, <2>4 DEF OwnerInv
  <2>8. LiveInv'
    <3>1. ASSUME NEW o \in DOMAIN objects', objects'[o] = "live" PROVE (o \in orphans \/ o \in SlotHandles' \union Core)
      <4>1. CASE o \in DOMAIN objects
        <5>1. o \in SlotHandles => o \in SlotHandles'
          BY <2>2, <2>4, SlotHandlesFacts DEF SlotHandles, KernelHandles, BufferHandles
        <5> QED BY <2>1, <2>4, <3>1, <4>1, <5>1 DEF LiveInv, Alive
      <4>2. CASE o \notin DOMAIN objects
        <5>1. o = h /\ h # Null
          BY <2>1, <4>2, Domains, <3>1 DEF Null, Handle
        <5>2. o \in BufferHandles(allocations'[Len(allocations) + 1])
          BY <2>2, <5>1 DEF BufferHandles
        <5> QED BY <2>2, <5>2 DEF SlotHandles
      <4> QED BY <4>1, <4>2
    <3> QED BY <2>4, <3>1 DEF LiveInv
  <2>9. CoreInv'
    BY <2>1, <2>4 DEF CoreInv, Alive, IsLive
  <2> QED BY <2>5, <2>6, <2>7, <2>8, <2>9
<1>3. CASE initialized /\ Len(allocations) < MAX_ALLOCATIONS_COUNT
           /\ Fail /\ AddAllocation(Null) /\ UNCHANGED objects
  <2>1. Null \in Handle'
    BY <1>3, Domains DEF Handle, Null
  <2> QED BY <1>2, <1>3, <2>1, 0 \in 0 .. 1
<1>4. CASE initialized /\ Len(allocations) < MAX_ALLOCATIONS_COUNT
           /\ Succeed /\ AddAllocation(NewHandle(1)) /\ Create(1)
  <2>1. NewHandle(1) \in Handle'
    BY <1>4, CreateFacts, Domains DEF Handle, Null, NewHandle
  <2> QED BY <1>2, <1>4, <2>1, 1 \in 0 .. 1
<1> QED BY <1>1, <1>3, <1>4 DEF Allocate

LEMMA CreateKernelPreservesInv ==
  ASSUME LifecycleInv, CreateKernel PROVE LifecycleInv'
<1> USE DEF LifecycleInv
<1>1. CASE Fail /\ UNCHANGED <<objects, orphans, kernels>>
  BY <1>1, OnlyLifeChanges DEF CreateKernel, Fail, Alive
<1>2. ASSUME NEW n \in 0 .. 2, NEW slot \in KernelSlot(Handle'),
             initialized, Len(kernels) < MAX_KERNEL_COUNT, kernels' = Append(kernels, slot),
             \/ /\ n = 0 /\ ~slot.initialized /\ slot.kernel = Null /\ slot.program = Null /\ Fail
                /\ UNCHANGED <<objects, orphans>>
             \/ /\ n = 1 /\ ~slot.initialized /\ slot.kernel = Null /\ slot.program = Null /\ Fail
                /\ Create(1) /\ orphans' = orphans \union {NewHandle(1)}
             \/ /\ n = 2 /\ slot.initialized
                /\ slot.kernel = NewHandle(2) /\ slot.program = NewHandle(1) /\ Succeed
                /\ Create(2) /\ UNCHANGED orphans
      PROVE  LifecycleInv'
  <2> USE <1>2
  <2> DEFINE pair == {slot.kernel, slot.program} \ {Null}
  <2>1. /\ Handle \subseteq Handle' /\ objects' \in Seq(Status)
        /\ DOMAIN objects \subseteq DOMAIN objects'
        /\ \A o \in DOMAIN objects : objects'[o] = objects[o]
        /\ \A o \in DOMAIN objects' : o \notin DOMAIN objects =>
             o \in orphans' \union pair /\ objects'[o] = "live"
        /\ \A o \in pair : o \in DOMAIN objects' /\ o \notin Handle
                           /\ objects'[o] = "live" /\ o # Wild /\ slot.initialized
        /\ orphans' \subseteq DOMAIN objects'
    <3>1. CASE n = 0
      BY <3>1 DEF Handle, TypeOK, Status
    <3>2. CASE n = 1
      BY <3>2, HandlesGrow, CreateFacts, Domains DEF NewHandle, TypeOK
    <3>3. CASE n = 2
      <4>1. /\ Handle \subseteq Handle' /\ objects' \in Seq(Status)
            /\ DOMAIN objects \subseteq DOMAIN objects'
            /\ \A o \in DOMAIN objects : objects'[o] = objects[o]
            /\ orphans' \subseteq DOMAIN objects'
        BY <3>3, HandlesGrow, CreateFacts, Domains DEF TypeOK
      <4>2. pair = {NewHandle(1), NewHandle(2)}
        BY <3>3, Domains DEF NewHandle, Null
      <4>3. DOMAIN objects' = DOMAIN objects \union pair
        <5>1. DOMAIN objects' = 1 .. Len(objects) + 2
          <6>1. 2 \in 1 .. 2 /\ Create(2)
            BY <3>3
          <6> QED BY <6>1, CreateFacts
        <5>2. DOMAIN objects = 1 .. Len(objects) /\ Len(objects) \in Nat
          BY Domains
        <5>3. \A k \in Nat : 1 .. k + 2 = (1 .. k) \union {k + 1, k + 2}
          OBVIOUS
        <5>4. pair = {Len(objects) + 1, Len(objects) + 2}
          BY <4>2 DEF NewHandle
        <5> HIDE DEF pair
        <5> QED BY ONLY <5>1, <5>2, <5>3, <5>4
      <4>4. \A o \in pair : o \in DOMAIN objects' /\ o \notin Handle
                            /\ objects'[o] = "live" /\ o # Wild
        <5>1. 1 \in 1 .. 2 /\ 2 \in 1 .. 2 /\ n \in 1 .. 2 /\ Create(n)
          BY <3>3
        <5> QED BY <3>3, <4>2, <5>1, HandlesGrow
      <4> QED BY <3>3, <4>1, <4>3, <4>4
    <3> QED BY <3>1, <3>2, <3>3
  <2>2. /\ kernels' \in Seq(KernelSlot(Handle'))
        /\ Len(kernels') = Len(kernels) + 1
        /\ DOMAIN kernels' = 1 .. Len(kernels) + 1
        /\ DOMAIN kernels = 1 .. Len(kernels) /\ Len(kernels) \in Nat
        /\ \A j \in DOMAIN kernels : kernels'[j] = kernels[j]
        /\ kernels'[Len(kernels) + 1] = slot
    BY <2>1, AddKernelFacts, Domains
  <2>3. /\ \A i \in DOMAIN kernels : KernelPair(i) \subseteq Handle \ {Null}
        /\ \A i \in DOMAIN allocations : allocations[i].handle \in Handle
        /\ Core \subseteq Handle \union {Wild}
    BY Domains DEF KernelPair, KernelSlot, BufferSlot, TypeOK, Core
  <2>4. /\ UNCHANGED <<stray, allocations, caught>> /\ Core' = Core
        /\ UNCHANGED <<initialized, clcontext, clcommand_queue>>
        /\ life' \in {"alive", "failing"} /\ Alive
        /\ life' = "alive" => orphans' = orphans
    BY DEF CreateKernel, Fail, Succeed, Core, handles
  <2>5. /\ \A i \in DOMAIN kernels : KernelPair(i)' = KernelPair(i)
        /\ \A i : i = Len(kernels) + 1 => KernelPair(i)' = pair
    BY <2>2 DEF KernelPair
  <2>6. TypeOK'
    <3>1. BufferSlot(Handle) \subseteq BufferSlot(Handle')
      BY <2>1 DEF BufferSlot
    <3>2. allocations' \in Seq(BufferSlot(Handle'))
      BY <2>4, <3>1, SeqMonotonic DEF TypeOK, BufferSlot
    <3>3. Len(kernels') <= MAX_KERNEL_COUNT
      BY <2>2, ContextAssumption
    <3> QED BY <2>1, <2>2, <2>4, <3>2, <3>3 DEF TypeOK, Status, KernelSlot, BufferSlot
  <2>7. SlotInv'
    BY <2>1, <2>2, <2>4, <2>5 DEF SlotInv
  <2>8. OwnerInv'
    <3>1. /\ \A i \in DOMAIN kernels' : KernelPair(i)' \subseteq (IF i \in DOMAIN kernels THEN KernelPair(i) ELSE pair)
          /\ \A i \in DOMAIN kernels' : i \notin DOMAIN kernels => i = Len(kernels) + 1
          /\ pair \intersect Handle = {} /\ Wild \notin pair
      BY <2>1, <2>2, <2>5
    <3> HIDE DEF pair
    <3>2. \A i, j \in DOMAIN kernels' : i # j => KernelPair(i)' \intersect KernelPair(j)' = {}
      BY <2>3, <3>1 DEF OwnerInv
    <3>3. \A i \in DOMAIN kernels', j \in DOMAIN allocations : allocations[j].handle \notin KernelPair(i)'
      BY <2>3, <3>1 DEF OwnerInv
    <3>4. \A i \in DOMAIN kernels' : Core \intersect KernelPair(i)' = {}
      BY <2>3, <3>1 DEF OwnerInv
    <3> QED BY <2>4, <3>2, <3>3, <3>4 DEF OwnerInv
  <2>9. LiveInv'
    <3>1. ASSUME NEW o \in DOMAIN objects', objects'[o] = "live"
          PROVE  o \in orphans' \/ o \in SlotHandles' \union Core
      <4>1. CASE o \in DOMAIN objects
        <5>1. o \in SlotHandles => o \in SlotHandles'
          BY <2>2, <2>4 DEF SlotHandles, KernelHandles, BufferHandles
        <5> QED BY <2>1, <2>4, <3>1, <4>1, <5>1 DEF LiveInv, Alive
      <4>2. CASE o \notin DOMAIN objects /\ o \in pair /\ slot.initialized
        <5>1. o \in KernelHandles(kernels'[Len(kernels) + 1])
          BY <2>1, <2>2, <4>2 DEF KernelHandles
        <5> QED BY <2>2, <5>1 DEF SlotHandles
      <4> QED BY <2>1, <4>1, <4>2
    <3> QED BY <2>4, <3>1 DEF LiveInv
  <2>10. CoreInv'
    BY <2>1, <2>4 DEF CoreInv, Alive, IsLive
  <2> QED BY <2>6, <2>7, <2>8, <2>9, <2>10
<1> DEFINE none == [initialized |-> FALSE, kernel |-> Null, program |-> Null]
           full == [initialized |-> TRUE, kernel |-> NewHandle(2), program |-> NewHandle(1)]
<1>3. CASE initialized /\ Len(kernels) < MAX_KERNEL_COUNT
           /\ Fail /\ AddKernel(FALSE, Null, Null) /\ UNCHANGED <<objects, orphans>>
  <2>1. Null \in Handle'
    BY <1>3, Domains DEF Handle, Null
  <2>2. none \in KernelSlot(Handle') /\ kernels' = Append(kernels, none)
    BY <1>3, <2>1 DEF KernelSlot, AddKernel
  <2>3. ~none.initialized /\ none.kernel = Null /\ none.program = Null
    OBVIOUS
  <2> HIDE DEF none
  <2> QED BY <1>2, <1>3, <2>2, <2>3, 0 \in 0 .. 2
<1>4. CASE initialized /\ Len(kernels) < MAX_KERNEL_COUNT
           /\ Fail /\ AddKernel(FALSE, Null, Null) /\ Create(1)
           /\ orphans' = orphans \union {NewHandle(1)}
  <2>1. Null \in Handle'
    BY <1>4, CreateFacts, Domains DEF Handle, Null
  <2>2. none \in KernelSlot(Handle') /\ kernels' = Append(kernels, none)
    BY <1>4, <2>1 DEF KernelSlot, AddKernel
  <2>3. ~none.initialized /\ none.kernel = Null /\ none.program = Null
    OBVIOUS
  <2> HIDE DEF none
  <2> QED BY <1>2, <1>4, <2>2, <2>3, 1 \in 0 .. 2
<1>5. CASE initialized /\ Len(kernels) < MAX_KERNEL_COUNT
           /\ Succeed /\ AddKernel(TRUE, NewHandle(2), NewHandle(1)) /\ Create(2)
           /\ UNCHANGED orphans
  <2>1. NewHandle(1) \in Handle' /\ NewHandle(2) \in Handle'
    BY <1>5, CreateFacts, Domains DEF Handle, Null, NewHandle
  <2>2. full \in KernelSlot(Handle') /\ kernels' = Append(kernels, full)
    BY <1>5, <2>1 DEF KernelSlot, AddKernel
  <2>3. full.initialized /\ full.kernel = NewHandle(2) /\ full.program = NewHandle(1)
    OBVIOUS
  <2> HIDE DEF full
  <2> QED BY <1>2, <1>5, <2>2, <2>3, 2 \in 0 .. 2
<1> QED BY <1>1, <1>3, <1>4, <1>5 DEF CreateKernel

-----------------------------------------------------------------------------
(* Releases, by the client or a clean-up. *)

\* The handles given up by the kernels in K and the buffers in A.
Given(K, A) ==
  (UNION {KernelHandles(kernels[i]) : i \in K})
    \union (UNION {BufferHandles(allocations[i]) : i \in A})

LEMMA GivenFacts ==
  ASSUME NEW K, NEW A, NEW h
  PROVE  h \in Given(K, A) <=>
           \/ \E i \in K : kernels[i].initialized /\ h \in KernelPair(i)
           \/ \E i \in A : ~allocations[i].released /\ h = allocations[i].handle /\ h # Null
BY DEF Given, KernelHandles, BufferHandles, KernelPair

\* Slots give up what they hold, and C is what a clean-up releases besides.
LEMMA ReleaseSlots ==
  ASSUME LifecycleInv,
         NEW K \in SUBSET DOMAIN kernels, NEW A \in SUBSET DOMAIN allocations, NEW C \in SUBSET Core,
         Release(Given(K, A) \union C),
         kernels' = [i \in DOMAIN kernels |-> IF i \in K THEN Cleaned(kernels[i]) ELSE kernels[i]],
         allocations' = [i \in DOMAIN allocations |->
                           IF i \in A THEN Freed(allocations[i]) ELSE allocations[i]],
         UNCHANGED <<orphans, handles>>, caught' \in BOOLEAN,
         life' \in {"alive", "failing", "unwinding", "terminated", "destroyed", "exited"}
  PROVE  /\ TypeOK' /\ SlotInv' /\ OwnerInv'
         /\ DOMAIN objects' = DOMAIN objects /\ Core' = Core
         /\ \A h \in DOMAIN objects :
              objects'[h] = IF h \notin Given(K, A) \union C THEN objects[h]
                            ELSE IF objects[h] = "live" THEN "released" ELSE "over"
         /\ \A h \in Given(K, A) : h \in DOMAIN objects /\ objects[h] = "live" /\ h \notin Core
         /\ \A h \in SlotHandles : h \in Given(K, A) \/ h \in SlotHandles'
<1> USE DEF LifecycleInv
<1>1. /\ objects' \in Seq(Status) /\ Len(objects') = Len(objects)
      /\ DOMAIN objects' = DOMAIN objects
      /\ \A h \in DOMAIN objects :
           objects'[h] = IF h \notin Given(K, A) \union C THEN objects[h]
                         ELSE IF objects[h] = "live" THEN "released" ELSE "over"
      /\ stray' \in BOOLEAN
  BY ReleaseFacts
<1>2. Handle' = Handle /\ Core' = Core
  BY <1>1 DEF Handle, Core, handles
<1>3. \A k \in KernelSlot(Handle) :
        /\ Cleaned(k) \in KernelSlot(Handle) /\ ~Cleaned(k).initialized
        /\ Cleaned(k).kernel = k.kernel /\ Cleaned(k).program = k.program
  BY DEF Cleaned, KernelSlot
<1>4. \A m \in BufferSlot(Handle) :
        Freed(m) \in BufferSlot(Handle) /\ Freed(m).released /\ Freed(m).handle = m.handle
  BY DEF Freed, BufferSlot
<1>5. /\ kernels' \in Seq(KernelSlot(Handle)) /\ Len(kernels') = Len(kernels)
      /\ DOMAIN kernels' = DOMAIN kernels
  <2>1. kernels' \in [1 .. Len(kernels) -> KernelSlot(Handle)]
    BY <1>3, Domains
  <2> QED BY <2>1, FunctionIsSeq, Domains
<1>6. /\ allocations' \in Seq(BufferSlot(Handle)) /\ Len(allocations') = Len(allocations)
      /\ DOMAIN allocations' = DOMAIN allocations
  <2>1. allocations' \in [1 .. Len(allocations) -> BufferSlot(Handle)]
    BY <1>4, Domains
  <2> QED BY <2>1, FunctionIsSeq, Domains
<1>7. \A i \in DOMAIN kernels :
        /\ KernelPair(i)' = KernelPair(i)
        /\ kernels'[i].initialized <=> kernels[i].initialized /\ i \notin K
  BY <1>3, Domains DEF KernelPair
<1>8. \A i \in DOMAIN allocations :
        /\ allocations'[i].handle = allocations[i].handle
        /\ allocations'[i].released <=> allocations[i].released \/ i \in A
  BY <1>4, Domains
<1>9. TypeOK'
  BY <1>1, <1>2, <1>5, <1>6 DEF TypeOK, handles, Status, KernelSlot, BufferSlot
<1>10. \A h \in Given(K, A) : h \in DOMAIN objects /\ objects[h] = "live" /\ h \notin Core
  BY GivenFacts DEF SlotInv, OwnerInv
<1>11. OwnerInv'
  BY <1>2, <1>5, <1>6, <1>7, <1>8 DEF OwnerInv
<1>12. SlotInv'
  <2>1. ASSUME NEW i \in DOMAIN kernels, NEW h \in KernelPair(i)
        PROVE  /\ h \in DOMAIN objects'
               /\ objects'[h] = IF kernels'[i].initialized THEN "live" ELSE "released"
    <3>1. h \in Given(K, A) \union C <=> i \in K /\ kernels[i].initialized
      BY <2>1, GivenFacts DEF OwnerInv
    <3>2. h \in DOMAIN objects /\ objects[h] = IF kernels[i].initialized THEN "live" ELSE "released"
      BY DEF SlotInv
    <3> QED BY <1>1, <1>7, <3>1, <3>2
  <2>2. ASSUME NEW i \in DOMAIN allocations, allocations[i].handle # Null
        PROVE  /\ allocations[i].handle \in DOMAIN objects'
               /\ objects'[allocations[i].handle] =
                    IF allocations'[i].released THEN "released" ELSE "live"
    <3>1. allocations[i].handle \in Given(K, A) \union C <=> i \in A /\ ~allocations[i].released
      BY <2>2, GivenFacts DEF OwnerInv
    <3>2. /\ allocations[i].handle \in DOMAIN objects
          /\ objects[allocations[i].handle] = IF allocations[i].released THEN "released" ELSE "live"
      BY <2>2 DEF SlotInv
    <3> QED BY <1>1, <1>8, <3>1, <3>2
  <2> QED BY <1>5, <1>6, <1>7, <1>8, <2>1, <2>2 DEF SlotInv
<1>13. ASSUME NEW h \in SlotHandles, h \notin Given(K, A) PROVE h \in SlotHandles'
  <2>1. CASE \E i \in DOMAIN kernels : kernels[i].initialized /\ h \in KernelPair(i)
    <3>1. PICK i \in DOMAIN kernels : kernels[i].initialized /\ h \in KernelPair(i)
      BY <2>1
    <3>2. kernels'[i] = kernels[i] /\ i \in DOMAIN kernels'
      BY <1>5, <1>13, <3>1, GivenFacts
    <3>3. h \in KernelHandles(kernels'[i])
      BY <3>1, <3>2 DEF KernelHandles, KernelPair
    <3> QED BY <3>2, <3>3 DEF SlotHandles
  <2>2. CASE \E i \in DOMAIN allocations :
               ~allocations[i].released /\ h = allocations[i].handle /\ h # Null
    <3>1. PICK i \in DOMAIN allocations :
            ~allocations[i].released /\ h = allocations[i].handle /\ h # Null
      BY <2>2
    <3>2. allocations'[i] = allocations[i] /\ i \in DOMAIN allocations'
      BY <1>6, <1>13, <3>1, GivenFacts
    <3>3. h \in BufferHandles(allocations'[i])
      BY <3>1, <3>2 DEF BufferHandles
    <3> QED BY <3>2, <3>3 DEF SlotHandles
  <2> QED BY <2>1, <2>2, SlotHandlesFacts
<1> QED BY <1>1, <1>2, <1>9, <1>10, <1>11, <1>12, <1>13

\* A client's release of one slot.
LEMMA ReleaseByClient ==
  ASSUME LifecycleInv, Alive, Succeed,
         NEW K \in SUBSET DOMAIN kernels, NEW A \in SUBSET DOMAIN allocations,
         Release(Given(K, A)),
         kernels' = [i \in DOMAIN kernels |-> IF i \in K THEN Cleaned(kernels[i]) ELSE kernels[i]],
         allocations' = [i \in DOMAIN allocations |->
                           IF i \in A THEN Freed(allocations[i]) ELSE allocations[i]],
         UNCHANGED <<orphans, handles>>
  PROVE  LifecycleInv'
<1> USE DEF LifecycleInv
<1>1. Release(Given(K, A) \union {})
  <2>1. Given(K, A) \union {} = Given(K, A)
    OBVIOUS
  <2> QED BY <2>1
<1>2. caught' \in BOOLEAN /\ life' = "alive" /\ caught' = caught
  BY DEF Succeed, TypeOK
<1>3. /\ TypeOK' /\ SlotInv' /\ OwnerInv'
      /\ DOMAIN objects' = DOMAIN objects /\ Core' = Core
      /\ \A h \in DOMAIN objects :
           objects'[h] = IF h \notin Given(K, A) THEN objects[h]
                         ELSE IF objects[h] = "live" THEN "released" ELSE "over"
      /\ \A h \in Given(K, A) : h \in DOMAIN objects /\ objects[h] = "live" /\ h \notin Core
      /\ \A h \in SlotHandles : h \in Given(K, A) \/ h \in SlotHandles'
  <2> DEFINE C == {}
  <2>1. C \in SUBSET Core /\ Release(Given(K, A) \union C)
    BY <1>1
  <2>2. \A h : h \notin C
    OBVIOUS
  <2> HIDE DEF C
  <2>3. /\ TypeOK' /\ SlotInv' /\ OwnerInv'
        /\ DOMAIN objects' = DOMAIN objects /\ Core' = Core
        /\ \A h \in DOMAIN objects :
             objects'[h] = IF h \notin Given(K, A) \union C THEN objects[h]
                           ELSE IF objects[h] = "live" THEN "released" ELSE "over"
        /\ \A h \in Given(K, A) : h \in DOMAIN objects /\ objects[h] = "live" /\ h \notin Core
        /\ \A h \in SlotHandles : h \in Given(K, A) \/ h \in SlotHandles'
    BY <1>2, <2>1, ReleaseSlots
  <2> QED BY <2>2, <2>3
<1>4. LiveInv'
  BY <1>2, <1>3 DEF LiveInv, Alive
<1>5. CoreInv'
  BY <1>2, <1>3 DEF CoreInv, Alive, IsLive, handles
<1> QED BY <1>3, <1>4, <1>5

LEMMA KernelCleanupPreservesInv ==
  ASSUME LifecycleInv, NEW i \in DOMAIN kernels, KernelCleanup(i) PROVE LifecycleInv'
<1>1. Given({i}, {}) = KernelHandles(kernels[i])
  BY DEF Given
<1>2. /\ kernels' = [j \in DOMAIN kernels |-> IF j \in {i} THEN Cleaned(kernels[j]) ELSE kernels[j]]
      /\ allocations' = [j \in DOMAIN allocations |->
                           IF j \in {} THEN Freed(allocations[j]) ELSE allocations[j]]
  <2>1. kernels \in [DOMAIN kernels -> KernelSlot(Handle)]
        /\ allocations \in [DOMAIN allocations -> BufferSlot(Handle)]
    BY SlotFunctions DEF LifecycleInv
  <2>2. kernels' = [kernels EXCEPT ![i] = Cleaned(kernels[i])] /\ allocations' = allocations
    BY DEF KernelCleanup
  <2> QED BY <2>1, <2>2
<1>3. {i} \in SUBSET DOMAIN kernels /\ {} \in SUBSET DOMAIN allocations
  OBVIOUS
<1> QED BY <1>1, <1>2, <1>3, ReleaseByClient DEF KernelCleanup

LEMMA MemReleasePreservesInv ==
  ASSUME LifecycleInv, NEW i \in DOMAIN allocations, MemRelease(i) PROVE LifecycleInv'
<1>1. Given({}, {i}) = BufferHandles(allocations[i])
  BY DEF Given
<1>2. /\ kernels' = [j \in DOMAIN kernels |-> IF j \in {} THEN Cleaned(kernels[j]) ELSE kernels[j]]
      /\ allocations' = [j \in DOMAIN allocations |->
                           IF j \in {i} THEN Freed(allocations[j]) ELSE allocations[j]]
  <2>1. kernels \in [DOMAIN kernels -> KernelSlot(Handle)]
        /\ allocations \in [DOMAIN allocations -> BufferSlot(Handle)]
    BY SlotFunctions DEF LifecycleInv
  <2>2. kernels' = kernels /\ allocations' = [allocations EXCEPT ![i] = Freed(allocations[i])]
    BY DEF MemRelease
  <2> QED BY <2>1, <2>2
<1>3. {} \in SUBSET DOMAIN kernels /\ {i} \in SUBSET DOMAIN allocations
  OBVIOUS
<1> QED BY <1>1, <1>2, <1>3, ReleaseByClient DEF MemRelease

LEMMA CleanupPreservesInv ==
  ASSUME LifecycleInv, CheckError \/ Destroy PROVE LifecycleInv'
<1> USE DEF LifecycleInv
<1> DEFINE C == Core \ {Null}
           All == Given(DOMAIN kernels, DOMAIN allocations)
<1>1. SlotHandles = All
  BY DEF SlotHandles, Given
<1>2. /\ Release(All \union C) /\ UNCHANGED <<orphans, handles>>
      /\ kernels' = [i \in DOMAIN kernels |->
                       IF i \in DOMAIN kernels THEN Cleaned(kernels[i]) ELSE kernels[i]]
      /\ allocations' = [i \in DOMAIN allocations |->
                           IF i \in DOMAIN allocations THEN Freed(allocations[i]) ELSE allocations[i]]
  BY <1>1 DEF CheckError, Destroy, Cleanup, Core
<1>3. /\ caught' \in BOOLEAN /\ (caught => caught')
      /\ life' \in {"alive", "unwinding", "terminated", "destroyed"}
      /\ ~caught' => life' \in {"terminated", "destroyed"}
      /\ life \in {"failing", "alive", "unwinding"}
      /\ life' = "destroyed" => life \in {"alive", "unwinding"}
  <2>1. CASE CheckError
    <3>1. PICK c \in Catches : life' = AfterThrow[c] /\ caught' = (caught \/ c # "terminate")
      BY <2>1 DEF CheckError
    <3>2. c \in CatchKinds /\ life = "failing" /\ caught \in BOOLEAN
      BY <2>1, ContextAssumption DEF CheckError, TypeOK
    <3>3. AfterThrow[c] = IF c = "terminate" THEN "terminated"
                          ELSE IF c = "unwind" THEN "unwinding" ELSE "alive"
      BY <3>2 DEF AfterThrow, CatchKinds
    <3>4. caught' \in BOOLEAN /\ (caught => caught') /\ (~caught' => c = "terminate")
      BY <3>1, <3>2, Zenon
    <3> QED BY <3>1, <3>2, <3>3, <3>4
  <2>2. CASE Destroy
    BY <2>2 DEF Destroy, TypeOK
  <2> QED BY <2>1, <2>2
<1>4. /\ TypeOK' /\ SlotInv' /\ OwnerInv'
      /\ DOMAIN objects' = DOMAIN objects /\ Core' = Core
      /\ \A h \in DOMAIN objects :
           objects'[h] = IF h \notin All \union C THEN objects[h]
                         ELSE IF objects[h] = "live" THEN "released" ELSE "over"
      /\ \A h \in All : h \in DOMAIN objects /\ objects[h] = "live" /\ h \notin Core
  <2>1. C \in SUBSET Core /\ DOMAIN kernels \in SUBSET DOMAIN kernels
        /\ DOMAIN allocations \in SUBSET DOMAIN allocations
    OBVIOUS
  <2> HIDE DEF C
  <2> QED BY <1>2, <1>3, <2>1, ReleaseSlots
<1>5. Null \notin DOMAIN objects /\ Wild \notin DOMAIN objects
  BY Domains DEF Null, Wild
<1>6. \A h \in DOMAIN objects : h \in All \union Core => objects'[h] # "live"
  BY <1>4, <1>5
<1>7. LiveInv'
  BY <1>1, <1>2, <1>4, <1>6 DEF LiveInv
<1>8. CoreInv'
  <2>1. \A h \in Core' : ~IsLive(h)'
    BY <1>4, <1>6 DEF IsLive
  <2>2. ASSUME ~caught' PROVE \A h \in DOMAIN objects' : objects'[h] # "over"
    <3>1. \A h \in DOMAIN objects : objects[h] # "over"
      BY <1>3, <2>2 DEF CoreInv
    <3>2. \A h \in DOMAIN objects : h \in C => objects[h] = "live"
      BY <1>3, <1>5, <2>2 DEF CoreInv, IsLive
    <3> QED BY <1>4, <3>1, <3>2
  <2>3. ASSUME ~caught', life' = "destroyed" PROVE \A h \in DOMAIN objects' : objects'[h] = "released"
    <3>1. orphans = {}
      BY <1>3, <2>3 DEF CoreInv, Alive
    <3>2. \A h \in DOMAIN objects : objects[h] = "live" => h \in All \union Core
      BY <1>1, <3>1 DEF LiveInv
    <3>3. \A h \in DOMAIN objects' : objects'[h] \in Status
      BY <1>4, ElementOfSeq DEF TypeOK, Status
    <3>4. \A h \in DOMAIN objects' : objects'[h] # "live"
      BY <1>4, <1>6, <3>2
    <3> QED BY <2>2, <2>3, <3>3, <3>4 DEF Status
  <2> QED BY <1>3, <2>1, <2>2, <2>3 DEF CoreInv, Alive
<1> QED BY <1>4, <1>7, <1>8

-----------------------------------------------------------------------------
(* Theorems *)

\* Whatever the client does and whatever fails, what the slots, the two handles and the flags
\* say of the driver's objects is true.
THEOREM LifecycleInvariance == Spec => []LifecycleInv
<1>1. ASSUME LifecycleInv, Next PROVE LifecycleInv'
  <2>1. CASE TransferFails \/ BlockFails \/ InfoFails
    BY <1>1, <2>1, OnlyLifeChanges DEF TransferFails, BlockFails, InfoFails, Fail
  <2>2. CASE Exit
    BY <1>1, <2>2, OnlyLifeChanges DEF Exit
  <2>3. CASE Ended
    BY <1>1, <2>3, StutterPreservesInv DEF Ended
  <2> QED
    BY <1>1, <2>1, <2>2, <2>3, InitContextPreservesInv, AllocatePreservesInv,
       CreateKernelPreservesInv, KernelCleanupPreservesInv, MemReleasePreservesInv,
       CleanupPreservesInv DEF Next
<1>2. LifecycleInv /\ [Next]_vars => LifecycleInv'
  BY <1>1, StutterPreservesInv
<1> QED BY <1>2, InitEstablishesInv, PTL DEF Spec

\* The type invariant; in particular failed calls never take a slot the arrays do not have.
THEOREM TypeCorrect == Spec => []TypeOK
<1>1. LifecycleInv => TypeOK
  BY DEF LifecycleInv
<1> QED BY <1>1, LifecycleInvariance, PTL

\* However the clean-ups of check_error, of the destructor and of the client fall together,
\* what sits in a slot is released at most once.
THEOREM SlotsAreReleasedOnce == Spec => []SlotsReleasedOnce
<1>1. ASSUME LifecycleInv PROVE SlotsReleasedOnce
  <2>1. ASSUME NEW h \in DOMAIN objects, objects[h] = "over" PROVE h # Null
    BY <1>1, Domains DEF LifecycleInv, Null
  <2>2. ASSUME NEW h \in DOMAIN objects, objects[h] = "over", NEW i \in DOMAIN kernels
        PROVE  h \notin {kernels[i].kernel, kernels[i].program}
    BY <1>1, <2>1, <2>2 DEF LifecycleInv, SlotInv, KernelPair
  <2>3. ASSUME NEW h \in DOMAIN objects, objects[h] = "over", NEW i \in DOMAIN allocations
        PROVE  h # allocations[i].handle
    BY <1>1, <2>1, <2>3 DEF LifecycleInv, SlotInv
  <2> QED BY <2>2, <2>3 DEF SlotsReleasedOnce
<1> QED BY <1>1, LifecycleInvariance, PTL

\* When the context is gone, or the program after an uncaught error, only the programs that
\* create_kernel lost are left.
THEOREM OnlyLostProgramsSurvive == Spec => []OnlyOrphansSurvive
<1>1. LifecycleInv => OnlyOrphansSurvive
  BY DEF LifecycleInv, LiveInv, OnlyOrphansSurvive
<1> QED BY <1>1, LifecycleInvariance, PTL

\* As long as no exception was caught, nothing is released twice and a destroyed context
\* leaves nothing behind.
THEOREM EachObjectIsReleasedOnce == Spec => []EveryObjectReleasedOnce
<1>1. LifecycleInv => EveryObjectReleasedOnce
  BY DEF LifecycleInv, CoreInv, EveryObjectReleasedOnce
<1> QED BY <1>1, LifecycleInvariance, PTL

\* As long as no exception was caught, was_initialized() can be relied on.
THEOREM InitializedMeansUsable == Spec => []UsableUntilCaught
<1>1. LifecycleInv => UsableUntilCaught
  BY DEF LifecycleInv, CoreInv, Core, UsableUntilCaught, UsableWhileInitialized
<1> QED BY <1>1, LifecycleInvariance, PTL

=============================================================================
