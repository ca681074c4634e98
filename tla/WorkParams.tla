----------------------------- MODULE WorkParams -----------------------------
(***************************************************************************)
(* A client launches a kernel: create_kernel asks for the kernel's         *)
(* work-group limit, the sizes are the client's own or those work_sizes    *)
(* makes for a picture, and execute checks them.                           *)
(***************************************************************************)
EXTENDS WorkSizes

CONSTANTS
  Devices,        \* the device's limits, as device_info reads them
  KernelLimits,   \* the work-group sizes kernels can have
  Launches,       \* the sizes a client asks for
  Widths, Heights \* the sides of its pictures

\* What a driver and a client give are sizes; the limits are not zero.
ASSUME ParamsAssumption ==
  /\ \A d \in Devices :
       /\ d.address_bits \in Nat /\ d.max_work_group_size \in Nat \ {0}
       /\ d.work_items_for_dims \in Seq(Nat \ {0}) /\ Len(d.work_items_for_dims) = 3
  /\ KernelLimits \subseteq Nat \ {0}
  /\ \A l \in Launches :
       /\ l.work_dim \in Nat
       /\ l.global \in Seq(Nat) /\ Len(l.global) = l.work_dim
       /\ l.local \in Seq(Nat) /\ (l.local = NoLocal \/ Len(l.local) = l.work_dim)
  /\ Widths \subseteq Nat /\ Heights \subseteq Nat

VARIABLES
  true_limit,     \* the kernel's limit, as the driver knows it
  launch, verdict

picture == <<w, h, global_work_size, local_work_size, div_w>>
vars == <<limits, true_limit, picture, launch, verdict, host_pc>>

NoSide == -1
NoLaunch == [work_dim |-> 0, global |-> <<>>, local |-> NoLocal]

Init ==
  /\ device \in Devices
  /\ true_limit \in KernelLimits
  /\ max_work_group_size = 0
  /\ w = NoSide /\ h = NoSide
  /\ global_work_size = <<0, 0>> /\ local_work_size = <<0, 0>> /\ div_w = FALSE
  /\ launch = NoLaunch /\ verdict = "none"
  /\ host_pc = "create_kernel"

\* A slip in CreateKernel: the device's limit in place of the kernel's.
CreateKernelDeviceLimit ==
  /\ host_pc = "create_kernel" /\ host_pc' = "choose"
  /\ max_work_group_size' = device.max_work_group_size
  /\ UNCHANGED <<device, true_limit, picture, launch, verdict>>

\* clGetKernelWorkGroupInfo, whose result nobody looks at, is taken to succeed.
CreateKernel ==
  /\ host_pc = "create_kernel" /\ host_pc' = "choose"
  /\ max_work_group_size' = true_limit
  /\ UNCHANGED <<device, true_limit, picture, launch, verdict>>

OwnSizes ==
  /\ host_pc = "choose" /\ host_pc' = "execute"
  /\ launch' \in Launches
  /\ UNCHANGED <<limits, true_limit, picture, verdict>>

CallWorkSizes ==
  /\ host_pc = "choose" /\ host_pc' = "round"
  /\ w' \in Widths /\ h' \in Heights
  /\ UNCHANGED <<limits, true_limit, global_work_size, local_work_size, div_w, launch, verdict>>

\* The sizes work_sizes returns are those of the launch, unless it throws.
ReturnSizes ==
  /\ Return
  /\ IF Nonstandard THEN UNCHANGED launch
     ELSE launch' = [work_dim |-> 2, global |-> global_work_size, local |-> local_work_size]
  /\ UNCHANGED <<true_limit, verdict>>

SizesStep == (RoundUp \/ Halve) /\ UNCHANGED <<true_limit, launch, verdict>>

\* execute up to its check; nothing of it is left for the check of the next launch.
Execute ==
  /\ host_pc = "execute" /\ host_pc' = "checked"
  /\ verdict' \in check_work_parameters(launch, device, max_work_group_size)
  /\ UNCHANGED <<limits, true_limit, picture, launch>>

Done == host_pc \in {"threw", "checked"}

Next ==
  \/ CreateKernel \/ OwnSizes \/ CallWorkSizes
  \/ SizesStep \/ ReturnSizes
  \/ Execute
  \/ Done /\ UNCHANGED vars

Spec == Init /\ [][Next]_vars

\* The client may never launch anything; what it asked for is computed.
FairSpec == Spec /\ WF_vars(SizesStep \/ ReturnSizes)

-----------------------------------------------------------------------------
(* Properties *)

\* The launches of the check's loop (Kernel.cpp:84-96, 112) whose global sizes the driver
\* refuses and the check does not see: an empty side, a side of 2^address_bits alone, and a
\* product that wraps in its long long.
Overlooked(p, d) ==
  \/ \E i \in Dims(p) : p.global[i] \in {0, Pow2[d.address_bits]}
  \/ Product(p.global) >= Pow2[LL_BITS - 1]

\* What is enqueued can run, but for those edges of the range: no launch gets past the check
\* whose groups the device or the kernel itself would not take, or with any other size that
\* clEnqueueNDRangeKernel refuses.
OverlooksOnlyEdges ==
  verdict = "accepted" =>
    \/ CanRun(launch, device, true_limit)
    \/ LimitsHold(launch, device, true_limit) /\ Overlooked(launch, device)

\* What is refused is beyond a limit the check's messages name (Kernel.cpp:101-123), the range
\* read as UtilsOpenCL.hpp:31-34 has it: address_bits holds the product of the global sizes.
\* The driver, which limits each of them alone, would run some of what is refused.
RefusesOnlyBeyondLimits ==
  verdict = "refused" =>
    ~ (LimitsHold(launch, device, true_limit) /\ RangeHolds(launch, device))

Pictured == w # NoSide

\* The least power of two that is no less than x.
LeastPower(x) == Min({Pow2[k] : k \in {j \in 0 .. INT_BITS : Pow2[j] >= x}})

\* The sizes work_sizes returns are accepted exactly when the device's address_bits can index
\* the picture with its sides rounded up.  UtilsOpenCL.hpp:31-34 asks it to hold w*h only: a
\* picture that fits by less than the rounding, 9 by 5 on 6 bits, is refused.
SizesAreAccepted ==
  Pictured /\ verdict # "none" =>
    verdict = IF LeastPower(w) * LeastPower(h) > Pow2[device.address_bits]
              THEN "refused" ELSE "accepted"

\* A launch of the sizes has a work item for every pixel, and no side could be halved
\* without losing some.
CoversPicture ==
  Pictured /\ host_pc \in {"execute", "checked"} =>
    /\ launch.global[1] \in w .. 2 * w - 1
    /\ launch.global[2] \in h .. 2 * h - 1

\* A picture is given up exactly when it is empty, one side is beyond an int, or the first
\* local size is more than 2 * max_local times as long as wide: halving the sides in turn
\* then takes the short one to zero.
Thin ==
  LET a == Min({LeastPower(w), device.work_items_for_dims[1]})
      b == Min({LeastPower(h), device.work_items_for_dims[2]})
  IN Max({a, b}) > 2 * Min({a, b}) * max_local

ThrowsOnlyWhenThin ==
  Pictured /\ Done =>
    (host_pc = "threw" <=> Min({w, h}) = 0 \/ Max({w, h}) >= Pow2[INT_BITS - 1] \/ Thin)

\* work_sizes returns or throws, whatever the limits are: the product its loop halves
\* reaches the limit or zero.
SizesReturn == host_pc \in {"round", "halve"} ~> host_pc \in {"execute", "threw"}

-----------------------------------------------------------------------------
(* Sizes that do not overflow: what the theorems ask of the devices, the launches and the
   pictures *)

\* The largest group of work items is a size_t with a bit to spare.
DeviceFits(d) ==
  \E j, k \in 0 .. SIZE_BITS :
    /\ d.work_items_for_dims[1] = Pow2[j] /\ d.work_items_for_dims[2] = Pow2[k]
    /\ j + k < SIZE_BITS - 1

\* 1LL << address_bits is a positive long long.
RangeFits(d) == d.address_bits <= LL_BITS - 2

\* The groups are counted without loss; the global sizes may wrap.
LaunchFits(l) == Product(l.local) < Pow2[LL_BITS - 1]

\* Sides an int has room for to round up, and sides it takes for negative.
FittingSides == 0 .. Pow2[INT_BITS - 2] \union Pow2[INT_BITS - 1] .. Pow2[INT_BITS] - 1

DevicesFit == \A d \in Devices : DeviceFits(d)
RangesFit == \A d \in Devices : RangeFits(d)
LaunchesFit == \A l \in Launches : LaunchFits(l)
PicturesFit == Widths \subseteq FittingSides /\ Heights \subseteq FittingSides

=============================================================================
