----------------------------- MODULE WorkCheck -----------------------------
(***************************************************************************)
(* Kernel::check_work_parameters: the sizes of a launch against what the   *)
(* device and the kernel can run, in the program's integers; the limits    *)
(* its messages name, in numbers; and what the driver asks of a launch.    *)
(***************************************************************************)
EXTENDS Integers, Sequences

CONSTANTS
  SIZE_BITS,    \* width of size_t: 32 in the makefile's MinGW build, or 64
  LL_BITS       \* width of long long: 64

ASSUME WidthAssumption ==
  /\ SIZE_BITS \in Nat \ {0} /\ LL_BITS \in Nat \ {0}
  /\ SIZE_BITS <= LL_BITS

Pow2[n \in Nat] == IF n = 0 THEN 1 ELSE 2 * Pow2[n - 1]

ToUnsigned(x, bits) == x % Pow2[bits]
ToSigned(x, bits) == LET u == ToUnsigned(x, bits) IN IF u < Pow2[bits - 1] THEN u ELSE u - Pow2[bits]

Product(s) ==
  LET p[n \in 0 .. Len(s)] == IF n = 0 THEN 1 ELSE p[n - 1] * s[n] IN p[Len(s)]

\* The product a loop accumulates in a long long.
ProductLL(s) == ToSigned(Product(s), LL_BITS)

\* 1LL << n, by the builds there are: a count that is too large is taken modulo the
\* width, or shifts the bit out.
ShiftedOne(n) ==
  IF n < LL_BITS THEN {ToSigned(Pow2[n], LL_BITS)} ELSE {0, ToSigned(Pow2[n % LL_BITS], LL_BITS)}

\* A slip in ExceedsSize: a limit that is reached counts as passed.
ReachesSize(x, size) ==
  IF SIZE_BITS = LL_BITS THEN ToUnsigned(x, LL_BITS) >= size ELSE x >= size

\* A long long against a size_t: both become unsigned when size_t is as wide.
ExceedsSize(x, size) ==
  IF SIZE_BITS = LL_BITS THEN ToUnsigned(x, LL_BITS) > size ELSE x > size

\* `local_work_size` may be a null pointer.
NoLocal == <<>>

\* A launch: work_dim, and as many entries of the two arrays.
Dims(p) == 1 .. p.work_dim

LocalTooBig(p, device, kernel_limit) ==
  \/ ExceedsSize(ProductLL(p.local), device.max_work_group_size)
  \/ ExceedsSize(ProductLL(p.local), kernel_limit)

\* The outcomes of the check; the loop divides by every local size before any test of them.
check_work_parameters(p, device, kernel_limit) ==
  IF p.work_dim \notin 1 .. 3 THEN {"refused"}
  ELSE IF p.local # NoLocal /\ \E i \in Dims(p) : p.local[i] = 0 THEN {"crashed"}
  ELSE IF p.local # NoLocal /\
            \E i \in Dims(p) : \/ p.local[i] > device.work_items_for_dims[i]
                               \/ p.global[i] % p.local[i] # 0
       THEN {"refused"}
  ELSE {IF ProductLL(p.global) > range \/ LocalTooBig(p, device, kernel_limit)
          THEN "refused" ELSE "accepted" : range \in ShiftedOne(device.address_bits)}

\* The limits on the dimensions and on the groups of work items, on which the check and the
\* driver agree.
LimitsHold(p, device, kernel_limit) ==
  /\ p.work_dim \in 1 .. 3
  /\ p.local # NoLocal =>
       /\ \A i \in Dims(p) : /\ p.local[i] \in 1 .. device.work_items_for_dims[i]
                             /\ p.global[i] % p.local[i] = 0
       /\ Product(p.local) <= device.max_work_group_size
       /\ Product(p.local) <= kernel_limit

\* The range of the device as the program reads it: address_bits holds the product of the sizes.
RangeHolds(p, device) == Product(p.global) <= Pow2[device.address_bits]

\* The range as clEnqueueNDRangeKernel has it on the page the check is based on: each global
\* size is between 1 and 2^address_bits - 1.
GlobalsInRange(p, device) ==
  \A i \in Dims(p) : p.global[i] \in 1 .. Pow2[device.address_bits] - 1

\* What the driver runs.
CanRun(p, device, kernel_limit) ==
  LimitsHold(p, device, kernel_limit) /\ GlobalsInRange(p, device)

=============================================================================
