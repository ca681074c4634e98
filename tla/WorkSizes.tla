----------------------------- MODULE WorkSizes -----------------------------
(***************************************************************************)
(* utils::work_sizes: global and local sizes for a picture of w by h, in   *)
(* the program's integers.                                                 *)
(***************************************************************************)
EXTENDS WorkCheck, FiniteSetsExt

CONSTANT INT_BITS       \* width of int: 32

\* Shifts by up to 16 bits smear 32 of them.
ASSUME IntAssumption ==
  /\ INT_BITS \in 2 .. 32 /\ INT_BITS <= SIZE_BITS
  /\ 2 * INT_BITS <= LL_BITS

VARIABLES
  device,
  max_work_group_size,  \* the kernel's limit, as the wrapper knows it
  w, h,                 \* the picture
  global_work_size, local_work_size, div_w,
  host_pc

limits == <<device, max_work_group_size>>

-----------------------------------------------------------------------------
(* closest_power_of_2 *)

\* An int as the set of its bits, the sign bit last.
ToInt(x) == ToSigned(x, INT_BITS)
Bits(x) == {b \in 0 .. INT_BITS - 1 : (x \div Pow2[b]) % 2 = 1}
Value(B) ==
  LET v[n \in 0 .. INT_BITS] ==
        IF n = 0 THEN 0 ELSE v[n - 1] + (IF n - 1 \in B THEN Pow2[n - 1] ELSE 0)
  IN v[INT_BITS]

\* x |= x >> k; the shift brings in copies of the sign bit.
Smear(B, k) ==
  LET sign == IF INT_BITS - 1 \in B THEN INT_BITS - k .. INT_BITS - 1 ELSE {}
  IN B \union ({b - k : b \in B} \intersect Nat) \union (sign \intersect Nat)

AllBelow(B) == Smear(Smear(Smear(Smear(Smear(B, 1), 2), 4), 8), 16)

\* A slip in RoundedUp: x is not decremented first.
RoundedUpNext == [x \in 0 .. Pow2[INT_BITS] - 1 |->
  IF ToInt(x) < 0 THEN 0 ELSE ToUnsigned(ToInt(Value(AllBelow(Bits(x))) + 1), SIZE_BITS)]

\* The int that a size_t argument becomes, to the size_t that the int result becomes.
RoundedUp == [x \in 0 .. Pow2[INT_BITS] - 1 |->
  IF ToInt(x) < 0 THEN 0 ELSE ToUnsigned(ToInt(Value(AllBelow(Bits(x - 1))) + 1), SIZE_BITS)]

closest_power_of_2(x) == RoundedUp[ToUnsigned(x, INT_BITS)]

-----------------------------------------------------------------------------
\* A slip in max_local: the kernel's own limit is left out.
max_local_device == device.max_work_group_size

max_local == Min({device.max_work_group_size, max_work_group_size})

LocalSize(x, limit) == IF x >= limit THEN limit ELSE closest_power_of_2(x)

RoundUp ==
  /\ host_pc = "round" /\ host_pc' = "halve"
  /\ global_work_size' = <<closest_power_of_2(w), closest_power_of_2(h)>>
  /\ local_work_size' = <<LocalSize(w, device.work_items_for_dims[1]),
                          LocalSize(h, device.work_items_for_dims[2])>>
  /\ div_w' = (local_work_size'[1] > local_work_size'[2])
  /\ UNCHANGED <<limits, w, h>>

\* A slip in TooMany: it halves once more.
TooManyOrEqual == ToUnsigned(Product(local_work_size), SIZE_BITS) >= max_local

\* The product is a size_t.
TooMany == ToUnsigned(Product(local_work_size), SIZE_BITS) > max_local

\* A slip in Halve: one side is halved all the way, and never below 1.
HalveFloorOne ==
  /\ host_pc = "halve" /\ TooMany
  /\ local_work_size' = IF div_w
       THEN [local_work_size EXCEPT ![1] = IF @ = 1 THEN 1 ELSE @ \div 2]
       ELSE [local_work_size EXCEPT ![2] = IF @ = 1 THEN 1 ELSE @ \div 2]
  /\ UNCHANGED <<limits, w, h, global_work_size, div_w, host_pc>>

\* One turn of the loop: the sides take turns.
Halve ==
  /\ host_pc = "halve" /\ TooMany
  /\ local_work_size' = IF div_w THEN [local_work_size EXCEPT ![1] = @ \div 2]
                                 ELSE [local_work_size EXCEPT ![2] = @ \div 2]
  /\ div_w' = ~div_w
  /\ UNCHANGED <<limits, w, h, global_work_size, host_pc>>

Nonstandard ==
  \E i \in 1 .. 2 : global_work_size[i] < local_work_size[i] \/ local_work_size[i] = 0

Return ==
  /\ host_pc = "halve" /\ ~TooMany
  /\ host_pc' = IF Nonstandard THEN "threw" ELSE "execute"
  /\ UNCHANGED <<limits, w, h, global_work_size, local_work_size, div_w>>

=============================================================================
