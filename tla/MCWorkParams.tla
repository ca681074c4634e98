---------------------------- MODULE MCWorkParams ----------------------------
(***************************************************************************)
(* TLC instances of WorkParams: an 8-bit int, and a size_t between it and  *)
(* a 16-bit long long.                                                     *)
(***************************************************************************)
EXTENDS WorkParams

Arrays(Sizes, n) == [1 .. n -> Sizes]

\* Zero to four dimensions; with and without local sizes.
LaunchesOf(GlobalSizes, LocalSizes) ==
  UNION {{[work_dim |-> d, global |-> g, local |-> l] :
             g \in Arrays(GlobalSizes, d), l \in Arrays(LocalSizes, d) \union {NoLocal}}
           : d \in 1 .. 2}
    \union {[work_dim |-> 3, global |-> g, local |-> l] :
               g \in Arrays({4, 6}, 3), l \in Arrays(LocalSizes \ {0, 4}, 3) \union {NoLocal}}
    \union {[work_dim |-> d, global |-> [i \in 1 .. d |-> 1], local |-> NoLocal] : d \in {0, 4}}

\* Products on both sides of a 16-bit long long's bounds: they wrap to a negative number, to
\* zero, to a small or to a large one.
Wrapping ==
  {[work_dim |-> 2, global |-> g, local |-> l] :
     g \in {<<256, 127>>, <<256, 128>>, <<256, 256>>, <<257, 256>>, <<512, 192>>, <<320, 256>>},
     l \in {NoLocal, <<1, 1>>, <<4, 4>>}}

MCLaunches ==
  LaunchesOf({0, 1, 4, 6, 64}, {0, 1, 2, 3, 4}) \union Wrapping
    \union {[work_dim |-> 1, global |-> <<g>>, local |-> NoLocal] : g \in {1023, 1024, 1025}}

\* On both sides of every power of two an int can be rounded up to, and sides an int
\* cannot hold.
Sides == 0 .. 9 \union {15, 16, 17, 31, 32, 33, 63, 64, 130, 255}

\* Limits of a dimension are powers of two.  Address bits hold most of the pictures and
\* launches and not all.
Limits(AddressBits) ==
  [address_bits : AddressBits, max_work_group_size : {4, 16},
   work_items_for_dims : {<<1, 1, 1>>, <<2, 16, 1>>, <<8, 4, 2>>, <<16, 1, 2>>, <<32, 32, 2>>}]

MCDevices == Limits({6, 10})
MCKernelLimits == {1, 3, 8, 16}

\* The theorems apply to this instance.
ASSUME InstanceFits ==
  LaunchesFit /\ PicturesFit /\ \A d \in MCDevices : DeviceFits(d) /\ RangeFits(d)

\* A device whose address_bits is the width of long long, as 64-bit devices have it.
WideDevices == Limits({LL_BITS})

=============================================================================
