---------------------------- MODULE SearchKernel ----------------------------
(***************************************************************************)
(* The device side: one launch of kernel `main` over all work items.  The  *)
(* items share two global buffers, found_flag and target.  Everything an   *)
(* item computes between two accesses to them is private, so a step is     *)
(* either the test of one combination, the atomic exchange on the flag, or *)
(* the store of one letter; the steps of different items interleave freely *)
(* (a work group has no barrier, so groups run in any order as well).      *)
(***************************************************************************)
EXTENDS HashWord

VARIABLES
  found_flag,  \* __global int* found_flag, the buffer gpu_flag
  target,      \* __global char* target, the buffer gpu_buf
  launch,      \* the argument values captured by the running launch
  item_pc,     \* where each work item stands
  item_i,      \* each item's loop variable over the combinations
  item_pos     \* the next letter an item copies to target

kernelVars == << found_flag, target, launch, item_pc, item_i, item_pos >>

\* Kernel arguments by index, as set by clSetKernelArg.
TARGET_HASH_ARG == 2
CPU_ITER_ARG    == 4

cpu_iter_i       == launch[CPU_ITER_ARG]
item_data(g)     == data(cpu_iter_i, g, item_i[g])
item_matches(g)  == hash_value(cpu_iter_i, g, item_i[g]) = launch[TARGET_HASH_ARG]

AllItems(pc) == \A g \in Item : item_pc[g] = pc

\* The runtime starts every item of a launch with the captured arguments.
BeginLaunch(args) ==
  /\ launch'   = args
  /\ item_pc'  = [g \in Item |-> "scan"]
  /\ item_i'   = [g \in Item |-> 0]
  /\ item_pos' = [g \in Item |-> 0]
  /\ UNCHANGED << found_flag, target >>

\* Slips in Scan: the last combination is left out; the loop does not advance.
ScanMissesLast(g) ==
  /\ item_pc[g] = "scan"
  /\ \/ /\ item_i[g] = combinations - 1
        /\ item_pc' = [item_pc EXCEPT ![g] = "done"]
        /\ UNCHANGED item_i
     \/ /\ item_i[g] < combinations - 1
        /\ item_matches(g)
        /\ item_pc' = [item_pc EXCEPT ![g] = "claim"]
        /\ UNCHANGED item_i
     \/ /\ item_i[g] < combinations - 1
        /\ ~ item_matches(g)
        /\ item_i' = [item_i EXCEPT ![g] = @ + 1]
        /\ UNCHANGED item_pc
  /\ UNCHANGED << found_flag, target, launch, item_pos >>

ScanStuck(g) ==
  /\ item_pc[g] = "scan"
  /\ item_pc' = [item_pc EXCEPT ![g] = IF item_i[g] = combinations THEN "done"
                                      ELSE IF item_matches(g) THEN "claim" ELSE "scan"]
  /\ UNCHANGED << found_flag, target, launch, item_i, item_pos >>

\* One turn of the loop over the combinations, or its exit.
Scan(g) ==
  /\ item_pc[g] = "scan"
  /\ \/ /\ item_i[g] = combinations
        /\ item_pc' = [item_pc EXCEPT ![g] = "done"]
        /\ UNCHANGED item_i
     \/ /\ item_i[g] < combinations
        /\ item_matches(g)
        /\ item_pc' = [item_pc EXCEPT ![g] = "claim"]
        /\ UNCHANGED item_i
     \/ /\ item_i[g] < combinations
        /\ ~ item_matches(g)
        /\ item_i' = [item_i EXCEPT ![g] = @ + 1]
        /\ UNCHANGED item_pc
  /\ UNCHANGED << found_flag, target, launch, item_pos >>

\* A slip in Claim: the value the exchange returned is not looked at.
ClaimUnchecked(g) ==
  /\ item_pc[g] = "claim"
  /\ found_flag' = 1
  /\ item_pc' = [item_pc EXCEPT ![g] = "copy"]
  /\ UNCHANGED << target, launch, item_i, item_pos >>

\* Another: the flag is looked at and not set.
ClaimUnset(g) ==
  /\ item_pc[g] = "claim"
  /\ item_pc' = [item_pc EXCEPT ![g] = IF found_flag = 0 THEN "copy" ELSE "done"]
  /\ UNCHANGED << found_flag, target, launch, item_i, item_pos >>

\* atomic_cmpxchg(found_flag, 0, 1): the item that saw 0 copies, others break.
Claim(g) ==
  /\ item_pc[g] = "claim"
  /\ found_flag' = IF found_flag = 0 THEN 1 ELSE found_flag
  /\ item_pc' = [item_pc EXCEPT ![g] = IF found_flag = 0 THEN "copy" ELSE "done"]
  /\ UNCHANGED << target, launch, item_i, item_pos >>

\* target[i] = data[i], one letter per step, then `break`.
CopyLetter(g) ==
  /\ item_pc[g] = "copy"
  /\ \/ /\ item_pos[g] < LETTER_COUNT
        /\ target' = [target EXCEPT ![item_pos[g]] = item_data(g)[item_pos[g]]]
        /\ item_pos' = [item_pos EXCEPT ![g] = @ + 1]
        /\ UNCHANGED item_pc
     \/ /\ item_pos[g] = LETTER_COUNT
        /\ item_pc' = [item_pc EXCEPT ![g] = "done"]
        /\ UNCHANGED << target, item_pos >>
  /\ UNCHANGED << found_flag, launch, item_i >>

ItemStep(g) == Scan(g) \/ Claim(g) \/ CopyLetter(g)

=============================================================================
