--------------------------- MODULE HashSearchInv ----------------------------
(***************************************************************************)
(* The inductive invariant of HashSearch: what relates the host's program  *)
(* counter, the queue, the event, the items and the two shared buffers.    *)
(* TLC checks it on the instances, HashSearchProofs proves it.             *)
(***************************************************************************)
EXTENDS HashSearch

\* Combination k of work item g of launch c hashes to the target.
Match(c, g, k) == hash_value(c, g, k) = target_hash

LaunchPC == {"read_flag", "wait_flag", "check", "read_buf", "wait_buf",
             "report", "found"}
PendingPC == {"push", "execute"} \cup LaunchPC

\* The launch of this turn of main's loop has started and was not killed.
Active == finish_token \in {"running", "complete"} /\ host_pc \in LaunchPC

\* What is enqueued, by where the host and the last launch stand.
PipelineInv ==
  /\ host_pc \in SetupPC \cup {"loop", "push", "execute", "notfound"} =>
       queue = << >> /\ finish_token \in {"none", "complete"}
  /\ host_pc = "read_flag" =>
       \/ /\ finish_token \in {"queued", "running"}
          /\ queue = << LaunchCommand(launch_args) >>
       \/ finish_token \in {"complete", "error"} /\ queue = << >>
  /\ host_pc = "wait_flag" =>
       \/ /\ finish_token \in {"queued", "running"}
          /\ queue = << LaunchCommand(launch_args), ReadFlagCommand >>
       \/ finish_token \in {"complete", "error"} /\ queue = << ReadFlagCommand >>
  /\ host_pc \in {"check", "read_buf", "report", "found"} =>
       queue = << >> /\ finish_token = "complete"
  /\ host_pc = "wait_buf" =>
       queue = << ReadBufCommand >> /\ finish_token = "complete"

\* The argument stack holds what this turn pushed so far.
ArgsInv ==
  /\ host_pc = "loop" => arg_stack_size = 0
  /\ host_pc = "push" =>
       /\ pushed < NUM_ARGS /\ arg_stack_size = pushed
       /\ \A n \in ArgIndex : n < pushed => kernel_arg[n] = launch_args[n]
  /\ host_pc = "execute" => kernel_arg = launch_args
  /\ host_pc \in LaunchPC => arg_stack_size = 0

LoopInv ==
  /\ host_pc \in PendingPC => i < repeatCnt
  /\ host_pc = "notfound" => i = repeatCnt

\* The flag and the host's copy of it are clear until a launch sets it.
FlagInv ==
  /\ host_pc \in {"create_kernel", "loop", "push", "execute"} => found_flag = 0
  /\ finish_token = "queued" => found_flag = 0
  /\ host_pc \in SetupPC \cup {"loop", "push", "execute", "read_flag", "wait_flag"} =>
       cpu_flag = 0
  /\ host_pc \in {"check", "read_buf", "wait_buf", "report", "found"} =>
       cpu_flag = found_flag
  /\ host_pc \in {"read_buf", "wait_buf", "report", "found"} => cpu_flag = 1

\* While an item runs: what it tried did not match, what it claims does.
ItemInv ==
  /\ finish_token # "running" => AllItems("done")
  /\ Active =>
       /\ launch = launch_args
       /\ \A g \in Item :
            /\ \A k \in 0 .. item_i[g] - 1 : ~ Match(i, g, k)
            /\ item_pc[g] \in {"claim", "copy"} =>
                 item_i[g] < combinations /\ Match(i, g, item_i[g])
            /\ item_pc[g] = "done" /\ found_flag = 0 => item_i[g] = combinations
            /\ item_pc[g] = "copy" => found_flag = 1
            /\ item_pc[g] \in {"scan", "claim"} => item_pos[g] = 0

\* Item w won the exchange: it alone writes, and target is what it wrote.
Owner(w) ==
  /\ item_i[w] < combinations /\ Match(i, w, item_i[w])
  /\ item_pc[w] \in {"copy", "done"}
  /\ \A g \in Item \ {w} : item_pc[g] # "copy"
  /\ \A p \in Position :
       target[p] = IF p < item_pos[w] THEN data(i, w, item_i[w])[p] ELSE 0
  /\ item_pc[w] = "done" => item_pos[w] = LETTER_COUNT

BufferInv ==
  /\ host_pc \in {"init", "alloc_buf", "write_buf"} =>
       target = [p \in Position |-> Garbage]
  /\ host_pc \in {"init", "alloc_buf", "write_buf"} => cpu_buf = Blank
  /\ host_pc \in {"alloc_flag", "write_flag"} => target = Blank
  /\ /\ host_pc \in {"create_kernel", "loop", "push", "execute"} \cup LaunchPC
     /\ found_flag = 0
     => target = Blank
  /\ Active /\ found_flag = 1 => \E w \in Item : Owner(w)
  /\ host_pc \in {"report", "found"} => cpu_buf = target

\* No word of a finished turn of the loop hashes to the target.
TriedInv ==
  \A c \in Launch, g \in Item, k \in Combination : c < i => ~ Match(c, g, k)

FailedInv ==
  /\ failed # "arg_index"
  /\ host_pc = "aborted" => failed # "none"

IInv ==
  /\ TypeOK
  /\ PipelineInv /\ ArgsInv /\ LoopInv /\ FlagInv
  /\ ItemInv /\ BufferInv /\ TriedInv /\ FailedInv

=============================================================================
