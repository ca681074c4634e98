----------------------------- MODULE HashSearch -----------------------------
(***************************************************************************)
(* The whole search: `main` on the host drives one kernel launch per value *)
(* of the letters it iterates itself, through an in-order command queue,   *)
(* and reads the flag back after each launch.  The device of SearchKernel  *)
(* executes the queue.  Every call of the wrapper may fail: check_error    *)
(* then throws, nothing in main catches, and the process terminates.       *)
(***************************************************************************)
EXTENDS SearchKernel

CONSTANTS
  TargetHashes,  \* the hashes main may be compiled to invert
  Garbage        \* the content of a buffer nobody wrote yet

ASSUME TargetAssumption == TargetHashes \subseteq 0 .. LONG_RANGE - 1
ASSUME GarbageAssumption == Garbage \notin Alphabet

VARIABLES
  target_hash,     \* the global of Main_cl.cpp: never assigned
  host_pc,         \* the statement of main about to run
  i,               \* the launch counter of main's loop
  percent_done,    \* the next percentage to print
  pushed,          \* push_arg calls made in this turn of the loop
  arg_stack_size,  \* Kernel::arg_stack_size
  kernel_arg,      \* the cl_kernel's argument values; they survive a launch
  queue,           \* commands enqueued and not completed, in order
  finish_token,    \* state of the event of the last launch
  cpu_flag,        \* the host's copy of the flag
  cpu_buf,         \* the host's copy of the word
  failed           \* which check, if any, made the program throw

mainVars   == << target_hash, i, percent_done, pushed >>
argVars    == << arg_stack_size, kernel_arg >>
deviceVars == << queue, finish_token >>
cpuVars    == << cpu_flag, cpu_buf >>
vars == << kernelVars, host_pc, mainVars, argVars, deviceVars, cpuVars, failed >>

-----------------------------------------------------------------------------
(* Parts of the state *)

\* The handles of the two buffers: their slots in Context::_allocations.
gpu_buf  == 0
gpu_flag == 1

NUM_ARGS == 6
ArgIndex == 0 .. NUM_ARGS - 1

\* The arguments main pushes in turn i, in the order of the kernel's parameters.
launch_args ==
  [n \in ArgIndex |->
     CASE n = 0 -> gpu_buf
       [] n = 1 -> gpu_flag
       [] n = 2 -> target_hash
       [] n = 3 -> letters_from_global_id
       [] n = 4 -> i
       [] OTHER -> letters_to_iter_over]

\* A slip: the remainder of the division is forgotten.
repeats_per_percent_floor == repeatCnt \div 100

repeats_per_percent == repeatCnt \div 100 + 1

Blank == [p \in Position |-> 0]

Final      == {"found", "notfound", "aborted"}
SetupPC    == {"init", "alloc_buf", "write_buf", "alloc_flag", "write_flag",
               "create_kernel"}
LoopPC     == {"loop", "push", "execute", "read_flag", "wait_flag", "check",
               "read_buf", "wait_buf", "report"}
HostPC     == SetupPC \cup LoopPC \cup Final

LaunchCommand(args) == [op |-> "launch", args |-> args]
ReadFlagCommand     == [op |-> "read_flag"]
ReadBufCommand      == [op |-> "read_buf"]

-----------------------------------------------------------------------------
(* Initial state: locals as initialised, everything else indeterminate *)

Init ==
  /\ host_pc = "init"
  /\ i = 0 /\ percent_done = 0 /\ pushed = 0
  /\ target_hash \in TargetHashes
  /\ arg_stack_size \in 0 .. NUM_ARGS
  /\ kernel_arg = [n \in ArgIndex |-> Garbage]
  /\ queue = << >> /\ finish_token = "none"
  /\ cpu_flag = 0 /\ cpu_buf = Blank
  /\ failed = "none"
  /\ found_flag \in {0, 1}
  /\ target = [p \in Position |-> Garbage]
  /\ launch = [n \in ArgIndex |-> Garbage]
  /\ item_pc = [g \in Item |-> "done"]
  /\ item_i = [g \in Item |-> 0]
  /\ item_pos = [g \in Item |-> 0]

-----------------------------------------------------------------------------
(* Host *)

Goto(from, to) == host_pc = from /\ host_pc' = to

\* check_error throws, and no handler exists between it and main's caller.
Throw(reason) ==
  /\ host_pc' = "aborted"
  /\ failed' = reason
  /\ UNCHANGED << kernelVars, mainVars, argVars, deviceVars, cpuVars >>

\* context.init() and the two allocations: buffers start with any content.
Setup ==
  /\ \/ Goto("init", "alloc_buf")
     \/ Goto("alloc_buf", "write_buf")
     \/ Goto("alloc_flag", "write_flag")
  /\ UNCHANGED << kernelVars, mainVars, argVars, deviceVars, cpuVars, failed >>

\* Blocking write of the zeroed cpu_buf.
WriteBuf ==
  /\ Goto("write_buf", "alloc_flag")
  /\ target' = cpu_buf
  /\ UNCHANGED << found_flag, launch, item_pc, item_i, item_pos,
                  mainVars, argVars, deviceVars, cpuVars, failed >>

\* Blocking write of the zero cpu_flag.
WriteFlag ==
  /\ Goto("write_flag", "create_kernel")
  /\ found_flag' = cpu_flag
  /\ UNCHANGED << target, launch, item_pc, item_i, item_pos,
                  mainVars, argVars, deviceVars, cpuVars, failed >>

\* create_kernel ends in Kernel::init, which empties the argument stack.
CreateKernel ==
  /\ Goto("create_kernel", "loop")
  /\ arg_stack_size' = 0
  /\ UNCHANGED << kernelVars, mainVars, kernel_arg, deviceVars, cpuVars, failed >>

\* A slip in LoopHead: one turn too many.
LoopHeadInclusive ==
  /\ IF i <= repeatCnt THEN Goto("loop", "push") ELSE Goto("loop", "notfound")
  /\ percent_done' = IF i <= repeatCnt /\ i % repeats_per_percent = 0
                       THEN percent_done + 1 ELSE percent_done
  /\ pushed' = 0
  /\ UNCHANGED << kernelVars, target_hash, i, argVars, deviceVars, cpuVars, failed >>

\* The loop test and, on a turn, the progress report.
LoopHead ==
  /\ IF i < repeatCnt THEN Goto("loop", "push") ELSE Goto("loop", "notfound")
  /\ percent_done' = IF i < repeatCnt /\ i % repeats_per_percent = 0
                       THEN percent_done + 1 ELSE percent_done
  /\ pushed' = 0
  /\ UNCHANGED << kernelVars, target_hash, i, argVars, deviceVars, cpuVars, failed >>

\* A slip in PushArg: main leaves out the last argument.
PushArgShort ==
  /\ host_pc = "push"
  /\ arg_stack_size \in ArgIndex
  /\ kernel_arg' = [kernel_arg EXCEPT ![arg_stack_size] = launch_args[pushed]]
  /\ arg_stack_size' = arg_stack_size + 1
  /\ pushed' = pushed + 1
  /\ host_pc' = IF pushed + 1 = NUM_ARGS - 1 THEN "execute" ELSE "push"
  /\ UNCHANGED << kernelVars, target_hash, i, percent_done, deviceVars, cpuVars, failed >>

\* One push_arg; clSetKernelArg refuses an index the kernel does not have.
PushArg ==
  /\ host_pc = "push"
  /\ IF arg_stack_size \in ArgIndex
       THEN /\ kernel_arg' = [kernel_arg EXCEPT ![arg_stack_size] = launch_args[pushed]]
            /\ arg_stack_size' = arg_stack_size + 1
            /\ pushed' = pushed + 1
            /\ host_pc' = IF pushed + 1 = NUM_ARGS THEN "execute" ELSE "push"
            /\ UNCHANGED << kernelVars, target_hash, i, percent_done,
                            deviceVars, cpuVars, failed >>
       ELSE Throw("arg_index")

\* A slip in Execute: the argument stack is not emptied for the next turn.
ExecuteKeepsArgs ==
  /\ Goto("execute", "read_flag")
  /\ queue' = Append(queue, LaunchCommand(kernel_arg))
  /\ finish_token' = "queued"
  /\ UNCHANGED << kernelVars, mainVars, argVars, cpuVars, failed >>

\* Kernel::execute enqueues the launch; arguments are captured here.
Execute ==
  /\ Goto("execute", "read_flag")
  /\ arg_stack_size' = 0
  /\ queue' = Append(queue, LaunchCommand(kernel_arg))
  /\ finish_token' = "queued"
  /\ UNCHANGED << kernelVars, mainVars, kernel_arg, cpuVars, failed >>

\* check_work_parameters refuses the work size on this device.
ExecuteRefused == host_pc = "execute" /\ Throw("work_size")

\* Blocking reads: enqueue, then wait for the device.
ReadFlag ==
  /\ Goto("read_flag", "wait_flag")
  /\ queue' = Append(queue, ReadFlagCommand)
  /\ UNCHANGED << kernelVars, mainVars, argVars, finish_token, cpuVars, failed >>

ReadBuf ==
  /\ Goto("read_buf", "wait_buf")
  /\ queue' = Append(queue, ReadBufCommand)
  /\ UNCHANGED << kernelVars, mainVars, argVars, finish_token, cpuVars, failed >>

\* if(cpu_flag): fetch the word and break, else the next turn of the loop.
CheckFlag ==
  /\ IF cpu_flag # 0 THEN Goto("check", "read_buf") ELSE Goto("check", "loop")
  /\ i' = IF cpu_flag # 0 THEN i ELSE i + 1
  /\ UNCHANGED << kernelVars, target_hash, percent_done, pushed,
                  argVars, deviceVars, cpuVars, failed >>

\* Printing the word.
PrintWord ==
  /\ Goto("report", "found")
  /\ UNCHANGED << kernelVars, mainVars, argVars, deviceVars, cpuVars, failed >>

\* The driver reports an error from the call main is making.
CallPC == SetupPC \cup {"push", "execute", "read_flag", "read_buf"}
CallFails == host_pc \in CallPC /\ Throw("driver")

HostStep ==
  \/ Setup \/ WriteBuf \/ WriteFlag \/ CreateKernel
  \/ LoopHead \/ PushArg \/ Execute \/ ReadFlag \/ CheckFlag \/ ReadBuf \/ PrintWord

HostFault == CallFails \/ ExecuteRefused

-----------------------------------------------------------------------------
(* Device: executes the head of the in-order queue *)

HeadIs(op) == host_pc \notin Final /\ queue # << >> /\ Head(queue).op = op

StartLaunch ==
  /\ HeadIs("launch") /\ finish_token = "queued"
  /\ BeginLaunch(Head(queue).args)
  /\ finish_token' = "running"
  /\ UNCHANGED << host_pc, mainVars, argVars, queue, cpuVars, failed >>

RunItem(g) ==
  /\ HeadIs("launch") /\ finish_token = "running"
  /\ ItemStep(g)
  /\ UNCHANGED << host_pc, mainVars, argVars, deviceVars, cpuVars, failed >>

FinishLaunch ==
  /\ HeadIs("launch") /\ finish_token = "running" /\ AllItems("done")
  /\ finish_token' = "complete"
  /\ queue' = Tail(queue)
  /\ UNCHANGED << kernelVars, host_pc, mainVars, argVars, cpuVars, failed >>

\* The watchdog (or a fault) kills the launch between any two steps of items.
KillLaunch ==
  /\ HeadIs("launch") /\ finish_token \in {"queued", "running"}
  /\ finish_token' = "error"
  /\ queue' = Tail(queue)
  /\ item_pc' = [g \in Item |-> "done"]
  /\ UNCHANGED << found_flag, target, launch, item_i, item_pos,
                  host_pc, mainVars, argVars, cpuVars, failed >>

\* A slip in CompleteReadFlag: the read does not name the event.
CompleteReadFlagUnwaited ==
  /\ HeadIs("read_flag") /\ host_pc = "wait_flag"
  /\ cpu_flag' = found_flag
  /\ host_pc' = "check"
  /\ queue' = Tail(queue)
  /\ UNCHANGED << kernelVars, mainVars, argVars, finish_token, cpu_buf, failed >>

\* The read of the flag names finish_token in its wait list.
CompleteReadFlag ==
  /\ HeadIs("read_flag") /\ host_pc = "wait_flag"
  /\ finish_token = "complete"
  /\ cpu_flag' = found_flag
  /\ host_pc' = "check"
  /\ queue' = Tail(queue)
  /\ UNCHANGED << kernelVars, mainVars, argVars, finish_token, cpu_buf, failed >>

\* A failed event in the wait list of a blocking read fails the read.
ReadFlagFails ==
  /\ HeadIs("read_flag") /\ host_pc = "wait_flag"
  /\ finish_token = "error"
  /\ Throw("driver")

\* The read of the word has an empty wait list: queue order alone protects it.
CompleteReadBuf ==
  /\ HeadIs("read_buf") /\ host_pc = "wait_buf"
  /\ cpu_buf' = target
  /\ host_pc' = "report"
  /\ queue' = Tail(queue)
  /\ UNCHANGED << kernelVars, mainVars, argVars, finish_token, cpu_flag, failed >>

DeviceStep ==
  \/ StartLaunch \/ FinishLaunch
  \/ CompleteReadFlag \/ ReadFlagFails \/ CompleteReadBuf

-----------------------------------------------------------------------------

\* The process has ended.
Terminated == host_pc \in Final /\ UNCHANGED vars

Next ==
  \/ HostStep \/ HostFault
  \/ DeviceStep \/ KillLaunch
  \/ \E g \in Item : RunItem(g)
  \/ Terminated

Spec == Init /\ [][Next]_vars

(***************************************************************************)
(* main runs until it blocks; a blocking read flushes the queue, so the    *)
(* device starts what is queued; an item waits for no other item.  Faults  *)
(* are never owed.                                                         *)
(***************************************************************************)
Fairness ==
  /\ WF_vars(HostStep)
  /\ WF_vars(DeviceStep)
  /\ \A g \in Item : WF_vars(RunItem(g))

FairSpec == Spec /\ Fairness

-----------------------------------------------------------------------------
(* Properties *)

(***************************************************************************)
(* Type invariant.                                                         *)
(***************************************************************************)
Char     == Alphabet \cup {0, Garbage}
ArgValue == Int \cup {Garbage}
Command  == [op : {"launch"}, args : [ArgIndex -> ArgValue]]
              \cup [op : {"read_flag", "read_buf"}]

TypeOK ==
  /\ found_flag \in {0, 1}
  /\ target \in [Position -> Char]
  /\ launch \in [ArgIndex -> ArgValue]
  /\ item_pc \in [Item -> {"scan", "claim", "copy", "done"}]
  /\ item_i \in [Item -> 0 .. combinations]
  /\ item_pos \in [Item -> 0 .. LETTER_COUNT]
  /\ host_pc \in HostPC
  /\ target_hash \in TargetHashes
  /\ i \in 0 .. repeatCnt
  /\ percent_done \in Nat
  /\ pushed \in 0 .. NUM_ARGS
  /\ arg_stack_size \in 0 .. NUM_ARGS
  /\ kernel_arg \in [ArgIndex -> ArgValue]
  /\ queue \in Seq(Command)
  /\ finish_token \in {"none", "queued", "running", "complete", "error"}
  /\ cpu_flag \in {0, 1}
  /\ cpu_buf \in [Position -> Char]
  /\ failed \in {"none", "driver", "work_size", "arg_index"}

(***************************************************************************)
(* The word printed at Main_cl.cpp:86 is a whole word of the search space  *)
(* and hashes to the target, whatever items matched at once, in whatever   *)
(* order they claimed and copied, and wherever a launch was killed.        *)
(***************************************************************************)
ReportedWordCorrect ==
  host_pc = "found" => cpu_buf \in Words /\ Hash(cpu_buf) = target_hash

(***************************************************************************)
(* When the loop of main runs out without a word (Main_cl.cpp:56), there   *)
(* was none: the launches, items and combinations covered every word.      *)
(***************************************************************************)
NotFoundIsExhaustive ==
  host_pc = "notfound" => \A w \in Words : Hash(w) # target_hash

(***************************************************************************)
(* Once an item won the exchange on found_flag, every letter it stored in  *)
(* target stays: no other item, and no later launch, overwrites it.        *)
(***************************************************************************)
NoOverwrite ==
  [][\A p \in Position : target[p] \in Alphabet => target'[p] = target[p]]_vars

(***************************************************************************)
(* An enqueued launch carries exactly the six arguments of the turn of the *)
(* loop that enqueued it: none is left from an earlier turn (arguments     *)
(* survive a launch in the cl_kernel) and none is out of place.            *)
(***************************************************************************)
LaunchArgsFresh ==
  \A n \in 1 .. Len(queue) :
    queue[n].op = "launch" => queue[n].args = launch_args

(***************************************************************************)
(* From the moment main looks at cpu_flag, the launch it is about has      *)
(* completed without error, the device is idle, and the flag has not moved *)
(* since it was read.                                                      *)
(***************************************************************************)
HostSeesFinishedLaunch ==
  host_pc \in {"check", "read_buf", "wait_buf", "report", "found"} =>
    /\ finish_token = "complete"
    /\ AllItems("done")
    /\ cpu_flag = found_flag

(***************************************************************************)
(* The program throws only when the driver or the device's work size       *)
(* limits make it: its own calls never use an argument index the kernel    *)
(* does not have.                                                          *)
(***************************************************************************)
AbortHasCause == host_pc = "aborted" => failed \in {"driver", "work_size"}

(***************************************************************************)
(* The percentage on screen (percent_done - 1 once one is printed) never   *)
(* exceeds the share of launches finished, and never passes 100.           *)
(***************************************************************************)
ProgressHonest ==
  /\ (percent_done - 1) * repeatCnt <= 100 * i
  /\ percent_done <= 100

(***************************************************************************)
(* The program ends: no wait of the host on the device lasts forever.      *)
(***************************************************************************)
Terminates == <>(host_pc \in Final)

(***************************************************************************)
(* The search implements WordSearch: a turn of the loop that finds the     *)
(* flag clear rules out that turn's words, printing reports one.           *)
(***************************************************************************)
TriedWords ==
  {data(c, g, k) : c \in 0 .. i - 1, g \in Item, k \in Combination}

Search == INSTANCE WordSearch WITH
  matches  <- {w \in Words : Hash(w) = target_hash},
  excluded <- TriedWords,
  outcome  <- IF host_pc \in Final THEN host_pc ELSE "searching",
  answer   <- IF host_pc = "found" THEN {cpu_buf} ELSE {}

RefinesWordSearch == Search!SearchSpec

=============================================================================
