# opencl-hash: models, checks and proofs

The program inverts a hash: it looks for the 9-letter word over a 16-letter alphabet
whose hash is `target_hash`, by trying every word on a GPU, through a small C++ wrapper
around OpenCL. This directory holds TLA+ models of the program and of the whole wrapper,
the TLC runs that check them on small instances, and proofs, checked by TLAPS, of what
matters most for every size. Paths below are relative to the repository.

## Inventory

| Part | State it keeps | Operations | Correct when |
| --- | --- | --- | --- |
| GPU kernel, `src/kernel/open_cl_kernel.cl` | two global buffers shared by all work items, `found_flag` and `target`; per item `data`, `base_hash`, the loop counter | one launch of `main` over 2^16 items, each trying 2^8 words | exactly one item that matches stores its whole word; every word of the launch is tried |
| Host driver, `src/Main_cl.cpp` | `i`, `percent_done`, `cpu_flag`, `cpu_buf` | set-up, 4096 turns of the loop: push six arguments, launch, blocking read of the flag, blocking read of the word when it is set | the word printed hashes to the target; it gives up only when no word does; it ends; the percentage is honest |
| `Kernel`: arguments and launch, `src/opencl/Kernel.cpp` 9-64 | `arg_stack_size`, `initialized`, the `cl_kernel` with its argument values | `init`, `cleanup`, `push_arg`, `execute` | a launch runs on the arguments pushed for it |
| `Kernel::check_work_parameters`, `Kernel.cpp` 66-129 | `max_work_group_size` | the check in `execute` | it refuses what the device or the kernel cannot run, and nothing else |
| `Context`: lifecycle, `src/opencl/Context.cpp` 36-188 | device, context and queue handles, 32 kernel and 32 allocation slots, `initialized` | `init`, `allocate`, `create_kernel`, `check_error`, `_cleanup`, the destructor | every handle is released once, on every path; `initialized` means usable |
| `Context`: transfers, 114-120 and 190-251 | the commands pending, the host memory behind them | `read_buffer`, `write_buffer`, `zeros_float`, `block` | transfers read memory that is still alive, and are over when the wait for them is |
| Platform and device information, `Context.cpp` 256-356 | one `PlatformInfo`, one vector of `DeviceInfo`; `_platform`, `_device` | queries and printing | what is shown belongs to what it is shown for; an error is reported as what it was |
| `utils::load_file`, `src/opencl/UtilsOpenCL.cpp` 25-67 | an open file, an allocation | load the source of a kernel | the compiler gets the text as it was measured, nothing uninitialised in it; file and memory are given back |
| `utils::work_sizes`, 72-106 and 183-192 | none | global and local sizes for a picture | the sizes cover the picture and pass `check_work_parameters` whenever the device can take the picture |
| `libs/`, `makefile` | - | vendored OpenCL headers, build | not modelled; the driver's behaviour appears as external actions |

How they interact: `main` owns one `Context`, which owns the `Kernel` and the two buffers.
`main` calls the wrapper, the wrapper calls the OpenCL driver, the driver puts commands in
an in-order queue that the device executes asynchronously. Every OpenCL error goes through
`Context::check_error`, which releases everything and throws; nothing in `main` catches.
`create_kernel` calls `load_file` and asks the driver for the work-group limit that
`execute` and `work_sizes` use.

What is hard here: the items of a launch run concurrently and share two buffers with one
atomic exchange between them; the host and the device are asynchronous; the display
driver's watchdog may kill a launch anywhere (the crash the comment in `Main_cl.cpp:20`
links to); kernel arguments survive a launch; the enumeration of the words is split
over two programs in two languages that must agree; clean-up runs from three places; a
transfer that does not block uses memory after its call; error codes are joined and checked
once; sizes are computed and compared in integers of several widths. `PROJECT.json` lists
the hazards, each at its line, with the properties that cover it.

## Modules

| Module | Contents |
| --- | --- |
| `HashWord` | constants and their assumptions; the split of a word into launch, item and combination; the two tables; the hash as the program computes it, and a reference hash |
| `SearchKernel` | the device side of one launch: `BeginLaunch`, and per item `Scan`, `Claim`, `CopyLetter` |
| `WordSearch` | the abstract specification: rule words out, then report one that matches, give up when all are ruled out, or fail |
| `HashSearch` | the composition: `main`, the wrapper calls it makes, the command queue, the device running `SearchKernel`; the properties; the refinement mapping to `WordSearch` |
| `HashSearchInv` | the inductive invariant `IInv`, as named conjuncts |
| `ContextLifecycle` | one `Context` and the driver objects it creates, under any client: creation, failure, clean-up, release |
| `ContextLifecycleInv` | its inductive invariant `LifecycleInv` |
| `ArgStack` | the abstract specification of `push_arg` and `execute`: what `Kernel.hpp` 12-53 promises |
| `KernelArgs` | the argument stacks of several kernels as `Kernel.cpp` keeps them; the refinement mapping to `ArgStack` |
| `WorkCheck` | `check_work_parameters` in the program's integers; in numbers, the limits its messages name and those `clEnqueueNDRangeKernel` sets |
| `WorkSizes` | `work_sizes` and `closest_power_of_2`, in the program's integers |
| `WorkParams` | the composition of the two: a client asks for a kernel's limit, makes or chooses sizes, and has them checked |
| `BufferStore` | the abstract specification of the transfers: each takes place at its call |
| `Transfers` | the transfers over an asynchronous queue; the refinement mapping to `BufferStore` |
| `DeviceInfo` | `display_opencl_info`, `platform_info`, `device_info`, the queries of `init`, and the names of error codes |
| `LoadFile` | `load_file` and its call in `create_kernel`, against an editor that saves the file meanwhile |
| `MCHashSearch`, `MCContextLifecycle`, `MCKernelArgs`, `MCWorkParams`, `MCTransfers`, `MCDeviceInfo`, `MCLoadFile` | instances for TLC |
| `Recursion` | induction over the naturals, the existence of recursive functions, division: what the proofs about numbers rest on |
| `HashSearchProofs`, `ContextLifecycleProofs`, `KernelArgsProofs`, `WorkParamsProofs`, `TransfersProofs`, `DeviceInfoProofs`, `LoadFileProofs` | theorems and proofs |

Definitions whose comment begins with "A slip in" are mutants: they are used by no
specification, only in place of the definition after them, to see that a property notices.

### How the models correspond to the code

*The word.* `data(c, g, k)` is the private array `data` of work item `g` in launch `c` once
combination `k` filled its last letters. Shifts and masks are divisions by powers of `BASE`;
`Pow[n]` is `1 << (n * bits)`. Letters are their ASCII codes and the two tables are copied
entry by entry, so that `hash_step` really goes through `lookup`. A `long` is a residue
modulo `LONG_RANGE` (2^64 in the program): the kernel only adds, multiplies and compares for
equality, so the sign plays no part.

*The kernel.* An item's private computation between two accesses to shared memory is one
step: test one combination (`Scan`), the atomic exchange (`Claim`), the store of one letter
(`CopyLetter`). Steps of different items interleave freely, which covers any work-group
size and any order the device runs the groups in.

*main.* `host_pc` is the statement about to run. Each wrapper call is one action, except the
blocking reads, which are an enqueue (`ReadFlag`, `ReadBuf`) and a completion that only the
device can give (`CompleteReadFlag`, `CompleteReadBuf`). `PushArg` is `push_arg`,
`clSetKernelArg` included: the values land in `kernel_arg`, which survives the launch as the
arguments of a `cl_kernel` do, at index `arg_stack_size`, which only `CreateKernel`
(`Kernel::init`) and `Execute` reset. `Execute` captures `kernel_arg` into the queued command.

*Failures of the search.* `CallFails`: any OpenCL call of main returns an error.
`ExecuteRefused`: `check_work_parameters` rejects the work size. `KillLaunch`: the driver ends
a queued or running launch between any two steps of its items; buffers keep what was written.
A read whose wait list names the killed launch fails (`ReadFlagFails`). All end in `Throw`,
that is `check_error`, whose exception nobody catches. `KillLaunch`, `StartLaunch`,
`FinishLaunch`, the completions and `HeadIs` (the in-order queue) are external: OpenCL's
documented behaviour as the wrapper relies on it. `Throw` is the end of the process; what
`_cleanup` releases on the way is the subject of `ContextLifecycle`.

*Indeterminate state.* Before `main` writes them, the device buffers hold `Garbage` (a value
that is no letter) or any flag, the kernel's arguments are `Garbage` and
`arg_stack_size` is any number: `Kernel` has no constructor that sets it.

*The context.* In `ContextLifecycle` a driver object is an index in `objects`, live until its
first release: the wrapper never calls a retain function. `kernels` and `allocations` are the
slots in use, so that their lengths are `_kernel_count` and `_allocation_count`. A call that
fails ends in `life = "failing"`, from where only `CheckError` is possible: `_cleanup`, then
the exception, which ends the program (`main`; no destructor runs), unwinds through the
context's scope, or is handled inside it, after which the client goes on. `Wild` is a
pointer nothing was stored in; releasing it, or an object again, may also crash, which is
no different from the uncaught exception. The argument and event checks of the transfers do
not change this state: only that they may fail is modelled. `orphans` marks the programs
`create_kernel` loses when a later step of it fails (the comment in `Context.cpp:148`
expects such leaks); the source text lost when `clCreateProgramWithSource` fails is no
driver object and appears in `LoadFile`.

*Arguments.* `KernelArgs` has the fields of each `Kernel` and the values its `cl_kernel`
holds. `PushArg` and `Execute` have all their error exits, in the order of the code: the
stack is emptied after the sizes are checked and before the driver is called. The client
keeps to `Kernel.hpp` 35-37 (all arguments, and no more, before each launch); one that does
not is refused by the driver, or runs with an argument that survived. The mapping takes
what lies below the top of the stack as the arguments pushed. The count of events is an
`int` when the client gives it and a `cl_uint` when the driver takes it (`NumEvents`).

*Work sizes.* `WorkCheck` has the products in `long long` and the comparison with a `size_t`
converted as C++ does, so that the widths are constants. `LimitsHold` and `RangeHolds` are the
limits the messages of the check name, the range as a limit of the product of the global sizes;
`CanRun` is what the driver asks, on the page `Kernel.hpp:60-61` cites, where the range is a
limit of each size, at least 1 and at most `2^address_bits - 1`. A shift by the width or more
is undefined and gives one of the values builds give. `WorkSizes` rounds to a power of two by
smearing the bits of an `int`, an `int` being the set of its bits, converts back and forth to
`size_t` (products, values and powers of two are recursive functions, so that they can be
reasoned about), and halves one side after the other; each turn of that loop is one step.
`Execute` is the check of a launch, whatever was launched before it: nothing of a check is
kept.

*Transfers.* A command copies what host memory holds when the device gets to it, so that the
region of a transfer that does not block is still read or written later. The client leaves
such a region alone until it called `block()`; that is all it can know, as the wrapper offers
no other wait. `zeros_float`'s vector is a number of cells that are zero, none once the
function returned; what a read finds past them is anything. `SizeFits` is what the wrapper
checks, `DriverTakes` what the driver does, which alone looks at the offset.

*Information.* A text or number a query returns is identified with the platform or device it
describes, so that a stale field shows. Each query may fail with any of the codes, which are
joined bit by bit on the two's complement, and are looked at after the last of a group. On a
machine without a platform the first call fails with `CL_PLATFORM_NOT_FOUND_KHR`, a code of
`cl_ext.h` that the program has no name for.

*load_file.* A cell of the file says which save wrote it and at which place; `fread` takes
some cells at a time and stops at the end of the file it finds. `measured` is a history
variable: the cells there were when `ftell` was asked.

## Runs

| Run | Instance | Shows |
| --- | --- | --- |
| `race` | alphabet of 2 letters, words of 4: 2 launches x 4 items x 2 combinations; hashes modulo 10; every residue as target | the safety properties, the refinement and termination, with every interleaving of four items, every place to kill a launch and every call failing |
| `progress` | words of 14 letters: 4096 launches as in the program, 2 items, a hash no word has | the percentage |
| `lifecycle` | 2 kernel and 2 buffer slots, 9 objects; exceptions uncaught, caught outside, caught inside | slots are released once, only lost programs outlive a clean-up; until an exception is caught every object is released once and `initialized` is honest |
| `args` | 2 kernels, of 2 arguments and of 1, two launches each, two values | launches run on what was pushed, for any mixing of the calls; the driver refuses no wait list but that of a negative count |
| `work` | `int` of 8 bits, `size_t` of 12, `long long` of 16; 20 devices, 4 kernel limits; launches of 0 to 4 dimensions, some with products that wrap, pictures up to 255 by 255 | what the check lets through and what it refuses; the sizes cover, which of them are accepted, that they are found |
| `transfers` | one buffer of 2 cells, two regions of 2, floats of 2 cells, 2 commands pending | transfers behave as if each took place at its call; the vector of `zeros_float` outlives its write |
| `info` | six machines of no, one or two platforms, three error codes beside the two of missing platforms and devices | nothing stale, nothing left out, codes as returned |
| `load` | files of 0, 1 or 3 cells, preambles of 0 or 2, three saves | the text is as measured or newer, nothing is held |
| `lifecycle_stale` | exceptions caught inside | violated: `initialized` after a clean-up |
| `lifecycle_wild` | exceptions uncaught | violated: clean-up before the handles are set |
| `wide` | `work` on devices whose `address_bits` is the width of `long long` | violated: launches within every limit are refused |
| `zeros_async` | `transfers` with a `zeros_float` that does not block | violated: the buffer is not zero |

Bounds, and why they are enough.

- `race`: modulo 10 the hashes of the 16 words collide in the ways that matter: one residue
  belongs to no word (the search runs out), some to one word, some to two words that are
  tried by two items of the same launch (the race for the flag), some to words of different
  launches. Four items give a winner, a loser and items still scanning at the same time.
  Two launches give a turn of the loop that follows one that failed to find anything,
  with arguments left behind in the kernel. `progress` takes the number of launches of the
  program because its property is about that number: the quotient by 100 and its remainder.
- `lifecycle`: two slots of each kind tell a first from a last and reach the limits;
  9 objects are the two of `init`, all a full set of slots needs, and one lost to a retried
  `init` or a failed kernel; only that bound limits how often the client may try again.
- `args`: two kernels show what one does to the other, two launches what one leaves to the
  next, an arity above one the order. The counts are below zero, zero and above; a `cl_uint` is
taken modulo 8.
- `work`: the three widths keep the order and the gaps of 32, 32 or 64, and 64. The sides
  lie on both sides of every power of two an `int` is rounded up to, at its ends and beyond
  them; some launches reach a limit exactly and some pass it, sides of zero and of
  `2^address_bits` among them, and some products wrap to a negative, zero, small or large
  number. Limits of a dimension are powers of two (see *Where the properties stop* below).
- `transfers`: two pending commands are one behind another, two regions one in use and one
  free, two cells a transfer at an offset.
- `info`: the machines have platforms before and after each other, several devices, a platform
  without any, one without a GPU, and no platform at all. Of the three codes, two mix into a
  third that is itself the name of another error.
- `load`: three saves put one before and one after each step of the loading; the lengths make
  a text grow, shrink and vanish.

No state constraint is used; deadlock is checked in every run, and the last disjunct of each
`Next` is the process or the call having ended.

Fairness. `HashSearch`: weak fairness of the host's statements, of the device taking and
finishing commands, and of each work item. The host is one thread that runs unless it is
blocked; a blocking read flushes the queue, so that the device starts what is queued; an item
waits for no other item (the kernel has no barrier), so the device completes a launch whatever
the order in which it runs the items. Faults are never owed. `WorkParams`: `work_sizes`
computes once it is called; the client may never call it. The other modules state no liveness.

Properties, of the search:

- `ReportedWordCorrect`: the word printed is a word of the search space and hashes to the
  target.
- `NotFoundIsExhaustive`: when the loop runs out, no word hashes to the target.
- `NoOverwrite`: a letter in the word buffer is never overwritten, by an item or a later
  launch.
- `LaunchArgsFresh`: an enqueued launch carries the arguments of its own turn.
- `HostSeesFinishedLaunch`: from the test of `cpu_flag` on, the launch is complete, the
  device idle, the flag what the host read.
- `AbortHasCause`: the program throws only when the driver or a work size limit makes it.
- `ProgressHonest`: the percentage never overstates the launches done, nor passes 100.
- `Terminates`: the program ends.
- `RefinesWordSearch`: `HashSearch` implements `WordSearch` under the mapping that takes
  a word as excluded once the turn of its launch is over.
- `IInv`: the inductive invariant.

Of the context:

- `SlotsReleasedOnce`: kernels, programs and buffers are released at most once, though
  `check_error`, the destructor and the client may each release them.
- `OnlyOrphansSurvive`: after a clean-up that ends the context, only programs lost by
  `create_kernel` are live.
- `EveryObjectReleasedOnce`: until an exception is caught, nothing is released twice and a
  destroyed context leaves nothing.
- `UsableUntilCaught`: until an exception is caught, `initialized` implies a live context and
  queue; `UsableWhileInitialized` is the same without the condition, and is violated.
- `ReleasesOnlyCreated`: `_cleanup` releases only what some call created; violated.
- `LifecycleInv`: the inductive invariant.

Of the wrapper's other parts:

- `StackInv`, `StopHasCause`, `RefinesArgStack`: the argument stack agrees with the client's
  count; the wrapper's indices never make the driver refuse, and its wait lists only for a
  negative count; a launch runs on the arguments pushed since the one before, in order.
- `OverlooksOnlyEdges`: what the check accepts can run, but for three edges of the range it
  does not see. `RefusesOnlyBeyondLimits`: what it refuses is beyond a limit it names.
- `SizesAreAccepted`, `CoversPicture`, `ThrowsOnlyWhenThin`, `SizesReturn`: what `work_sizes`
  returns is accepted exactly when the range of the device holds the picture with its sides
  rounded up, has a work item for every pixel and no side that could be halved; it throws
  exactly for pictures that are empty, too large for an `int` or too thin; and it ends.
- `RegionsSettled`, `ZerosFilled`, `TransferInv`, `RefinesBufferStore`: memory the client may
  touch again is not in use; `zeros_float` leaves zeros; while the device has yet to read its
  vector, the vector is there and the host waits; transfers behave as if each took place at
  its call.
- `OnlyOwnFields`, `ListsEverything`, `CodeReportedWasReturned`: what is shown of a device or
  platform is its own; a listing that ends is complete; when the failures before a check
  agree, the code and name reported are theirs, but that a missing platform has no name.
- `SourceAsMeasured`, `NothingHeld`: what the compiler gets is the preamble and as many cells
  as the file had when it was measured, none older than that, however the file changed; file
  and memory are given back.

Every property of a passing run has a mutant in `PROJECT.json`: a slip in one definition of
the model, as a programmer would make it in the code, which TLC must find to violate it.

### Four disagreements

*`initialized` outlives the clean-up* (`lifecycle_stale`). `check_error` releases the queue and
the context and throws, but leaves `initialized` set. A client that catches the exception and
goes on is told by `was_initialized()` that it may use the context (`Context.hpp:177`). Its
next failing call cleans up again and releases the queue and the context a second
time, as the destructor does when the exception is caught further out; slots are immune
(`SlotsReleasedOnce`). `main` catches nothing and is not affected.

*Clean-up before the handles exist* (`lifecycle_wild`). The constructor leaves
`_clcommand_queue` and `_clcontext` indeterminate, so the null tests in `_cleanup` test
nothing when `init` fails in its queries, or when the context is only used for
`display_opencl_info`. `main` is affected on a machine without an OpenCL platform.

*The shift by 64* (`wide`). `check_work_parameters` computes `1LL << address_bits`; 64-bit
devices report 64, for which the shift is undefined. On x86 it gives 1, elsewhere 0, and every
larger launch, that of `main` included, is refused with a message that is false of it.

*`zeros_float` without blocking* (`zeros_async`). The vector it writes from is local and is
destroyed when the function returns, before the device reads it.

### Disagreements that a property states

Where the code does other than a reader of its comments would expect, and a run has the case,
the property says exactly how far it goes:

- A negative count of events (`Kernel.cpp:50` tests for one): the list is replaced by a null
  pointer, the count is kept, and the driver refuses the two together. `StopHasCause` says
  that no other wait list is refused.
- Sides the driver refuses and the check does not: a global size of zero, a single one of
  exactly `2^address_bits` (the comparison at `Kernel.cpp:112` is with `>`), and global sizes
  whose product wraps in the `long long` of line 89. `OverlooksOnlyEdges` says that these are
  all, and that for them too the local sizes are right.
- The range is compared with the product of the global sizes, as `UtilsOpenCL.hpp:31-34` reads
  it, where the driver limits each of them alone. So the check refuses launches of several
  dimensions that the driver would run; `RefusesOnlyBeyondLimits` is about the limits the
  check names.
- The picture that `UtilsOpenCL.hpp:31-34` assumes to fit is `w*h`; what must fit is the product
  of the sides rounded up. On 6 bits 9 by 5 is 45 pixels and is refused as 16 by 8;
  `SizesAreAccepted` has the exact boundary.
- A machine without a platform: -1001 is reported as "unknown error code", because the line of
  `CL_PLATFORM_NOT_FOUND_KHR` in the table (`UtilsOpenCL.cpp:168`) is commented out.
  `CodeReportedWasReturned` says that this is the only such code.
- A source file that changes while it is loaded: if it has grown since `ftell`, the text is cut
  at the old length, and cells of two saves may stand side by side; if it has shrunk, the
  loading fails. `SourceAsMeasured` gives the length and how old each cell can be.

### Where the properties stop

Cases that the models and runs leave out because the property does not hold there, or the code
promises nothing:

- A second `init` of the same context: it does not look whether it ran before and overwrites
  the queue and the context, which are then never released. The client of `ContextLifecycle`
  asks `was_initialized()` first; for one that does not, `OnlyOrphansSurvive` and
  `EveryObjectReleasedOnce` fail.
- An exception that is caught: the double release of the queue and the context that follows is
  outside `EveryObjectReleasedOnce`, which speaks of the time before; see `lifecycle_stale`.
- The offset of a transfer: the wrapper does not look at it, the driver does, and no property
  is about it.
- Local sizes whose product does not fit in a `long long`, on a device with limits that large:
  the product wraps and may pass the comparison, and `OverlooksOnlyEdges` fails.
- Limits of a dimension that are no powers of two: `work_sizes` takes the limit itself as a
  local size, which need not divide a global size that is a power of two, and
  `SizesAreAccepted` fails.
- Limits of two dimensions whose product does not fit in a `size_t`: the product of the local
  sizes wraps to something small, the loop ends too early and the check refuses the sizes, so
  that `SizesAreAccepted` fails.
- Pictures with a side above 2^30 and below 2^31: the power of two to round up to is no `int`;
  the sum overflows, which is undefined, and what wrapping gives does not cover the picture,
  so that `CoversPicture` fails. A side of 2^32 or more loses its high bits on the way to an
  `int`, and `ThrowsOnlyWhenThin` fails, or `CoversPicture`.
- Buffers that are not a whole number of floats: `zeros_float` writes all of the buffer from a
  vector that is shorter, and `ZerosFilled` and `TransferInv` fail.
- A local size of zero: the check divides by it before any test. Such launches are in the
  run and end as crashed.
- Failures with different codes: -33 and -30 are reported as -1, `CL_DEVICE_NOT_FOUND`.
- A platform without devices ends the whole listing, and `init` looks at the first platform
  only; `ListsEverything` speaks of listings that end.
- A `clGetKernelWorkGroupInfo` that fails: its code is not looked at. It fails only for a kernel
  or device the context does not have, and is taken to succeed.

## Proofs

The proofs are for every value of the constants that the named assumptions allow. Every safety
property that a passing run checks is proved, action properties and refinements included.

*Numbers* (`Recursion`). `NatSetInduction` is induction over the naturals for a *set*, proved
from the well-foundedness of strict inclusion on finite sets; `PrimitiveRecursion` and
`BoundedRecursion` give the existence of recursively defined functions, and `DivisionUnique`
what a quotient is.

*The word* (`HashSearchProofs`; `BASE` in {2, 4, 8, 16}, every word length, every split of the
letters into three non-empty groups whose sizes an `int` shift can hold, every `LONG_RANGE`).
`PowFacts`: the recursive function `Pow` exists. `HashSplit`: the hash an item computes in two
parts, `base_hash` once and the rest per combination, is the reference hash of its whole word.
`Coverage`: launches, items and combinations enumerate every word (each index is the number
whose digits in base `BASE` are the letters), and `EachWordOnce`: none twice (digits determine
the number).

*The search* (`HashSearchProofs`). `Init => IInv` and `IInv /\ [Next]_vars => IInv'`, one lemma
per action or group of actions, hence `Spec => []IInv` (`Invariance`), and from it the safety
properties. Why `IInv` is needed: `ReportedWordCorrect` looks at the last state only; what
makes it true is who wrote `target`. `PipelineInv` fixes what is in the queue and the state of
the event at each statement of `main`. `ItemInv` says that while the launch is this turn's and
not killed (`Active`), its arguments are this turn's, what an item passed over does not
match, what it claims does, and an item that is done with the flag still clear has tried
everything. `BufferInv` says that with the flag clear `target` is still blank and with it
set one item owns it: that item's word up to the letter it stands at, zeros after. `FlagInv`
and `ArgsInv` tie the flag, its copy and the argument stack to `main`'s position, and
`TriedInv` accumulates over the turns what `ItemInv` gives at the end of one. `LettersStay` is
the action property `NoOverwrite`, from `IInv` and the fact that only two actions write
`target`.

*The search implements `WordSearch`*. Three steps show in the abstract
specification: `CheckFlag` with the flag clear rules out the words of its turn, none of which
match by `TriedInv`; `LoopHead` at the end gives up, with all words ruled out by `Coverage`;
`PrintWord` reports a match by `ReportIsCorrect`. Every other step stutters or fails
(`OtherStepsRefine`). The same module proves `ProgressHonest`: with `q` for
`repeats_per_percent`, between the turns `(percent_done - 1) * q < i <= percent_done * q`, so
that a multiple of `q` is met exactly when the percentage is due, and `100 * q` exceeds the
number of launches.

*The context* (`ContextLifecycleProofs`). None of its properties is inductive: that a release
is the first one depends on who else holds the handle. `LifecycleInv` adds that a slot's flag
agrees with its objects (`SlotInv`), that no object has two owners (`OwnerInv`), that what is
live is in a slot, in one of the two core handles of a context that can still be cleaned up,
or lost (`LiveInv`), and what the two core handles are before `init` succeeds and until an
exception is caught (`CoreInv`). The proof goes through what `Cleanup` and `Release` do to
objects, then the steps that create, then those that release.

*The arguments* (`KernelArgsProofs`). `StackInv` with `StopHasCause` is inductive; a step of one
kernel leaves the stacks of the others alone (`OthersAgree`). That the corrected wait list is
one the driver takes is arithmetic: a count that is not negative stays itself modulo 2^32,
and a count above zero with no list has been set to zero before. Under the mapping `PushArg`
appends, `Execute` launches and empties, and every error is `Stop`.

*The work sizes* (`WorkParamsProofs`). `ClosestIsLeastPower`, for every width of `int` up to
the 32 that shifts by 1, 2, 4, 8 and 16 can smear: each shift doubles the length of the run of
ones below the highest bit of `x - 1` (`SmearFacts`), so that in the end all bits below it are
set and adding 1 gives the least power of two not below `x`. `CheckAgainstDriver` takes the
check apart, exit by exit, for the limits it names and for the driver's. The loop of
`work_sizes` is the subject of `WorkInv`: after some turns both local sizes are powers of two
and were halved equally often, or the longer once more, unless the shorter is gone, which
happens only when the longer one began more than `2 * max_local` times as long (`Halving`,
`HalvingStep`, `HalvingEnd`). So the loop ends with powers of two that divide the global sizes,
or with a zero exactly for the pictures `Thin` describes. The theorems have hypotheses, defined
at the end of `WorkParams`; `MCWorkParams` has TLC evaluate that the instance of `work`
satisfies them. `DevicesFit`: the limits of the first two dimensions are powers of two, as
devices have them, and their product fits in a `size_t`. `LaunchesFit`: the product of a
client's own local sizes fits in a `long long`; that of the global ones may wrap.
`PicturesFit`: no side is between 2^30 and 2^31, or 2^32 or more. `RangesFit`: `address_bits`
is at most 62; only the theorems that nothing is refused wrongly need it, and `wide` shows what
happens otherwise. What each of the others excludes is under *Where the properties stop*.

*The transfers* (`TransfersProofs`). `RegionsSettled` is inductive once the shape of the queue
is known. The others assume `UsedWell`: callers let `zeros_float` block, and buffers are whole
numbers of floats; both are needed, as above. `VectorOutlivesItsWrite`: a pending write of a
vector is the last command, the host is waiting for it, and the vector is as long as the
buffer; `ZerosAreFilled` and the refinement rest on it. `TransfersTakePlaceAtOnce`: the
mapping takes as the abstract memory what is there when every pending command has been
executed on what host memory holds now. A step of the device then changes nothing, because it
executes the first of them; a call changes what its own command does, because the command
is appended to the end; and a store of the client touches no region that a pending command
still uses.

*Information* (`DeviceInfoProofs`). `InfoInv` says of each field already asked for whose answer
it holds, that the codes joined so far come from failures of this group, and that the devices
listed so far are those of the current platform in order. `CodeReportedWasReturned` rests on
what `|=` does to codes that agree: the bits of a code joined with itself, or with
`CL_SUCCESS`, are those of the code (the lemmas on `BitOr`). The machines are arbitrary,
without a platform included; once there is one, queries fail with codes of `cl.h`.

*Loading* (`LoadFileProofs`). `LoadInv` adds to the two properties which cells `fread` has
filled at each position, and that every cell of the file, and so every cell read, is in the
place its save put it and, once the file is measured, from no earlier save than the cell that
was there (`Since`).

Only model-checked: liveness (`Terminates`, `SizesReturn`), which is out of the
prover's reach, and the four violations.

## Not modelled

- The vendored OpenCL headers (`libs/include`, nearly three quarters of the lines of C and C++
  in the repository) and the makefile: declarations and constants that do nothing at run
  time. Of them only the error codes appear, in `DeviceInfo`.
- The texts: formatting of the output, names of device types, the terminators of the texts
  queries return, the words of the error messages.
- Events: every launch and transfer returns one, and the wrapper leaves their release to its
  client, which `main` does not do.
- The wait lists of transfers: with one in-order queue they add no order. The one that
  matters, of the read of the flag, is in `HashSearch` because of a launch that failed; the
  rule on lists and counts is in `KernelArgs`.
- `load_file` on what cannot be positioned (`ftell` gives -1) and an allocation that fails.
- The timing of the watchdog: a kill may come at any step or never. The device memory is
  sequentially consistent per location; the kernel relies on no more, because the only
  value read by another item is the one under the atomic exchange.

## Plan

1. The bound on the turns of the loop of `work_sizes`, the safety half of `SizesReturn`.
2. A client of several contexts at once, which the wrapper allows and nobody uses.
