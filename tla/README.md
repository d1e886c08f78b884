# Verification of sar-dsl

sar-dsl compiles SAR imaging kernels written in Python to CPU libraries and to
HLS C++ for FPGAs. A traced kernel becomes a module of the `sar` MLIR dialect,
the passes of `lib/` lower it, and on the CPU path the generated code calls a
small runtime library. This directory holds TLA+ models of the runtime, of the
artifact cache, of the compilation of one HLS entry and of most of the compiler
between the dialect and the emitted C++, the TLC runs that check them, and TLAPS
proofs about seven of them: the runtime's thread pool, plane pool, line plan
cache and error channel, the artifact cache, the HLS compilation of an entry, and
the dataflow passes with the execution of the schedule they leave.
`PROJECT.json` maps every definition to the lines it models and lists hazards,
runs, mutants, findings and theorems.

- [Inventory](#inventory)
- [How the parts interact](#how-the-parts-interact)
- [Modules](#modules): what models what
- [Runs](#runs): questions, bounds, fairness
- [Proofs](#proofs)
- [Findings](#findings)
- [What is not modelled](#what-is-not-modelled)
- [Plan](#plan)

## Inventory

| Component | State | Operations | What makes it hard | Correct when |
|---|---|---|---|---|
| Thread pool (`runtime/SARRuntime.cpp` 311-414) | published function, extent, generation, completed count, `runMutex`, `mutex`, two condition variables | `run`, `chunk`, `workerLoop`, constructor, destructor | lost and spurious wake-ups, several callers, pool threads without a chunk | a loop returns when each index was executed exactly once and no pool thread still uses its function; every loop ends |
| Plane pool (46-190) | `blocks`, `cache`, `liveBytes`, `cachedBytes`, `peakLiveBytes`, `limit` | `allocate`, `release`, eviction inside `allocate` | three records of one fact; a bound that moves with the peak; libc reuses addresses | no block has two owners; reuse fits; retention is bounded |
| Line plan cache (562-632) | `plans`, `order`, `limit` | `get`, `clear`, `size` | the plan is built between two critical sections | list and map agree; bounded; least recently used evicted; right length |
| FFT and Bluestein plans (420-560) | twiddles, bit reversal, chirp | construction, `run` | index arithmetic per stage, a circular convolution | equals the DFT for every length |
| Interpolation (690-860) | none | boundary rules, kernels, windows | boundary arithmetic | every tap is a sample of the line, with its weight |
| Error channel and entry points (862-1103, `python/sar/runtime`) | a note per thread | the checks of every entry point; clear, call, raise | the note sticks and is per thread; address arithmetic on strides of either sign | an error is raised by the launch that caused it; no address overflows |
| Artifact cache (`python/sar/compiler/cache.py`) | per key a directory of artifacts, `.lock`, `.accessed`; a throttle per process | construction, stages, `_prune_lru`, `clear_cache` | processes that share a file system and may be killed; `flock` is on inodes, names are not | a locked entry stays; compilations do not disturb each other; bounded |
| Compilation driver (`compiler/__init__.py`, `toolchain.py`, `backends/cpu`) | the stages of one compilation, the export directory | `compile`, `cached_stage`, `dump_pipeline` | partial failure of an export | an artifact is whole or absent |
| HLS compilation of an entry (`backends/hls/compiler.py`, `retry.py`, parts of `config.py` and `autotune.py`) | the configuration with its derived and pinned keys, affine IR, facts, plan, decisions, C++ in the entry | lower, plan, schedule, four rungs of retries, commit, replay | interrupted between writes; a later run reports from files written at different times; several processes share the entry | the kept design fits, has the user's pins, and is the one that is reported |
| HLS strategy, budgets, devices (`autotune.py`, `config.py` 745-824, `devices.py`) | none | decision functions | arithmetic on limits | within the budget |
| Backend registry (`backends/__init__.py`) | registry, failures | discovery, registration, lookup | rollback under a lock | a failed discovery leaves no half-registered backend |
| Language front end (`language`, `ir`) | specialisations, compiled kernels, the module under construction | tracing, specialisation, memo | rebinding of traced values | the memo returns the specialisation of the signature |
| SAR dialect (`lib/Dialect/SAR/IR`) | the IR | verifiers, folds, canonicalization patterns | patterns apply in any order | every rewrite verifies and keeps the meaning |
| Decomplexify, precision (`lib/Dialect/SAR/Transforms`) | the IR; a worklist | operation by operation; backwards from the sampling operations | pairs of planes; the order of a worklist | the meaning is kept; exactly the positions are exempt |
| SAR buffer passes (same directory) | buffers and loops | distinct results, out params, private ports, loop carries, reuse, transposes | lifetime and aliasing of buffers | the caller finds the same arrays |
| HLS dataflow passes (`lib/Dialect/HLS/Transforms`, `IR/HLS.cpp`, `IR/Utils.cpp`) | the schedule: nodes in order with operands and levels, the legal mark | five rewriting passes and the token streams | each pattern moves or renames nodes; their end result runs concurrently | the passes keep the meaning; a legal schedule gives it in every interleaving and cannot hang |
| HLS memory and loop passes (same directory) | buffers and loops | store forwarding, fusion, copies; widening, partitioning, tiling, AXI | dependence distances, effects in between | meaning kept |
| Lowering of transforms (`SARFFTToAffine`) | planes, on-chip blocks, scratch lines | Stockham stages over blocks of lines, Bluestein | blocking, banking and grouping of stages | the runtime's result |
| Lowering of resampling (`SARInterpToAffine`, `lib/Analysis/DisplacementRange.cpp`) | a band of columns or rows | direct, sliding, whole row, band of rows | a band cut from an interval analysis, slots by a mask | the runtime's samples |
| Lowering to linalg and to calls (`SARToLinalg`, `SARSignalToRuntime`) | the IR | operation by operation | merge networks, clamped windows, lists of names kept three times | the loops give what the operations mean |
| Task formation, placement, emission, tools | the IR | moving, naming and printing | none that a value depends on | see [What is not modelled](#what-is-not-modelled) |

## How the parts interact

- The front end traces a kernel and asks the driver to compile it. The driver
  opens a `KernelCache` (which takes the shared `flock` of the entry) and runs
  the stages of a backend inside it. Every artifact goes through
  `KernelCache.write_text` or `publish`.
- A process that opened the cache may evict *other* entries (`_prune_lru`), and
  `clear_cache()` of any process removes unlocked entries. Both meet a
  compilation only through `.lock`.
- The HLS backend adds to the entry the files of its ladder. The shared lock
  lets two compilations of one kernel overlap, so that these files are shared
  state without mutual exclusion.
- `sar-opt` runs the pass pipelines; the dataflow passes hand a schedule from
  one to the next inside one process, and the emission turns a legal schedule
  into a region whose nodes run as concurrent hardware processes.
- Both paths share the dialect and its canonicalizer. The host path keeps complex
  values and calls the runtime for transforms and resampling; the HLS path splits
  them into planes and gets loop nests instead. The two forms of one operation
  have to agree, which `FFT` and `Resample` check by having both.
- The buffer and loop passes of the two pipelines share code (`ReuseBuffers`,
  `LowerCopy`), and each pass relies on what earlier ones established: the port
  rule of `PrivatizeOutParams` has to survive four later passes.
- A compiled CPU kernel calls the runtime: `parallelFor` (thread pool), the
  allocation hooks (plane pool) and the transforms (line plan cache), from any
  number of application threads. The three share no lock and no state with each
  other; each is modelled on its own. A transform uses a plan inside a parallel
  loop, which the plan's shared ownership makes safe: `LinePlanCache` models
  the use as a step between `get` and the end of the transform.

## Modules

Each component has a specification module, an `MC...` module with the constants
of its runs, and, where something is proved, a `...Proofs` module. Machines that
share no state but are parts of one system have one run: `MCKernels` (transforms,
resampling, launches), `MCCompiler` (lowering, buffer passes, schedules) and
`MCKernelCache` (three scenarios of one module) choose one in the initial state,
and each property says which it is about. `MCKernels` extends `Calls`, and
`MCCompiler` extends `Dataflow`: they use its variables and properties as they
stand and add the other two machines (`MCInit`, `MCNext`). `MCPrograms` holds the
dialect's programs and the functions of loops that `MCCompiler` compiles. A definition
commented "Mutated form" or "Mutant" is a plausible bug that stands before the
definition it would replace; no specification uses it.

### ThreadPool, ForkJoin (`RuntimeThreadPool`)

`ForkJoin` is what a caller relies on, with no pool, lock or generation: a call
of more than one index waits for its turn, hands parts of what nobody has
executed to its function, and returns when nothing is left; a call of one index
needs no turn. The refinement maps the number of executions of each index as it
is (`ran`), and "running" only from the publication to the return: an index
executed again, outside of the loop, before the publication or after the return
is a step `ForkJoin` does not have, and so is a publication while another
caller's loop runs. It states safety only; that loops end is `NoLostWakeup`.
`ThreadPool` is the code. Application threads
(`Callers`) and the pool's threads (`1..PoolSize`) have program counters; every
critical section of `mutex` is one action. A condition-variable wait tests its
predicate and blocks in one action, as `wait(lock, predicate)` does under the
mutex; from `asleep` a notification or `SpuriousWake` leads back to the test.
`Publish` is 340-346 (with the reset of `completed`), `NotifyReady` the
`notify_all` that follows outside the lock, `CallerChunk` chunk 0, `AwaitDone`
the wait for all pool threads. `WorkerTake` copies task, extent and active
count under the lock, `WorkerChunk` and `WorkerReport` follow. `BeginStop`,
`NotifyStop` and `Join` are the destructor. `ran` is a history: how often each
index of a caller's last loop was executed. `total` stays when the call ends,
which is how `NoRunAfterReturn` can tell one call from the next.

### PlanePool, Allocator (`PlanePool`)

`Allocator` says what a kernel may assume of malloc and free. `PlanePool` has
`heap` (what libc has given at each address), `held` (which request each address
answers, for the kernels) and the fields of the class. A call that takes the
mutex is one action, with one exception: a request that the cache cannot answer
(`Miss`) evicts one block per step (`EvictBack`) before `AllocateNew`, so that
requests outside the pool, which never take the mutex, come in between and libc
may hand out an address that was just evicted. `ReleaseBlock` marks, counts and
retains or frees; the abort on a second release is `aborted`. `Accounting` says
what the two byte counts are: sums of the sizes of the blocks in use (`InUse`)
and of those that are kept (`Kept`).

### LinePlanCache (`LinePlanCache`)

`Find` and `Insert` are the two critical sections of `get`, `Build` the
construction between them, `Drop` the end of the transform that holds the
shared pointer, `Clear` the exported `clear`. A plan is its length and the
number of the build that made it, so that two plans of one length differ.
`recency` is a history of uses, against which the eviction order is judged.

### KernelCache (`cache.py`, with the driver's and the CPU backend's stages)

One action is one file-system call, or a few that touch the same name. An entry
is a directory with an identity; its `.lock` is an inode, and a process holds
descriptors on inodes, not on names: between `Open` and `FlockShared` the name
may be unlinked and created again, which `Validate` (the `samestat` check) has
to notice. `Start` to `Validate` is the constructor with its three attempts,
`Lookup` to `Launch` a compilation with scratch files and renames, `StartPrune`,
`Scan` and `Evict` the LRU pass, `ROpen` to `RRmdir` the removal of one entry,
name by name as `shutil.rmtree` does it, shared by `_prune_lru` and
`clear_cache`. `Crash` ends a process between any two calls: its locks go, its
files stay. Ages are two classes, inside and outside the grace window. The key
(a digest) is a name; two kernels of one key are not distinguished. `calls`
counts the bounded events and remembers three sets: the processes that called,
the keys that were compiled, and the keys whose entry was locked for removal.

`MCKernelCache` has three scenarios: in `share` two processes compile one kernel
and one may crash, in `prune` a process that may crash compiles into a full
cache, in `clear` two processes compile while a third clears.

### HLSRetry (`backends/hls/compiler.py`)

`Procs` share one cache entry. One action per write or removal of a file, per
run of a tool and per rung; `Interrupt` comes between any two. `LowerKernel` to
`PlanPlacement` is the lower stage and the planning, `Schedule` the run of the
scheduler, `HalveBanks`, `StreamPlanes`, `NarrowTransfer` and `DropLanes` the
four rungs in their order, `GiveUp` the error after the last one. `Commit` to
`PutResult` replaces IR, facts and plan after a retry and writes the results;
`CheckCached` and `Replay` are the warm path. A file is what it describes: IR is
the parameters it was lowered with, facts are the IR they were measured on. The
tools are deterministic: `Verdicts` is the answer of the scheduler for each
device and design, a constant the properties hold for any value of. `derived`
says which keys are not pinned; `share`, `initial` and `device` are fixed per
kernel, options and target.

### Dataflow (six passes of `lib/Dialect/HLS/Transforms`)

A schedule is a sequence of nodes; a node is the sequence of its statements and
a level. Its operands follow from the statements as `LowerTaskToNode` derives
them. Of a statement the model keeps what it reads, what it writes and how: all
of the buffer (`fill`), all of it after reading the old contents (`update`), or
a part of it unread (`part`). A buffer is `<<name, k>>`: 0 for a buffer of the
program, larger for one that a pass created with its type, hence in the same
memory. Contents are symbolic terms.

| Pass | Actions |
|---|---|
| `--hls-eliminate-multi-producer` | `BufferMultiProducer`, `MergeMultiProducer` |
| `--hls-eliminate-multi-consumer` | `InsertForkNode`, `ForkWideArgFanOut` |
| `--hls-schedule-dataflow-node` | `ALAPScheduleNode` |
| `--hls-balance-dataflow-node` | `InsertCopyNode`, in the pipeline or not |
| `--hls-legalize-dataflow` | `FuseMultiConsumer`, `FuseBypassPath`, `Mark` |
| `--hls-create-token-stream` | `CreateTokenStream` |

The greedy driver applies a pattern until none matches: each `End...` action has
that as its guard. Then the schedule runs (`Run`): as calls in program order, or,
when it is legal, as processes that wait for the producers of their on-chip
inputs and for their tokens. `FuseBypassPath` gives the fused node any level of
the schedule: the code reads the level from a node that fusing has erased
(`LegalizeDataflow.cpp` 190).

### Field

The numbers of the kernels: the code's formulas in the field of 3359 elements
extended by `i`. There every equation between them is exact, the unit circle is
the group of norm 1, and 3360 = 2^5 * 3 * 5 * 7 points are on it, so that roots
of unity exist for the lengths of the runs. Rounding is what this leaves out.

### FFT (`SARRuntime.cpp` 420-632, `SARFFTToAffine.cpp`)

`FFTPlanRun`, `BluesteinForward` and `RuntimeLine` are the runtime's transform of
a line. The loop nests of the HLS path are a machine, one action per nest:
`Prefetch` loads a block of lines (a corner turn along dim 0, in `Io` lanes),
`Butterfly` is one Stockham stage of the lanes in the engine, radix 4 with a first
stage of radix 2 where the length needs it (`RadixSchedule`), `WriteBack` stores the block and goes on. Bluestein
is `PreMultiply`, `ForwardStage`, `Product`, `InverseStage` and `PostMultiply`;
`Target` and `Source` say which scratch line a stage reads and writes when
`stageGroup` makes stages share them (`ScratchSlots`).

### Displacement, Resample (`DisplacementRange.cpp`, `SARInterpToAffine.cpp`, `SARRuntime.cpp` 690-860)

`Displacement` has a positions expression twice: element by element (`Plane`,
`Scalarize`) and as the interval the compiler derives for positions minus
coordinate (`Analyze`, with ramps, constant folding, `AnalyzeSqrt`, the rounding
of f32). `Resample` has the runtime's `SampleInterp`, the full-plane gather, and
the nests of the HLS path: `DirectColumn`; `PrimeRow` and `SlideColumn` for the
band of columns, which is also the whole row when that fits; `PrimeRows`,
`PushRow` and `GatherColumn` for the band of rows of a `gather2d`;
`FullPlaneColumn`. `Interp1DPlan` and `Gather2DPlan` choose between them. The
number pi is a constant: no equation depends on its value.

### Calls (`SARDialect.cpp`, `SARSignalToRuntime.cpp`, `SARRuntime.cpp` 862-1103, `runtime/__init__.py`)

A module is verified, lowered to calls and launched. `Checks` is the list of
checks of an entry point in their order, `error` the thread-local note, which
makes later calls of the thread do nothing. `Launch` clears it, `EntryPoint` is
one call of the kernel, `Return` raises. `ForeignCall` is a call that a thread
makes by itself before it launches.

### Precision (`VerifyPrecision.cpp`)

The worklist of `findPositionValues`, one value per step, then the check.

### Tensor, Expressions, Lowering (`SARDialect.cpp`, `Decomplexify.cpp`, `SARToLinalg.cpp`)

A program is an expression of SAR operations. `Tensor` says which operations the
verifiers admit and what an admitted one means, in terms of the numpy operation
that the front end traces; `Expressions` goes through a whole program. (The two
are apart so that `Calls`, which needs the verifiers of single operations, reaches
no recursive operator and can be proved about.) `Lowering` rewrites: `Canonicalize` applies any fold
or pattern at any place, `Decomplexify` splits complex values into planes on the
HLS path, `ConvertSARToLinalg` runs the loops, written element by element with
every index they read (`Loops`, the merge network of `SortStages`, the running
windows of `LoopRankFilter`, the clamped windows of the dynamic slices).

### LoopIR, BufferPasses, LoopPasses, BufferPipeline

`LoopIR` is a function of loop nests over buffers as bufferization leaves it, its
meaning (`Run`, storage and all) and the rewriting of bodies. `BufferPasses` and
`LoopPasses` are the passes, each a function from such a function to another, and
`BufferPipeline` runs them in the order of `Pipelines.cpp`.

| Pass | Definition |
|---|---|
| distinct results, results as parameters | `DistinctReturnBuffers`, `BufferResultsToOutParams` |
| `PrivatizeOutParams` | `PrivatizeReadPorts`, `PrivatizeOutParams` |
| `DemoteLoopCarries` | `DemoteAll`, `DemoteLoopCarriesFails` |
| `LowerCopy`, `LowerCopyToAffine` | the same |
| `ReuseBuffers` | `Candidates`, `Slots`, `Materialize` |
| `StageTransposes` | `MatchTranspose`, `StageTranspose` |
| `AffineStoreForward` | `ForwardStoreToLoad`, `LoadCSE`, `FindUnusedStore`, with `HasNoInterveningEffect` |
| `FuseSiblingLoops` | `Fusable`, `FusePair` |
| `RaiseAffineToCopy`, `SimplifyCopy` | `IsCopyNest`; `Interchangeable`, `Replaced` |

## Runs

Every passing run is complete (no state is left), and its properties each have
a mutant that TLC refutes.

| Run | Question | Bounds |
|---|---|---|
| `pool` | Do loops return exactly when done, and do they all end? | 2 callers, 2 pool threads, loops of up to 4, 3 published loops |
| `plane_pool` | Can kernels tell the pool from malloc, and is retention bounded? | 4 addresses, sizes 1, 2, 3, 7 with 2 the threshold, 2 alignments, limit 6 or none, pool on or off |
| `line_plans` | Does the cache survive builds outside its lock? | 3 threads, 3 lengths, limit 0, 1 or 2, 4 builds |
| `cache` | Do compilations of one kernel disturb each other? Does the LRU pass bound the cache? Is a compilation's lock the one its entry has, when a remover is about? | room for 1 file, 1 text stage and the library; share: 2 compilers, 1 key, lookups on or off, 3 compilations, 1 crash; prune: 1 compiler, 2 keys, 2 compilations, 1 crash, 1 ageing; clear: 2 compilers and 1 remover, 1 key, 2 compilations, 2 clears |
| `hls_retry` | Is the kept design right, and reported? | 2 compilations of one entry, one after the other or overlapping, 1 interrupt, 6 devices, 5 sets of pins |
| `kernels` | Do both paths give the same transforms and samples? Do errors reach their launch? | transforms of 1-D lengths 2 to 8, 10, 16, 32 and of planes of {2, 3, 4, 6, 8}² and 2 x 12, both dims and directions, 8 sets of options; resampling of rows of 2 x 8 and 1 x 5 and gathers from 8 x 3 and 6 x 2, 20 position expressions, 7 kernels with their windows, 3 boundaries, 4 sets of options; launches of 1 thread over good and malformed calls and of 2 threads, with foreign calls |
| `compiler` | Do canonicalization, splitting, loops, the buffer passes and the dataflow passes keep the meaning, and does the region give it? | every operation once and twice on small planes, with NaN, infinities and constants, and special programs, on both paths; functions of up to four nests, options of both pipelines; every schedule of 3 one-statement nodes over an input, a result and 2 buffers, 6 larger shapes, 4 placements, of which the one without DRAM has the result written by one node, and the one with `b` alone has it written by several |
| `gather_edge`, `displacement_where`, `precision`, `fuse_siblings`, `copy_into_port` | the findings | see [Findings](#findings) |

The properties of each run:

| Run | Properties |
|---|---|
| `pool` | `TypeOK`, `NoRunAfterReturn`, `ReturnMeansDone`, `ImplementsForkJoin`, `NoLostWakeup` (every loop ends, the destructor returns) |
| `plane_pool` | `Ownership`, `GoodFit`, `Bookkeeping` (the three records and the retention bound), `ImplementsAllocator` |
| `line_plans` | `Coherent`, `RightPlan`, `LeastRecentEvicted`, `OneCopy` |
| `cache` | `TypeOK` (with the exclusion of `flock`), `LockCurrent`, `SharersSucceed`, `PruneBounds`, `SharersEnd` |
| `hls_retry` | `TypeOK`, `KeptSound` (it fits, has the pins, and its decisions are written), `GivesUpAtBottom`, `ReportsShipped`, `TraceExplains`, `Ends` |
| `kernels` | `BackendsAgree`, `StagesAreAChain`, `DisplacementSound`, `SamplesAgree`, `RaisesOwnFirstError`, `VerifiedOpsAccepted`, `AddressesFit` |
| `compiler` | `StaysVerified`, `RewritesKeepMeaning`, `LoopsAgree`, `PassesKeepMeaning`, `PortsWrittenOnce`, `MeaningKept`, `LegalIsSimple`, `RunsAsWritten`, `SchedulesEnd` |

Why the bounds are enough for the cases that matter:

- `pool`: 2 callers contend for `runMutex`; with 2 pool threads a loop of 2 has
  an inactive one, a loop of 3 one index each, and a loop of 4 the rounding of
  the chunk length, with an empty chunk; 3 loops put one before and one after
  any loop. `TypeCorrect` and the other theorems hold without these bounds.
- `plane_pool`: sizes below, at and above the threshold; the pool can hold
  several blocks, be full, evict more than one for a request, and have its
  limit exceeded by live blocks alone. 4 addresses leave one to be reused by
  libc while three are tracked.
- `line_plans`: three threads can build one length twice while the third evicts
  or clears; limit 1 evicts at every insertion.
- `cache`: in `share` both compilers reach every stage while the other one is in
  any other or dead. One finished entry has two files, one more than there is
  room for, so that a pass of the eviction finds a cache that does not fit. In
  `prune` it meets an entry of its own, one of another kernel, fresh or old, and
  one left half-removed by a crash. In `clear` the remover can take the entry at
  each attempt of a constructor. What is left out, two removers of one entry and
  more of everything, is what the theorems about `KernelCache` are for.
- `hls_retry`: the devices are chosen so that each rung decides on one of them,
  that none fits, and that only merging banks helps; each key is pinned once. An
  interrupt falls between any two writes of the first compilation and the second
  sees what is left. `ReportsShipped` and `TraceExplains` speak of undisturbed
  compilations only, and `GivesUpAtBottom` leaves overlapping ones out: the code
  does not promise more
  (the hazards of `compiler.py` 965 and 1168 tell how it fails).
- `kernels`, transforms: the lengths give one to three stages with and without
  the radix-2 one, and Bluestein paddings of 8, 16 and 32; block and lane
  options divide the extents, exceed them or have to be halved. Resampling: the
  expressions give intervals to the left, to the right, around zero, wider than
  the row, rounded in f32 and none; the options give every strategy for each, and
  the row is longer than a band and shorter than the kernel. A complete row with
  boundary `edge` and taps outside it is the finding `gather_edge` and left out.
  Launches: each check of an entry point fails for one call at least, alone and
  behind another failure; `IndexMax` of 31 has address sums that just fit and
  that do not. One of the two threads fails while the other is in its kernel.
- `compiler`, lowering: two operations are what a fold or a pattern looks at, and
  the special programs have the longer chains (a spectrum between shifts, loops
  with their index). Lengths 3 and 7 are not powers of two for the merge network.
  Buffers: three sweeps have two lifetimes that meet; three statements on one row
  have a store, a load and a write in between, whether over one map, shifted ones
  or constants; the loops carry one or two buffers, swapped, unchanged or taken
  from an input; tiles of the corner turn divide the plane or do not. Left out:
  a guarded store behind another one (see the findings) and the two shapes of
  `fuse_siblings` and `copy_into_port`. Schedules: three nodes give every pattern
  of two producers or consumers; the larger shapes give three producers, merged
  producers that are not adjacent, a bypass of more than one level, and nodes
  that read and sweep one buffer. A later producer that writes a part of an
  on-chip buffer is left out (`NothingLost`). `SchedulesLowered` has TLC check that
  every schedule of the run is one that `Lowered` admits too, so that the run is an
  instance of the theorems' hypotheses.

Deadlock is not checked: all models may stop where the program is idle, where
the bounds are used up or after an abort; that nothing hangs is stated as a
liveness property instead.

### Fairness

- `pool`: weak fairness of each caller inside `run`, each pool thread and the
  destructor once begun: the operating system runs every thread that can run.
  Nobody is obliged to call or to destroy, nor to wake up spuriously. A caller
  that waits for `runMutex` may wait for ever (the mutex is not fair), which is
  why `NoLostWakeup` starts at the publication.
- `cache`: in `share` weak fairness of each process's own next step, for the same
  reason; crashes are never obliged. The eviction uses a non-blocking lock, and
  `SharersEnd` depends on that.
- `hls_retry`: weak fairness of each compilation's own step; an interrupted one
  has no step.
- `compiler`: weak fairness of a schedule's steps: the pass driver goes on until
  no pattern applies, and some process that can run does.

Symmetry is not used in a run with a liveness property.

## Proofs

TLAPS proves the following for every value of the constants, from the named
assumptions of the modules only: shapes of the constants (counts are naturals,
markers differ from the values they mark, an artifact is not called `.lock` or
`.accessed`), and that processes, cache keys and addresses are finitely many.

| Module | Theorem | States |
|---|---|---|
| `ThreadPoolProofs` | `TypeCorrect` | `TypeOK` |
| | `NoUseAfterReturn` | `NoRunAfterReturn` |
| | `ExactlyOnce` | `ReturnMeansDone` |
| | `GenerationsSeen` | `NoMissedGeneration`: all pool threads are up to date when a loop is published |
| | `PoolImplementsForkJoin` | `ImplementsForkJoin` |
| `PlanePoolProofs` | `OneOwner` | `Ownership` |
| | `ReuseFits` | `GoodFit` |
| | `BooksBalance` | `Bookkeeping` |
| | `CountsNeverWrap` | the types: no byte count is subtracted below zero |
| | `PoolImplementsAllocator` | `ImplementsAllocator` |
| `LinePlanCacheProofs` | `Typed` | the shapes of the variables |
| | `ListMatchesMap` | `Coherent` |
| | `WithinLimit` | the count of plans never exceeds the limit |
| | `PlanFitsLine` | `RightPlan` |
| | `KeepsMostRecent` | `LeastRecentEvicted` |
| | `SharesOneCopy` | `OneCopy` |
| `HLSRetryProofs` | `Typed` | `TypeOK` |
| | `KeepsSound` | `KeptSound`, of the three that follow |
| | `KeepsOnlyFitting` | a design that is kept fits its device |
| | `PinsStand` | a kept design has the values the user pinned |
| | `DecisionsFirst` | C++ in the entry has its decisions beside it |
| | `GivesUpLast` | `GivesUpAtBottom` |
| | `ReportsWhatShips` | `ReportsShipped` |
| | `TraceLeadsThere` | `TraceExplains` |
| `KernelCacheProofs` | `Types` | `TypeOK` |
| | `Sharing` | `SharersSucceed` |
| | `Revalidated` | `LockCurrent`, as long as no processes race to remove an entry |
| | `PassesBound` | `PruneBounds` |
| `CallsProofs` | `LaunchesRaiseTheirOwn` | `RaisesOwnFirstError` |
| | `VerifiedIsAccepted` | `VerifiedOpsAccepted` |
| | `AddressesAreIndices` | `AddressesFit` |
| `DataflowProofs` | `PassesKeepInv` | `PassInv`, what every pass leaves of a schedule |
| | `LegalSchedulesAreSimple` | `LegalIsSimple` |
| | `SchedulesAreDeterminate` | `Determinate`: in every interleaving the buffers end as in program order |
| | `SchedulesMeanTheProgram` | `MeaningKept` |
| | `SchedulesRunAsWritten` | `RunsAsWritten` |

The arguments:

- **Thread pool.** `NoRunAfterReturn` is not inductive: it needs that the
  published fields belong to the caller inside `run` (`RunInv`), that
  `completed` is the number of pool threads that reported this generation
  (also `RunInv`; this is where waiting for the inactive threads pays), that a
  thread with a chunk works for that caller (`WorkInv`), that `runMutex` has
  one holder (`LockInv`), and that between runs all threads have caught up
  (`QuietInv`). `ReturnMeansDone` needs in addition what has been executed in
  the middle of a loop: exactly the chunks of the participants that are done
  (`RanInv`), and the lemmas that the chunks of `ChunkSize` are disjoint and
  cover the loop. For `ForkJoin`, `RanInv` after a chunk says that none of it
  had been executed before, which makes the chunk a `Work` step; `LockInv` says
  that nobody else runs when a loop is published, a `Start` step.
- **Plane pool.** `Ledger` relates the four records of an address: what libc
  gave, what a kernel holds, its block and its place in the list. The byte
  counts rest on it (`Books`) and on one more link, that every block marked as
  kept is in the list (`Listed`): the eviction loop ends at an empty list, and
  only then is it certain that no byte is kept. What a changed block does to the
  two sums is a lemma of `Sums` (below).
- **Sums.** `SumFunction` and the folds of the community modules are a recursion
  over the subsets of the domain. `Sums` proves that the recursion has a solution,
  that any element of a sum may be taken first, and that changing one weight
  changes the sum by as much. The induction is over the number of elements, and rests on the least
  element of a set of naturals, which follows from the library's theorem that `<`
  is well founded; so no theorem with an operator as a parameter is needed. The
  plane pool, the artifact cache and the dataflow passes use it.
- **Line plan cache.** The list is a prefix of the history of uses, in which no
  length occurs twice (`Front`); that gives `Coherent`, the bound and the
  eviction order. Lemmas state what a splice, a push and a truncation do to it.
- **HLS retry.** `Session` follows a design from the lowering to the file: the
  IR a process holds, the values its ladder tries and the design that was
  accepted all have the user's pins; `Entry` says the same of the files. The
  proof needs no assumption on the tools beyond the three verdicts.
- **HLS retry, outcome.** `GivesUpAtBottom` needs that the values a process tries
  and the IR it holds belong together at every point, although a file may be one
  rung behind: IR that differs from the tried values is always followed by the
  step that lowers it again, in the compilation or, after an interrupt, in the
  next one that reads the entry (`Ladder`). Reports need more: of a compilation
  that nobody overlapped or interrupted, IR, plan, C++, decisions and
  configuration describe each other (`Straight`), which `PutAffine` to `PutResult`
  give up and restore one file at a time. That the recorded steps lead from the
  planned values to the design is a lemma about sequences (`LastAppended`,
  `ExplainsRetried`), used once per rung.
- **Artifact cache.** The base is what a process has at each point of its program
  (`Phases`: descriptor, lock, victim, artifact) and the exclusion of `flock` on
  inodes (`Flocked`). Then come three properties of different strength.
  `Sharing`: as long as nobody was given the exclusive lock of the entry, nothing
  in it that a compilation relies on goes (`Kept`: directory, inode of `.lock`,
  scratch file, published stages), and with one kernel the eviction meets the
  shared lock of its own process. `Revalidated`: `LockCurrent` holds under the
  hypothesis that, while one process removes an entry, no other one has the
  entry's `.lock` open to remove it, except the eviction of a compilation of that
  very entry (`NoRemovalRace`). One remover satisfies it, and so do any number
  that take different entries. Without it the property is false: the second
  remover locks the inode that the first has unlinked, and then removes the entry
  that a compiler has created and locked since. `PassesBound`: when only one
  process has called, what a pass has in its list, what it has removed and what
  it counts add up (`Passes`), also where an earlier pass was killed half-way:
  each entry that it has looked at is in the list, is being removed or is locked
  by the process itself, and `total` is the sum of what is left.
- **Calls.** A launch clears the note of its thread, each failing check writes it
  once, and the note of another thread is another variable: the note is the first
  failure of the kernel's calls so far (`IInv`). `VerifiedIsAccepted` goes through
  the checks of an entry point and derives each from what the verifier of the
  operation and the lowering to a call with contiguous memrefs give.
  `AddressesAreIndices` shows that the checks on extents, offsets and strides put
  every address between two sums that fit, for strides of either sign and for any
  `IndexMax`.
- **Dataflow, passes.** The hypothesis is `AllLowered`: each program is a sequence
  of nodes without levels in which an argument is read or written but not both, and
  any other buffer a node takes in was written by a node before it. That is what
  `LowerTaskToNode` and `PrivatizeOutParams` leave. The legal mark looks at levels
  and at shared external buffers only, so that `LegalIsSimple` rests on what the
  passes before did (`PassInv`): while buffers are renamed, nodes split and copies
  inserted, inputs stay written before they are read (`Defined`); a node gets a
  level only when its on-chip outputs have one producer and one consumer, and no
  later step takes that away (`Channels`); levels fall along every dependence
  (`Downhill`), in a balanced schedule by one along a channel (`NextDown`). Each
  pass folds one rewrite over a set of buffers; the lemmas state what the rewrite
  does to the producers and consumers of every buffer (`PrivatizeIs`, `ForkIs`,
  `FuseIs`, `BalancedIs`) and `Sums` carries an invariant through the fold. Fusing
  a group of one level or a bypass keeps the rest (`FuseGroupsKeep`); that a
  balanced schedule has no bypass is `NoBypass`.
- **Dataflow, execution.** `Sequential` follows the memory through the nodes in
  program order. Along an interleaved execution every buffer that a node writes
  holds what it held in program order after as many statements of that node
  (`Holds`): a node's step reads its own outputs, and inputs whose only writer has
  ended, because it waits for the channel or, in DRAM, for a token
  (`ReadersWait`, which uses that a legal schedule has one writer per buffer).
  When all have ended, `Holds` is the memory in program order (`HoldsEnd`). The
  calls of any other schedule are the same sequence (`After`).
- **Dataflow, meaning.** Each rewrite is compared with the schedule it starts from
  by following both memories in program order, node by node: a node moved to a
  private buffer computes in it what it computed in the old one
  (`PrivatizeMeans`), the readers of a fork or of a chain of copies find in their
  buffers what the copied one held (`ForkMeans`, `ChainMeans`), and fusing leaves
  the sequence of statements as it is (`FuseMeans`). The results are the same
  though the buffers differ (`Same`), and a pass over several buffers or groups
  adds up to the same. `MeantInv` is the invariant: besides the equation it says,
  while there may be several producers, that nothing is lost (`NothingLost`):
  every producer of an on-chip buffer after the first reads it or sweeps all of
  it. It is needed, because a private buffer starts without the old contents, and
  has to be kept, because the pass goes on with the schedule it has rewritten
  (`PrivateLosesNothing`, `FuseLosesNothing`). At the start it is the second
  hypothesis, `AllSwept`, which the code takes for granted without a check (see
  the behaviours below). `MeantInv` and `Determinate` give `RunsAsWritten`, from
  the program as lowered to the end of the processes. The constants have one
  assumption, `ResultsAssumption`: results are arguments.

Only model-checked:

- liveness (`NoLostWakeup`, `SharersEnd`, `Ends`, `SchedulesEnd`): fairness is
  outside what TLAPS proves here;
- of `kernels`, `BackendsAgree`, `StagesAreAChain`, `DisplacementSound` and
  `SamplesAgree`, and of `compiler` `StaysVerified` to `PortsWrittenOnce`:
  equations between recursive meanings of programs, in modules with RECURSIVE
  operators, which the provers' translation does not take.

## Findings

Each is a run that TLC ends with a counterexample of the code.

1. `fuse_siblings`: `FuseSiblingLoops` asks that a producer and a consumer use one
   map, not that the map names every loop. A sum along rows and a nest over the
   plane that loads it become one body, in which the consumer reads the sum of
   the columns so far (`FuseSiblingLoops.cpp` 148).
2. `copy_into_port`: `SimplifyCopy` replaces the target of a copy by its source
   when nothing uses the source later, also when that is an input of the
   function. The copy with which `DemoteLoopCarries` primes a loop from an input
   goes, and the loop writes the caller's array (`SimplifyCopy.cpp` 141).
3. `gather_edge`: when a whole row fits the cache and the boundary is `edge`, a
   tap outside the row reads the slot of its masked index, which holds another
   column or none (`SARInterpToAffine.cpp` 740).
4. `displacement_where`: for the square root of a `where` the interval of the
   first arm that has the form of a ramp square is taken for both
   (`DisplacementRange.cpp` 657).
5. `precision`: the worklist takes a value once. One whose users are decided
   later is dropped, and what only feeds positions through it is rejected as
   data (`VerifyPrecision.cpp` 80). In the other direction, a value that an
   operation samples at is exempt before its other uses are looked at: a
   position that is data as well is accepted.

Behaviours met while modelling that no run is about:

- `cache.py` 428: `rmtree` removes `.lock` with the other names in any order; once
  it is gone a compiler locks a new one in the directory that is being removed,
  and its artifacts go. With two removers the second locks the inode the first
  has unlinked. `RemovesUnlocked` states the words of line 406, and TLC refutes
  it in `clear`. Two removers can also take the entry of a constructed cache, and
  `LockCurrent` fails: TLC shows it with two clearers, and `Revalidated` names the
  race that has to be excluded.
- `cache.py` 283: the entry can vanish inside `Path.mkdir(exist_ok=True)`, whose
  `FileExistsError` leaves the constructor (`SurvivesRemoval`).
- `cache.py` 232: the age of an entry is read at the scan and used at the
  eviction; an entry used in between goes.
- `hls/compiler.py` 1168: an interrupt after the retried IR is stored and before
  the plan is leaves the next compilation to write a plan of the first
  configuration beside the narrower IR (`PlanDescribesIR`).
- `hls/compiler.py` 965: of two overlapping compilations one starts from the
  narrowed values of the other with IR that has the wide ones.
- `EliminateMultiProducer.cpp` 150: a later producer that writes only a part of an
  on-chip buffer, reading none of it, gets a private buffer without the old
  contents. The lowerings of this repository write such results in one sweep
  (`NothingLost` keeps other programs out of the run, and is the hypothesis
  `AllSwept` of the theorems on the meaning of a schedule).
- `AffineStoreForward.cpp` 333: a guarded store becomes an unconditional one of a
  select with an earlier store's value, whatever was written in between. No pass
  of the pipelines creates `affine.if` (`StoreOvertaken` keeps these out).

## What is not modelled

- Thread pool: exceptions of loop bodies; totals of 0, which the entry points
  refuse. Plane pool: sizes and alignments are small units.
- Cache: wall-clock time beyond the two ages, the throttle's clock (a pass may
  be skipped), corrupt contents. The run has one remover; the model and the
  theorems allow any number.
- HLS retry: texts around the design, corrupt JSON, the planner's arithmetic.
- Kernels: the rounding of floating point (all arithmetic is exact, positions are
  quarters); the OpenMP-free parallel loops around them, which are `ThreadPool`'s;
  partition hints and pragmas of the emitted nests.
- Decomplexify: calls between functions (231-274). The rest of the dialect's
  operations, folds and patterns are in `Tensor` and `Lowering`.
- Buffer and loop passes: `FuseElementwise`, which works on linalg before there
  are buffers, `EmitCInterface`, an attribute, and one-shot bufferization and the
  lowering to LLVM, which are MLIR's. Widening, array partitioning, tiling, loop
  order, AXI interfaces and pipelining change layouts and directives: their
  correctness is about addresses of a layout map per buffer, for which `LoopIR`
  would need maps beyond permuted and shifted induction variables.
- Dataflow: streams between nodes, constant tables, schedules inside loops (whose
  back dependences no level expresses; none is emitted as a dataflow region), the
  option `ignore-violations`, canonicalization and buffer placement between the
  passes. Arguments are read-only or carry results only, as `PrivatizeOutParams`
  leaves them. Task formation and outlining move operations without reordering
  them; placement chooses memories by size, which no value depends on.
- Emission, testbenches, kernel facts and tools: text output and counts.
- Strategy rules and resource budgets: thresholds that nothing but their own text
  decides; `HLSRetry` takes their results as constants.
- Front end, IR builder, registry, command line, and of the driver
  `dump_pipeline` (one removal and one rename) and the search for tools: one
  thread, one call at a time; the type rules of the front end are those of the
  verifiers, which are modelled.

## Plan

Done: the runtime, the artifact cache, the HLS entry, the dialect and its
lowerings, the buffer and dataflow passes, and the proofs above. Next, in this
order:

1. **Proofs**: of `FFT` that the scratch lines of grouped
   stages form a chain (`StagesAreAChain`), once its helpers are recursive
   functions; of `Precision` that nothing outside the positions' arithmetic becomes
   exempt. `LoopIR`, `Lowering` and the modules that use them have recursive
   operators and stay with TLC.
2. **Memory layouts**: buffers with a layout map in `LoopIR`, then array
   partitioning and the widening of external memory on the same programs.
3. **Driver**: `dump_pipeline` as a removal and a rename with a failure between
   them, and the registry with its rollback.
