# Verification of emu-microbench

TLA+ models of the Emu Chick microbenchmarks in this repository, the TLC runs that
check them on small instances and the TLAPS proofs that hold for every instance.
All paths below are relative to the repository root.

## 1. The system

The repository is a set of independent executables. Each one allocates and
initialises some data, runs a *kernel* `num_trials` times from a pool of spawned
threads, and (unless `NO_VALIDATE`) checks the data against the value the kernel
must have produced. What they share is the threading model of the machine (spawn /
sync, migration, atomics and remote operations on word-sized cells) and a few
idioms: split `0..n` into grain-sized ranges, reserve a resource with an atomic
operation, protect a cell with a lock, add partial results remotely.

| component | source | state | operations | interaction |
|---|---|---|---|---|
| spin mutexes | `locks.cc` 63-155, `lock_impls.S` | `lock_` | `lock`, `unlock` (CAS, load-then-CAS, with or without RESCHEDULE) | called by `worker` |
| queue lock | `queue_lock.h` | `queue_lock_`, `is_locked_`, `queue_pos_`, `queue_[]` of saved thread states | `lock`, `unlock`; STS / WAKEUP / RELEASE of the machine | ownership of the inner mutex passes from the waker to the woken thread |
| lock benchmark | `locks.cc` 158-206, 208-283 | `counter`, trial | spawn workers, sync, compare `counter` with `n` | drives one of the two above |
| assembly workers | `lock_impls.S` 32-131 | registers D, A and E4 of each context | whole lock / add / unlock loop | replace `worker` for three of the mutexes |
| allocators | `allocation.cc` | `pool_begin`; `head`, `next` links | `alloc` (ATOMIC_ADDMS; CAS loop) | called concurrently by `worker` |
| arena | `vector.cc` | `next_chunk` per nodelet, `std::vector` buffers | `allocate`, `push_back` growth | one arena per nodelet, shared by all threads there |
| range splitting | `recursive_spawn.h`, `spawn_rate.c`, `local_stream.c`, `global_stream*.c`, `scatter.c` | the ranges held by live threads | recursive halving, serial spawn, remote spawn, one level or two | leaf work on a shared array |
| stream programs | `local_stream.c`, `global_stream.c`, `global_stream_1d.c`, `*_cxx.cc` | arrays a, b, c, striped or chunked; `data`, replicated | `add_*`, validate | use range splitting |
| pointer chase | `pointer_chase.c` | `indices`, node links, heads, replicated `sum` | shuffle, relink, chop, chase, reduce | parallel traversal, remote adds |
| hot range | `hot_range.c`, `hot_range_chunked.c` | `array`, `indices` | write / remote add / atomic add / CAS loop on overlapping targets, validate, clear | many threads on few cells |
| reduce | `global_reduce.c` | `sum` | per-thread partial sums, REMOTE_ADD | |
| ping pong | `ping_pong.c` | nodelet of each thread, `results` | migrations, spawn, sync, gather | |
| scatter | `scatter.c` | one buffer per nodelet | memcpy, serial, parallel, two-level, tree | a copy's source must be complete before it is read |
| bulk copy | `bulk_copy.c` | two arrays on two nodelets | four copies, validate | |
| local sort, malloc/free | `local_sort.c`, `malloc_free.c` | arrays of each thread | sort, malloc+free | none |
| experiment scripts | `generate.py`, `runall`, `launch.sh`, `post_process.py`, `suites/` | scripts, joblist, records | expand a suite, run, collect | |

### What is hard here

* interleavings on one word: lost updates to `counter` (locks), to `head` (free list),
  to `next_chunk` (arena, whose `allocate` is not atomic), to a hot cell (CAS loop);
* the queue lock's hand-off: a context that has saved itself still runs until it has
  given up the inner mutex, the waker never gives it up, the woken thread does;
* arithmetic at the edges: `n / num_threads` is 0 or does not divide, a grain of 0,
  `n < NODELETS()`, `offset + length > n`, `ULONG_MAX / k + 1`;
* a spawned child that overtakes its parent, joins, trials that reuse the state of
  the trial before;
* results that must be complete when they are read (copy before recursive scatter,
  remote adds before the reduction, relink before chop);
* where a thread is: one that loads a word migrates to it, so that a replicated
  structure has another copy (`global_stream_1d.c`) and a spawned thread another
  start (`ping_pong.c`) than the program text suggests;
* registers that serve two words in turn (`lock_impls.S`).

### What makes each component correct

* locks: one thread at a time in the critical section, no update of `counter` lost,
  nobody waits for ever, the mutex is free again at the end of a trial;
* allocators: no block handed out twice, none outside the pool, the pool suffices;
* range splitting: the ranges of live and finished threads always partition
  `0..n`, every index is worked on exactly once, the loop ends;
* pointer chase: `indices` is a permutation, the chopped lists are disjoint chains that
  cover the array, the sum equals `n(n-1)/2`;
* hot range: every target is hit as often as `validate_worker` expects;
* scatter: every nodelet ends with the buffer of nodelet 0;
* ping pong: a measurement is of `num_migrations` real migrations of every thread, and
  each pair that was asked for is measured once in each trial;
* streams, reduce, bulk copy: a program that says its result is right is right, one that says
  it is wrong could not have worked, and it comes to a verdict unless its loop never ends.

## 2. Plan

The modules in the order of their importance for what the benchmarks measure, and
what composes what. "Done" is what this directory holds.

| step | modules | abstract specification | state |
|---|---|---|---|
| 1. locks | `LockBench` (run_test, worker), extended by `SpinLock` and `QueueLock` | `Mutex` | done, with proofs |
| 2. range splitting | `RangeSplit` | `ForEach` | done, with proofs; one level, two levels and shallow |
| 3. allocators | `AllocBench`, extended by `MonotonicBuffer` and `FreeList`; `Allocation` composes them | `BlockPool` | done, with proofs |
| 4. arena | `Arena` | none: two promises contradict each other (section 6) | done, with a proof |
| 5. pointer chase | `PointerChase` | none: the shape of the lists is the promise (`ListsAreChunks`) | done, with proofs |
| 6. hot range | `HotRange` | none: the count of hits is the abstraction (`NoLostUpdate`) | done, with proofs |
| 7. lock proofs | `LockProofs` | `Mutex` | done |
| 8. allocator proofs | `AllocationProofs` | `BlockPool` | done, of the composition of the three allocators |
| 9. assembly workers | `AsmWorker` | `SpinLock`, and with it `Mutex` | done |
| 10. scatter | `Scatter` | "every nodelet ends with the buffer of nodelet 0" (`TrialComplete`) | done, with proofs |
| 11. streams, reduce, bulk copy | `Stream` | the loops are `ForEach`; the verdict is the promise (`VerdictExact`) | done, with a proof |
| 12. ping pong | `PingPong` | none: the measurement is the promise (`MeasuresMigrations`) | done, with a proof |
| 13. assembly proofs | `AsmWorkerProofs` | `SpinLock`, and with it `Mutex` | done |
| 14. proofs of the data-parallel programs | `HotRangeProofs`, `PointerChaseProofs` | none | done |
| 15. proofs of the programs of nodelets and of the verdicts | `NodeletProofs` (scatter, arena), `StreamProofs`, ping pong in `SpawnProofs` | none | done |

## 3. Modules and how they correspond to the code

Every module names its source in the header; `PROJECT.json` ("map") lists the lines
each definition stands for (a disjunction of actions stands for none of its own and is not listed).
Common conventions:

* one action is one memory operation that another thread can see or be disturbed
  by; steps of a thread on its own locals are merged into the next such operation;
* `pc[t]` is where thread `t` is; local variables are functions of the thread;
* `cilk_spawn` makes a thread runnable and the parent goes on; `cilk_sync` is the
  guard "all have ended" of one action;
* a definition that is preceded by `\* Mutant:` is a variant of the next one with a
  plausible mistake; it is not part of the model, and documents which mistake the
  properties rule out.

### Locks: `Mutex`, `LockBench`, `SpinLock`, `QueueLock`

`LockBench` is `run_test` and `worker` of `locks.cc`: the trials on one mutex object
(`Spawn`, `Sync` with the comparison of the counter and `n`), the loop of a worker
(`Head`), and `*counter += 1.0` as a load and a store. The two mutex modules extend it
with what happens between labels `lock` and `load` (`lock()`) and from `unlock` back to
`head` (`unlock()`).

* `SpinLock`: `CasSucceeds` straight from `lock` for `cas_mutex_A` and `D`; `Test` and
  then `CasSucceeds` or `CasFails` for B, C, E and F. RESCHEDULE changes no state, so C and
  F have the behaviours of B and E, which is why the runs need only A and B.
* `QueueLock`: `TakeQueueLock` takes the inner mutex for either call. `EnterFree`,
  `EnterBusy`, `SaveState`, `RemnantUnlocks` and `RemnantDies` are the rest of `lock()`; `LeaveToSleeper`,
  `WakeUp`, `LeaveFree` and `FreeQueueLock` are the rest of `unlock()`; `GrantLock` is the
  unlock of the inner mutex with which `lock()` ends. After STS a thread exists twice:
  as the saved state (`pc = "saved"`) and as the context that has still to give up the
  inner mutex (`remnant`) and then to release its place (`dying`; by then the thread may be
  running again). A thread for which there is no slot ends a program with assertions
  (phase `error`); without them it goes on to write behind the queue (`wild`), after which
  nothing more is said. `WakeUp` is the WAKEUP that succeeds; those that do not change
  nothing and are stuttering steps.
* With `all`, `main` calls `run_test` for one mutex after the other; each call has a mutex and a
  counter of its own, so that the modules stand for one call.
* `Mutex` is what the benchmark needs of either: acquire, one addition, release.

* `AsmWorker` is `run_test` with the workers of `lock_impls.S`: each action is one memory
  operation with the register instructions in front of it. D and A are variables because
  every one of these operations goes through them: a CAS compares with D, a store writes D,
  and the word is the one A points at. E4 counts down. `bnzd` is a branch that decrements D,
  `bdnz` a branch to itself as long as D is not 0. The refinement to `SpinLock` reads lock and
  counter from memory, and `iter` from E4.

### Range splitting: `ForEach`, `RangeSplit`

A live thread is a record `[role, low, high]`, the rest of what it has to do.
`SpawnHalf` and `BaseCase` are the macro `RECURSIVE_CILK_SPAWN`; `SpawnChunk` is a serial
spawner; `SpawnNodelet` (serial) and `SplitNodelets`/`OneNodelet` (recursive) are the first
level of the remote modes of `global_stream.c`, whose threads divide the elements of
their nodelet with `SpawnChunk` or `SpawnHalf`; `SpawnChunkAt` is the shallow mode. `Body`
is one turn of a worker's loop. Element `j` of nodelet `i` of a chunked array has index
`i * LocalN + j`. `ForEach` is the loop as its caller sees it.

### Allocators: `BlockPool`, `AllocBench`, `MonotonicBuffer`, `FreeList`, `Allocation`

`AllocBench` is `run_test` and `worker` of `allocation.cc` with a new allocator in each
trial. `MonotonicBuffer` is the atomic add and the check behind it, `FreeList` the load of
`head`, the load of the link and the CAS. `Allocation` composes the two by INSTANCE with
`mallocator`, whose `malloc` is external, in the order in which `main` runs them
(`NextAllocator`). `owned` is the history of the blocks
returned, which the code does not keep.

### Arena: `Arena`

The workers of `vector.cc` with the growth of `std::vector` (external: capacity 1, then
doubled, elements copied). `allocate()` is `ReadChunk` and `BumpChunk`; as `next_chunk` is
a plain variable, the compiler may add to the value it has loaded or to memory, and
`BumpChunk` allows both. `raced` is a history the code does not keep: whether two calls of
`allocate()` on a nodelet have overlapped in time. The stored values are left out: all vectors
on a nodelet hold the same one.

### Pointer chase: `PointerChase`

The set-up in the order of `pointer_chase_data_init`: strided indices, the shuffle of
block numbers, the blocks moved by concurrent workers, the shuffles inside blocks,
the copies to the nodelets, the links written by one worker per nodelet from its own
copy, the chopping; then the trials with both spawn modes, the migrating chasers and
the sum that is replicated over the nodelets. A step that leaves an array (an index
outside the pool, `heads` looked up in front of the indices) goes to the phase `wild`,
where nothing more is said. `lcg_rand` is any word. The number of nodelets is a field of the
command line, as one run has machines of several sizes. `EndsExactly` says of every command
line how it ends: `finished`, `refused` (the block size does not divide), `failed` (the
remainder of the chunks is not in the sum) or `wild`.

### Hot range: `HotRange`

One iteration per index, any of them at once; `Load`, `CasSucceeds`, `CasFails` for
ATOMIC_CAS and `Update` for the three modes with one operation. Both layouts;
`Validate` is the comparison and the clearing of the array behind it. A striped array of
fewer elements than nodelets is left by its first striped index: phase `wild`. The grain
`n / num_threads` goes to a loop of `emu_c_utils`; what that does with a grain of 0 is not in this
repository, and both possibilities are in the model (`default_grain`, a field of the command
line: it takes a grain of its own, or it never advances and the phase is `endless`).

### Scatter: `Scatter`

The buffers are sets of *fresh* elements: those copied in this trial from fresh ones. All
trials copy the same data, and nothing is validated, so that this is what tells a copy
from what was there before. A thread of a kernel is a record: `Copier` (a loop from `low`
to `high`; the main thread itself for memcpy and serial), `Splitter` (level 1 of emu_for)
and `Tree` (a call of `scatter_tree` with the nodelet it runs on and the elements that its
`emu_local_for` has still to copy). `TreeSpawn` lets the child of a spawn run where it was
spawned or where its argument is ("Spawn at target"). `spawned` counts every spawn of a thread
that copies, those of a grain of 0 included, up to `SpawnCap`, a bound of the model that is
larger than every budget (`SpawnCapAssumption`).

### Streams, reduce, bulk copy: `Stream`

Seven programs that take the same steps: `ReadArguments` with its refusals (`Valid`; bulk copy
also refuses a target nodelet that does not exist), one `SetUp...` for each, the
selection of the mode with its assertions (`Select`, `SelectUnknown`), the trials, and
`Validate` (in `global_reduce.c`, in `EndTrial`). `...Loops` lists the modes of a program and
whether the loop is that of one thread (`RunNext`) or shared by threads, which run its
pieces in any order (`RunPiece`). Two things are kept because verdicts depend on them: where
the main thread is, because a serial loop migrates with its elements and `data` is a
replicated structure with a copy on each nodelet (`size`); and whether the compiler loads the
loop bound in each turn (`reload`, a field of the command line). A mode that splits its loop by
`n / num_threads` never leaves it if that is 0 (`Endless`, phase `endless`); for mode `library`
`default_grain` is as in `HotRange`. `local_stream_cxx` reads its number of trials from behind its
arguments: it is any number from 1 to `MaxTrials`, or the program crashes or refuses it.

### Ping pong: `PingPong`

`at` is the nodelet of each thread. A thread starts where the main thread is at the spawn;
if the build loads a local variable from the stack in the loop of `ping_pong_spawn`
(`spills`), that is nodelet 0 from the second spawn on. `results` counts measurements.

## 4. Runs

| run | instance | distinct states | shows |
|---|---|---|---|
| `SpinLock` | 4 threads, n = 8, 2 trials, A and B | 69,382 | mutual exclusion, `lock_` set exactly while held, no lost update, exact validation, every trial ends, `Mutex` is implemented |
| `QueueLock` | 3 threads, 2 slots, n = 8, 2 trials | 879,483 | one owner of the inner mutex and of the lock through every hand-over, sleepers and slots correspond, nobody sleeps while the lock is free, no newcomer passes the queue, every trial ends, `Mutex` is implemented |
| `AsmWorker` | 3 threads, n = 6, 2 trials, D, E and F | 17,927 | each step on the registers is a step of `SpinLock`, every trial ends |
| `Allocation` | 3 threads, 6 blocks, 2 trials with each allocator | 113,913 | distinct blocks, no call aborted, pool suffices to the last one, `BlockPool` is implemented, every trial ends |
| `Arena` | 2 threads, 2 nodelets, 4 iterations | 161,020 | vectors are private on a nodelet as long as no two calls of `allocate()` overlap there |
| `ArenaPrivate` | same, 2 iterations | violation | chunks of two vectors overlap |
| `RangeSplit` | 5 modes, n = 2, 4 and 16, 2 to 4 threads, 2 nodelets | 38,428 | each index once, `ForEach` is implemented, the number of workers (as many as asked for exactly if they divide n, else more), the loop ends exactly if the grain is not 0 |
| `PointerChase` | n = 2, 4 (all modes) and 8, 1 to 4 threads, 2 and 4 nodelets, 2 trials | 231,026 | permutation, sort modes, lists are chunks, and how each command line ends |
| `HotRange` | n = 4 and 8, 4 operations, 2 layouts, 1 to 8 nodelets, 2 to 8 threads, 2 trials | 301,191 | no lost update, exact validation, every run ends unless the library hangs on a grain of 0 |
| `Scatter` | 5 modes, n = 2 to 8, 1 to 16 threads, 1 to 8 nodelets, 2 trials | 135,908 | no nodelet passes on what it has not received, complete trials, the thread budget of trials that end, the program ends exactly if the grain is not 0 |
| `Stream` | 7 programs, all modes and an unknown one, n = 2 and 4, 1, 2 and 5 threads, 1 and 2 nodelets, 2 trials, and arguments that are refused | 7,006 | right verdicts; every run ends, except exactly those whose loop is split by a grain of 0 |
| `PingPong` | 3 nodelets, all combinations of source and destination, 4 and 8 migrations, 2 and 3 threads | 3,950 | measurements are of real migrations, each pair once per trial, when the program gives up |

Deadlock is checked in all of them: the end of a program is a stuttering step.

### Bounds and why they are enough

* Threads: 3 are the least for which a thread can be overtaken while it waits, two can
  sleep in the queue, or a CAS can fail because of a third thread's success. The spin lock run
  has 4 because 4 divides n = 8, so that `ValidationExact` is checked where it predicts
  success (the proof of `SpinValidationExact` is for all numbers).
* `MaxThreads = 2` with 3 threads: one thread holds the lock and two sleep, so the queue
  is filled to its last slot and never beyond. One more thread, and the assertion on the
  slot does not hold; `SleepersAreQueued` states the bound for the numbers where it does.
* Two trials: the second starts from what the first left (mutex, array, lists, buffers, sum).
* `Sizes = {2, 4, 16}` and 2 to 4 threads: 3 does not divide, so the last chunk of an array
  and the last chunk of a nodelet are cut off, and the recursive halves become smaller
  than the grain; 2 threads on 2 nodelets give a grain equal to a nodelet's share; more
  threads than elements give a grain of 0, as they do in `Scatter` (8 elements, 16 threads), `Stream`
  and `HotRange` (4 and 5).
* `SpawnCap = 17` is more than any budget of the run `Scatter`; a spawner with a grain of 0
  reaches it (second half of `Termination`). `MaxTrials = 2` in `Stream`.
* 6 blocks and 3 threads: the threads divide the pool, so that it is used up.
* 4 iterations in the arena: a vector grows three times, and chunks of different
  generations meet.
* `RandMax = 15`: all words of a 4-bit generator; for up to 4 elements
  every pick the code can make is made by one of them, and the division
  `ULONG_MAX / (n - i) + 1` is rounded as in the code.
* Nodelets: striping, replication and migration are all visible with 2. The tree of
  `Scatter` has three levels with 8, and halves of unequal size with 3; `PingPong` has 3, so
  that a source, a destination and the nodelet of the stack can all differ. More nodelets
  than elements are there where the code can be run that way.

## 5. Fairness

The runs with a liveness property assume weak fairness, for two kinds of steps: those of
each spawned thread, and those of the main thread. That is what the machine and the
Cilk scheduler give: contexts of an Emu core are scheduled round-robin, and
runnable threads on a host are run by the kernel. `PointerChase`, `Stream` and
`RangeSplit` assume less: some thread goes on as long as one can. Nothing assumes strong
fairness: a CAS may fail as long as others succeed, which they can do only finitely
often. `Scatter` states fairness for the threads that work for each nodelet. Four properties
named `Termination` also say when a program never ends (a grain of 0, in `RangeSplit`, `Scatter`,
`Stream` and `HotRange`): that half needs no fairness, but for the spawns that go on in `Scatter`.

## 6. Findings

One run expects a violation: `ArenaPrivate`. `vector.cc` 53: `allocate()` is not atomic, and vectors
that should be private share storage ("Each thread gets a private vector on this nodelet",
line 138). The validation cannot notice, because the vectors on a nodelet hold equal values. The run
`Arena` shows the other side: where the calls do not overlap, the vectors are private.

Other command lines with which a program does not do what its text suggests are part of
exact properties, which say what the code does with every command line, these included:

* `locks.cc` 180: "N must be divisible by num_threads" is printed only if the quotient is 0;
  otherwise the benchmark reports a mismatch for a correct mutex (`ValidationExact`).
* `queue_lock.h` 56: "Maximum number of threads that can wait on a single lock" (line 28) is 2048, and
  `main` does not limit `num_threads` by it. With two threads more, one can reserve a slot that is
  not there: the assertion stops a Debug build, and the Release build that `src/README.md` 11 asks for
  has none and writes behind the queue. `SleepersAreQueued` has the condition, the model both builds.
* `global_stream.c` 168, and every other `n / num_threads`: "Calculate the grain so we get the right
  number of threads globally" (line 167), and `src/README.md` 29, 44 and 62 say "with `num_threads`
  threads". If `num_threads` does not divide `n` the grain is rounded down and *more* threads do the
  work, up to almost twice as many: 4 workers for 8 elements and 3 threads (`WorkerCount`,
  theorem `RangeSplitWorkerCount`).
* `scatter.c` 125: "being careful not to exhaust total # of threads" (line 120), but with more threads
  than elements the grain is 0, and the loop of lines 113-117 spawns threads without end
  (`Termination` of `Scatter`, which has the counter of spawns reach its cap; `ThreadBudget` is about
  all other command lines).
* With a grain of 0 (`num_threads > n`) `recursive_spawn.h` 11 divides one element for ever, against its
  "Invariant: count >= 2", and `local_stream.c` 89, `global_stream.c` 134, 153 and 249 and
  `global_stream_1d.c` 117 never advance, so that these programs give no verdict at all
  (`Termination` of `RangeSplit` and of `Stream`). `hot_range.c` 149 hands a grain of 0 to the library.
* `pointer_chase.c` 310: if `num_threads` does not divide `n`, the validation fails although
  every thread did its part; line 114: fewer nodes than nodelets leave the array (`EndsExactly`).
* `hot_range.c` 187: ranges past the end are wrapped around by the initialisation and not by the
  validation (`ValidationExact`); line 59: as in the pointer chase.
* `local_stream_cxx.cc` 162 reads `argv[4]` of three arguments, and line 37 fills with zeroes
  arrays whose sum is expected to be 3 (`VerdictExact`, `Hopeless`).
* `global_stream_1d.c` 43: n is set on one nodelet only, and the serial loop, if it loads the bound
  again, stops on another one (`VerdictExact`, `Hopeless`).
* `bulk_copy.c` 166: "cilk_for" runs the function of "emu_for" (`BulkCopyLoops`).
* `ping_pong.c` 34: a build that loads from the stack between the spawns is taken off the source,
  and the program gives up (`EndsExactly`).

## 7. Proofs

The theorems hold for every value of the constants that the modules' assumptions allow.
The assumptions are the checks of each `main` and what the machine gives: a positive number of
`NODELETS()`, and that `n` and it are powers of two, or what follows from that (one divides the
other). `PROJECT.json` lists the theorems; this section says how they hang together.

| module | theorems about | rests on |
|---|---|---|
| `LockProofs` | counting of increments and the validation (lemmas about `LockBench`); the six spin mutexes and the queue lock: `ImplementsMutex`, `NoBarging` | `SpinLock`, `QueueLock` |
| `AsmWorkerProofs` | the assembly workers; `ImplementsSpinLock`, and through it `Mutex` | an instance of `LockProofs` |
| `SpawnProofs` | the spawn modes; `ImplementsForEach`, the number of workers; what ping pong measures | `RangeSplit`, `PingPong` |
| `AllocationProofs` | the three allocators; `ImplementsBlockPool` | `Allocation` |
| `HotRangeProofs` | the updates of hot words and their validation | `HotRange` |
| `PointerChaseProofs` | the order, its copies, and the lists | lemmas of `HotRangeProofs` about division |
| `NodeletProofs` | the copies of scatter and its threads; private vectors of the arena while its calls are serial | `Scatter`, `Arena` |
| `StreamProofs` | the verdicts of the stream programs, of global reduce and of bulk copy | `Stream` |

**Benchmark of locks.** `Counted` says that the counter is the number of pairs (thread, iteration)
whose store was executed; a step keeps them, adds one or clears them (`CountedStep`), whatever
the mutex. `Judged` is the second invariant, for `ValidationExact`: at the sync all pairs are
there, so the counter is `num_threads * (n / num_threads)`, which is `n` exactly if the division
leaves no remainder.

**Spin locks.** `SpinInv` is inductive. It consists of the properties the run checks and of three
facts they need: what a worker that is about to store has loaded is still the counter
(`LoadedIsCurrent`, or `NoLostUpdate` would not survive a store), a worker in its loop has
an iteration left (`LoopBound`, or `iter` would leave its type), and a running trial is one of
`NumTrials` (`TrialBound`). `SpinImplementsMutex` maps each step: the successful CAS is Acquire,
the store Update, the unlock Release, the start of a trial Restart, and the rest stutters.

**Queue lock.** The four invariants of the run support each other, and are inductive with one
more, `SlotBounds`: a thread that has reserved a slot and not saved itself is next to
`queue_pos`, as is the slot that a waker empties, and `queue_pos` is smaller than the number of
threads. The heart is `MatchedStep`: of the three actions that touch a slot each has, by
`InnerLockHasOneOwner`, no rival, so that the slots in use and the sleepers stay a bijection,
and `queue_pos` is bounded because sleepers are distinct threads that are not the lock's owner.
`NoSleeperWhenFree` follows, since `LeaveFree` needs an empty queue and `EnterBusy` a taken lock.
For `NoBarging` one further invariant is needed (`GrantedFindsEmpty`: who found the lock free finds
no sleepers). It is about newcomers only: the queue is a stack, and among the sleepers the last one
is woken first. `QueueSleepersAreQueued` has the condition under which `assert(slot < max_threads)`
holds; without it (more threads than the queue is made for) the phases `error` and `wild` are
reachable, and the other theorems hold up to that point.

**Assembly workers.** `AsmInv` says what the instructions take for granted: A points at the mutex
or at the counter at the label where it must (`Addressed`), D is 0 when a CAS compares with it
(`ExpectsZero`), E4 counts the iterations left (`Counts`). Then each operation is a step of
`SpinLock` or a stutter (`AsmImplementsSpinLock`), and `AsmMutualExclusion` and
`AsmImplementsMutex` are those theorems of `LockProofs` for the mapped state.

**Range splitting.** `Inv` is `TypeOK` and `EachIndexOnce`, and inductive as it stands: an index is
the business of one live thread and unwritten, or written once and nobody's business. Every
spawn replaces a thread by two that divide its range at some point (`DivideStep`), or
passes the range on (`PassOn`); what remains is arithmetic on where that point is: the
middle of a range (`MidInside`), the border of a nodelet's share (`ShareInside`) and the end of
a chunk (`ChunkAtInside`). A grain of 0 is included: the loop then does not end, but loses nothing.
`RangeSplitImplementsForEach` follows: a worker's turn is the body, the exit of the last
thread is the return, and there is a thread as long as an index is unwritten.

`RangeSplitWorkerCount` is about the whole tree of spawns, and needs a plan of it: m shares of p
elements, each divided into c chunks of g elements (`Chunked`). In the serial modes g is the grain
and the last chunk of a share may be shorter; the recursive ones stop at the largest power of two up
to the grain. `CountInv` says that every spawner begins at a chunk (`InChunks`), or has a number of
chunks that divides n (`InHalves`), and that the workers started and the chunks whose first index a
spawner still has (`Unspawned`) are m * c together. Each start of a worker takes one
of these indices (`CountedOne`, by `EachIndexOnce` no other thread has it) and every other step none
(`CountedKept`). It is the plan that has the right number of chunks (`ChunksPlanned`,
`HalvesPlanned`): of two divisors of a power of two the smaller divides the larger
(`DivisorsDivide`). The theorem takes one assumption more than the others, that every size is a power of
two, which `1L << log2_num_elements` is; `PowerOfTwo` says so without exponents, that no odd
number but 1 divides it. If the grain is 0 the loop never ends (`NoGrain`).

**Allocators.** `AllocInv` counts: each call of `alloc()` that has taken a block took exactly one
(`OnePerCall`), and there are no more calls than blocks (`CallsBounded`: the division is rounded
down). So a call that is still to come finds a block, and `NoMallocError` is inductive together
with the rest. That the blocks are distinct rests, for the buffer, on a boundary that only grows
(`BoundaryExact`, with `ReservedOnce` for blocks between the atomic add and the return; it also
says that the boundary does not pass `pool_end`, and that no call is refused for it); for
the free list on links that never change (`LinksRead`): a head that is the same at the CAS as at
the load still has the link that was read in between. No block returns to the list, which is why
there is no ABA problem to exclude.

**Arena.** `ArenaInv` says, of each nodelet where no two calls of `allocate()` have overlapped, that
who is between reading and advancing `next_chunk` is alone and has read what it still is
(`OneAllocates`; so it makes no difference which of the two values the compiler adds to),
that all chunks given away end at or before `next_chunk` (`GivenAway`), and that none was given away
twice (`GivenOnce`), those included that a vector is about to move to. Nodelets do not
disturb each other.

**Hot range.** `Position` is one-to-one on the elements, and stays in the array if there are as
many elements as nodelets: powers of two divide each other, and the striped position of `i` is
quotient and remainder exchanged. An update therefore counts for one element only
(`UpdateCounted`), the CAS because it has found the value that it had loaded. For
`ValidationExact` the hits of an element are counted exactly: the iterations that hit one offset
are a residue class modulo the length, with `n / length` members, as the length divides `n`; if
the range goes past the end, the elements the code wraps around to have hits where none are
expected.

**Pointer chase.** `ChaseInv` follows the phases. An order is one of the sort mode if each block of
the strided order has a block of its own with the same elements, in the same order unless blocks
are shuffled inside (`Arranges`); which block that is, `block_indices` says, and it stays a
permutation because it is only exchanged (`SwapMoves`). The concurrent moves of blocks go to
different places and read the saved copy (`MoveBlockKeeps`); exchanges inside a block leave
every block its elements (`SwapInBlock`). The workers that link nodes may run in any order,
because no node is twice in the order, and each finds the next node in its own copy
(`RelinkKeeps`). With a block size that divides `n`, all this makes the order a permutation
(`ChaseIndicesPermutation`) of the shape that the top-level README promises
(`ChaseSortModeRespected`). For `ChaseListsAreChunks`, `Walk` is a recursive function: it is shown
to exist by giving its values, and to have no others by induction on the number of steps, over a
set of natural numbers (`Counting`). Before the induction was tried, TLC had checked `ChaseInv` on the
instance of the run `PointerChase`, as it had the other inductive invariants on theirs.

**Scatter.** `CopyInv` is the induction. A thread of the tree runs on a complete buffer, and of the
nodelet it is copying to all elements are fresh but those in its `todo` (`CompleteAt`); so the
child of a spawn finds a complete buffer wherever it runs. For `TrialComplete`, each element of each
nodelet is fresh, or some live thread still owes it, or the main thread has not yet seen to that
nodelet (`Covered`): the division of a range of nodelets passes on what is owed, and when no
threads are left nothing is. For `ThreadBudget` spawns are counted against places: there are as
many for each nodelet as threads are allowed for it. A place is unused as long as some thread can
still spawn into it, and each spawn uses up one that no thread can claim afterwards (`Budgeted`),
because two threads never claim the same (`Apart`). All this is where the grain is not 0 (`Hangs`);
where it is, no number of threads is a bound, as `Termination` says. That chunk `k` starts at `k` times the grain, and that
there are no more chunks than places, is the division of `n` by the threads and the nodelets.

**Ping pong.** A thread that has turned an even number of times is on the source, or it has not
started yet (`EveryTurnHops`), as long as the main thread is where the measurement began; so each
MIGRATE leaves the nodelet the thread is on. As `num_migrations` is even, a thread that has
turned as often as asked is back on the source. If the main thread was moved, `ping_pong` notices and adds nothing.

**Streams, reduce, bulk copy.** `StreamInv` follows the phases. What is loaded stays as it is (`Loaded`),
and c holds, in each element, what was there at the start or the result. A loop in any order has written
all that is not to be done (`AllElse`); one in order has written a prefix, and the main
thread is on the nodelet of the last element (`Prefix`), so that the bound it loads is known: n everywhere but
in `global_stream_1d.c`, where it is 0 on the second nodelet and the loop stops there, with
elements that are still 0 behind it. The pieces of a reduction partition the elements (`Partition`;
the chunks because nodelets divide n), and the sum is n less what is in pieces to do (`AddedOnce`).
The verdict then depends on the command line only. This is partial correctness: `Accepted`
says that a kernel runs, and a validation is reached, only with arguments that are not refused and
a loop that ends; that one is reached is `Termination`, which TLC checks.

`NoMallocError` is in no run of its own, because `Termination` of the run `Allocation` implies it on
that instance; the theorem `AllocNoMallocError` states it for every one. The type invariants (`SpinTypeCorrect`, `QueueTypeCorrect`, `RangeSplitTypeCorrect`) are proved and
in no run; those of the other modules are parts of their inductive invariants.

**Model-checked only.** Liveness: no theorem is about it; `EndsExactly` and every `Termination` are
TLC's. That the sums of the pointer chase are right is part of `EndsExactly`, and would need sums
over the nodes of a list. No other safety property that a run checks is without a theorem.

## 8. Abstractions and what is not modelled

* Memory is sequentially consistent, as the Emu's is for one word, with the exception of
  `next_chunk` (section 3, arena). The counter of the locks is exact, as a double
  is below 2^53.
* Remote operations (REMOTE_ADD) take effect in one step before the thread that issued
  them counts as ended: the machine acknowledges them before a sync returns.
* The inner mutex of the queue lock is taken in one step; that a spin mutex does this
  correctly is what `SpinLock` is about.
* Loops of `emu_c_utils`, `emu_cxx_utils`, `cilk_for` and `std::vector` are not in this repository; they
  are modelled by what the code relies on (any order, each index once).
* `Stream` assumes that `NODELETS()` divides `n` (both are powers of two, and the chunked arrays
  have an element on each nodelet). `HotRange` and `PointerChase` end in `wild` where an index
  leaves an array; what the program does then is not said.
* `n >= 2` in `Scatter`, as `log2_num_elements` must be positive; in `Stream` n = 1 stands for a
  logarithm that is not, and is refused.
* A grain of 0 is taken as Cilk's default by `cilk_for`; for the loops of `emu_c_utils` both readings are in
  the models (section 3).
* Timing, bandwidth computations, logging and hooks are left out: no state depends on them.
* Hazards without a property: the size of the pool of `vector.cc` (line 53; far beyond a small
  instance, and nothing in the code compares with it).
* Not modelled: `local_sort.c` and `malloc_free.c` (threads that share nothing call `qsort`,
  `malloc` and `free`; the difference of longs that `compare_long` returns as an int is exact for the
  values `rand()` gives), the `atomic_cas` for longs of `allocation.cc` (line 39, which nothing calls and
  which passes its arguments in another order than the one for pointers), the timing and the command line of
  `spawn_rate.c` (its spawns and workers are `RangeSplit`), `common.h`, and the scripts that expand
  suites and collect records.
