# AITemplate in TLA+

AITemplate compiles a neural network, written with a PyTorch-like Python front
end, into one shared library: it folds, fuses and schedules operators, plans the
memory of intermediate tensors, generates and profiles kernels, builds, and
links the result with a small C++ runtime. This directory models the parts of
that system whose correctness depends on an *order of events*: the runtime's
pool of `Model` objects, its locks and its device streams; the double buffer of
the weights; the profiling of kernels on several devices; the build cache that
processes share; and the compiler's stateful algorithms.

Paths below are relative to `src/`. `MC` abbreviates
`static/csrc/model_container.cpp`.

## 1. Inventory

### Runtime (C++, `static/`)

| Component | State | Operations | What is hard | What makes it correct |
|---|---|---|---|---|
| **Pool of Models** (`MC`, `static/include/model_container.h`, `static/include/model.h`, the generated `Model` of `python/aitemplate/backend/main_templates.py`) | `available_models_` (stack), `pending_models_` (queue), `models_mutex_` and a condition variable, `constants_sync_mutex_` (shared/exclusive), `constant_folded_once_`, one `run_finished_` event per Model | `Run`, `RunWithOutputsOnHost`, `Benchmark` (with worker threads), `Profile`, `SetConstant`, `SetManyConstants`, `FoldConstants` | threads, asynchronous kernels, waits with the mutex released, exceptions at every device call, maintenance against inference | a Model has one owner; it is re-used only when its kernels are done; none is lost; maintenance waits for inference and the first fold happens once; every call returns |
| **Constants and their double buffer** (`MC`, `fx2ait/fx2ait/csrc/AITModelImpl.cpp` as the client) | two device buffers, `use_constants_primary_buffer_`, `buffer_state_`, `model_constants_`, the address tables of every Model and of the constant folder | `SetConstantImpl` in place and in the double buffer, `FoldConstantsImpl`, `SwapConstants` | `SwapConstants` walks the Models without the lock of `Run`; the folder's buffer moves without any lock; buffers are re-used while kernels may still read them | an inference reads one generation of weights, the one in effect; a session writes the inactive buffer only; a folded session is swapped in |
| **C interface** (`static/csrc/model_interface.cpp`) | none | turns exceptions into error codes | - | - |
| **CPU runtime** (`static/include/cpu_threadpool.h`, `static/include/cpu_shared_scratch.h`) | a process-wide thread pool, thread-local scratch memory that grows | parallel loops of generated CPU kernels | initialisation races, scratch shared by nested operators | every index is computed once, scratch is never used by two operators at once |
| **Standalone driver, debug utilities, allocators** (`static/csrc/standalone.cpp`, `static/csrc/debug_utility.h`, `static/include/raii_wrapper.h`) | - | I/O and wrappers | - | - |

### Compiler (Python, `python/aitemplate/compiler`)

| Component | State | Operations | What is hard | What makes it correct |
|---|---|---|---|---|
| **Memory planning** (`transform/memory_planning.py`) | usage records (first and last operator, size), offsets | records per operator group, greedy offsets, workspace | views and slices share memory; several streams run an operator group concurrently | two tensors alive together never overlap; the blob is large enough |
| **Scheduling** (`utils/graph_utils.py`, multi-stream code of `backend/main_templates.py` and `backend/codegen.py`) | rounds and groups of operators, scratch memory per stream | sequential and parallel schedule, fork and join by events | operators of a group run side by side in memory planned for them | every operator finds its inputs intact and has its scratch memory to itself |
| **Binding of outputs and views** (`transform/mark_param_tensor.py`, `backend/codegen.py`) | marks of tensors, output indices, pointers, copies | three passes, then the copies at the end of a run | outputs that are views of inputs, constants, internal tensors and other outputs | the client finds every output in the memory it gave |
| **Sorting** (`transform/toposort.py`) | the operator graph | topological order | - | producers before consumers |
| **Fusion of elementwise operators** (`transform/fuse_ops.py`, `ops/common/fused_elementwise.py`) | a disjoint set of operators; the graph, edited in place | grow groups, split them by shape, replace each part by one operator, sort | groups are united as wholes, cycles are looked for locally, groups are fused one after the other | no cycle, one producer for each tensor, no output lost |
| **Other graph passes** (`transform/*.py`, `base.py`, `stable_set.py`) | the tensor/operator graph, edited in place | dead code, constant folding, other fusions, split/concat/view moves | edits keep producer and consumer sets symmetric | the graph means the same before and after |
| **Python `Model`** (`compiler/model.py`) | a handle, allocated device buffers, the library, a reference to each constant's tensor (`torch_constant_tensors`) | `run*`, `set_*_constant*`, `fold_constants`, `swap_constants`, `close` | ownership of device memory and of the library; the container reads tensors that Python frees | nothing is used after `close`; nothing is closed twice; a tensor is kept while something reads it |

### Building and profiling (Python, `python/aitemplate/backend`)

| Component | State | Operations | What is hard | What makes it correct |
|---|---|---|---|---|
| **Task runner and device farm** (`task_runner.py`) | tasks with process, deadline and outcome; idle devices; queue; finished set | `push`, `dispatch`, `poll`, `pull`, `join`, `reset` | processes end, hang and time out in any order | every task gets a device, one task per device, an outcome per task, `join` returns |
| **Profiler runner** (`profiler_runner.py`) | device queue, done queue, futures, postprocessing delegate | `push`, `join`, retries | failures on a worker thread | a device is given back; all results are in before the best kernel is chosen |
| **Build cache** (`build_cache_base.py`) | directories named by the hash of their content, shared by processes | `retrieve_build_cache`, `store_build_cache`, `maybe_cleanup`, `makefile_normalizer` | several builds at once, eviction during a copy, two cleanups at once | what is retrieved is a complete build of the same sources |
| **Profile cache and choice of kernels** (`profiler_cache.py`, `compiler/transform/profile.py`, `ops/gemm_universal/gemm_common.py`, `ops/softmax/softmax.py`) | SQLite tables, commit flag; the chosen kernel per workload, `split_k` per GEMM | query, insert, commit; `profile`, `postprocess_results` | results in any order, earlier answers mixed with new ones, a crash between insert and commit | what is chosen or kept was measured, for that very problem; it is the fastest |
| **Builder** (`builder.py`) | generated sources, make | compile and link | - | - |

### Not in this development

Kernel code generation (`python/aitemplate/backend/{cuda,rocm,cpu,common}`),
most operators and the front end (`compiler/ops`, `frontend`, `testing`), converters
(`fx2ait` Python, `python/aitemplate/utils`), examples, docs, vendored libraries
(`static/include/kernels`, `3rdparty`), `python/aitemplate/utils/mk_*`: pure
functions from descriptions to text, or numerical kernels. What they do at run
time is kernels on a stream, which the models have.

## 2. Plan

Done, in this order:

1. `ModelPool` with its abstract specification `ModelLease`, and
   `ModelPoolProofs`: the part of the runtime with the most concurrency.
2. `ConstantBuffers`: weights, folding, swapping.
3. `MemoryPlanning`, then `PlannedRun`, which executes a plan on several
   streams, and `MemoryPlanningProofs`: first the placement, then the schedule, the
   records and the whole run.
4. `OutputBinding`: views and outputs; `OutputBindingProofs`.
5. `TaskRunner` and `ProfilerRunner`, the two runners of profilers, composed by
   `Profiling` with the choice of kernels and the database; `ProfilingProofs`.
6. `BuildCache`: several processes that store, evict and copy the same entry, and
   `BuildCacheProofs`.
7. `ElementwiseFusion`: the graph pass with the most intricate state;
   `ElementwiseFusionProofs`.
8. `PythonModel`, the references that keep constants alive, on top of
   `ConstantBuffers`; `PythonModelProofs`, about both.
9. `Recursion`, what the proofs about recursive functions share. With it every invariant
   and every action property that a passing run checks is a theorem, for all values of
   the constants or under the hypotheses that section 5 names.

Left:

10. The hypotheses of section 5 that are narrower than the code's own conditions: several
    workloads of a GEMM (`OneWorkload`), several views of an internal tensor whose first one
    is no output (`OneViewEach`).
11. Other passes with state of their own: `transform_memory_ops.py` (moves of
    split and concatenation), `split_large_*`, and device memory that
    `compiler/model.py` allocates for numpy arrays (`_allocated_ait_data`, `close`).

The number of runs is kept small: runs that only demonstrate a divergence of
section 6 make room when a component is added; section 6 says how to see them.

## 3. Modules

```
ModelPool  --implements-->  ModelLease          ConstantBuffers  <--extends--  PythonModel
   |                                                                               |
   +-- MCModelPool, ModelPoolProofs                MCPythonModel, PythonModelProofs+

MemoryPlanning  <--extends--  PlannedRun         OutputBinding
                                 |                  |
                                 +-- MCPlannedRun   +-- MCOutputBinding
                                 +-- MemoryPlanningProofs (R)
                                                    +-- OutputBindingProofs (R)
Profilers <-- TaskRunner ------+
          <-- ProfilerRunner --+-- Profiling     BuildCache    ElementwiseFusion
                                      |              |                |
                    MCProfiling ------+              +-- MCBuildCache +-- MCElementwiseFusion
                    ProfilingProofs (R)              +-- BuildCacheProofs
                                                                      +-- ElementwiseFusionProofs (R)
(R): also extends Recursion
```

The line behind each definition is in `PROJECT.json` ("map").

### `ModelPool`

| Code | Model |
|---|---|
| `available_models_`, `pending_models_` | sequences `available` (a stack) and `pending` (a queue) |
| `constants_sync_mutex_` | `readers`, `writer` |
| `models_mutex_` | none: each critical section is one action |
| `pending_models_available_` (condition variable) | threads at `pc = "asleep"`; `NotifyOne` moves one of them, `SpuriousWakeup` another |
| device streams | `queue`, one FIFO per stream; `DeviceFinishes` |
| `run_finished_` | the flag `latest` of queued work: the last `EventRecord` of the Model follows it; `IsPending` is `QueryEvent` |
| a thread inside a call | `pc`, `op`, `stream`, `held`, `todo`, `boss` |
| the flow of `Run`, `Benchmark`, `Profile`, `SetConstant`, `FoldConstants` | `Call` / `LockShared`, `LockUnique`, `Relock` / `WaitForAllModels`, `SetConstant`, `FoldConstants` / `TakeAvailable`, `TakeFinished`, `WaitForOldest`, `OldestFinished` / `ModelRun`, `ModelProfile` / `PushPending`, `NotifyOne`, `StreamDone` |
| `Benchmark`'s worker threads | `Spawn` takes idle threads, `Join` waits for them under the caller's lock |
| exceptions | `FoldThrows`, `WaitThrows`, `PrepareThrows`, `RunThrows`, `CreateEventThrows`; each runs the code's handler |

Waits happen between two actions, so whatever another thread can do with the
mutex released is explored. `ReclaimFinishedModels` keeps the order
`std::stable_partition` gives. Kernels have no content; a Model's graph mode,
its output shapes and what `Benchmark` reports are left out.

`ModelLease` is the promise of the pool: an idle Model is lent to one user,
works only for that user, and is lent again only when it is idle. `ModelPool`
maps to it with `leases` = who holds a Model between taking and pushing it, and
`busy` = the Models with queued work.

### `ConstantBuffers`

The same container seen from its data. `active`, `bufferState`, `foldedOnce`,
`staged` (`model_constants_`) are the fields of the code; `slots` and `output`
the contents of the two buffers; `models` and `folder` the address tables. There
is one constant for each of the four classes the code distinguishes (of the
Models or of the folder; bound, in a buffer, or unbound, in the client's memory),
and a version number for its value. An inference is two kernels, one on the
constants and one on the folder's output, each queued with the addresses the
table has at that time and executed later, so that an update between queueing
and executing shows. `SwapModels` is one turn of the two loops of
`SwapConstants`. Pool and locks are those of `ModelPool`, here reduced to
`Drained`: an update in place waits until no inference runs.

The library takes the stream of a session from its caller, and there are two callers.
The Python `Model` passes none, so all sessions are on the default stream: the queue `"update"`,
`Destroyed = {}`. `AITModelImpl` makes a stream for each session and destroys it when
setting throws (`AITModelImpl.cpp:635-643`); what it still holds is then ordered with nothing.
`SubmitCopy` has both: with a name in `Destroyed`, the work of a broken-off session moves to a queue of
its own. `SetManyConstants(C)` in place and `SetManyDoubleBufferConstants(C)` may throw
after the constants `C` of `Interrupted`.

### `PythonModel`

The class `Model` of `compiler/model.py` in front of that container. `tensors` is
`torch_constant_tensors`; a tensor is known by the version of its contents. The
`set_*_with_tensor(s)` methods store references first and call the library then:
`SetManyConstantsWithTensors` and
`SetManyDoubleBufferConstantsWithTensors` are the loops, `call` the call that is
about to be made, `CallSetManyConstants` and `CallSetManyDoubleBufferConstants`
the library, which may throw half way. `ConstantRefused` is the `ValueError` of
either loop at a tensor that is not contiguous on the GPU: the tensors before it are
stored and never handed on (`Refused`). The same holds for those that a call in place has
not reached when it throws. `FoldAndSwap` and `Others` pass the
container's other steps through. The client keeps no reference of its own,
so the dictionary alone decides what lives.

### `MemoryPlanning` and `PlannedRun`

`MemoryPlanning` is the planner: `ScheduleSequential` or `ScheduleParallel`
(groups of one round, at most `MaxParallel` operators), one usage record per
tensor, then the loop of `_greedy_by_size_memory_planning`, one record per step
(`TakeLargest`, `ScanRecord`, `Place`), and the offsets of views. Orders the code
does not fix (records of equal size; a Python set of operators) are choices. Graphs are those
that `toposort` returns (`SortedAssumption`): every tensor in them is made by an operator,
before the operators that read it.

`PlannedRun` extends it by the execution of the plan. `StartOperator` and
`FinishOperator` interleave over the streams of a group, `JoinGroup` is the wait
of the base stream for the events of the sub-streams. `memory` says for each unit
of the block which tensor's bytes are there and who wrote them: a kernel may
write from its start to its end, so its outputs are written at the start and its
inputs are looked at until the end. `Scratch` is the slices of scratch memory that the
generated constructor computes.

### `OutputBinding`

`MarkParamTensor`, `MarkSpecialViews` and `AppendAllTensors` are the three
passes; `RunImpl` writes each computed tensor where its pointer points to,
`DeviceToDeviceCopies` does the copies at the end of a run. `client` is what each
output's memory holds. A view comes after the tensor it is a view of and is no input or
constant itself (`BindingAssumption`: the order of `sorted_graph`).

### `TaskRunner`, `ProfilerRunner`, `Profiling`

The code has two runners. `TaskRunner` is `BaseRunner` as `softmax` and its like
use it: one thread sweeps over a list of tasks. `ProfilerRunner` is the class of
that name for GEMMs: a thread pool, a queue of devices, a callback per profiler.

| Code | Model |
|---|---|
| `_dev_stats`, `_queue`, `_finished_tasks`, `all_finished` | `busy`, `queue`, `finishedTasks`, `allFinished` |
| one turn of the loop over `_queue` in `join` | `SkipTask`, `StartTask`, `PollTimesOut`, `PollEnded`, `PollRunning`; `at` is the position |
| `current_time`, read once per sweep | `seen` of each task; its true `age` goes on with `Tick` |
| a subprocess | `proc` and `out`; it may end with a time, with an error message, or never |
| `pull`, `process_task` | `PullTask`, `Ret` |
| `run_task` on a thread of the pool | `TakeFuture`, `GetDevice`, `LaunchRaises` (a failed attempt), `ProfilerEnds` |
| `callback_when_done`, which runs when the future already counts as done | `Collect`, `Signal` |
| `join` with its two timeouts | `WaitReturns`, `WaitTimesOut`, `GetDone`, `GetTimesOut` |
| the attributes `exec_path` and `split_k`, the database, what is committed of it | `algo`, `splitK`, `cache`, `saved` |
| `_should_build_profiler`, `profile`, `postprocess_results` | `StartCompile`, `NormCached` to `GemmsDone`, `Postprocess` |

`Profiling` extends both and adds `profile` of a graph, one graph after the
other, so that later ones find what earlier ones stored. A `Crash` keeps what
was committed. A measured time is a small number. A workspace, the text of a
profiler's output and the attributes that make up a key are left out: a key of the
database is a value.

### `BuildCache`

Each operation on the file system is an action of a process: `CheckAge` and `Touch` for
`maybe_cleanup`, with nothing between them that keeps another process out; `ScanDir`, then for each
directory `NextDir` (`isdir`), `KeepDir` or `EvictDir` (`getmtime`), and `OpenVictim`,
`DeleteFile`, `RemoveDir` (the steps of `rmtree`) for `cleanup`; `Look`, `List`,
`CopyFile`, `Hit` (`os.utime`) for `retrieve_build_cache`; `MakeTmp`, `FillTmp`,
`Rename` or `RenameConflict` for `store_build_cache`; `Make` and
`MakeFails` for `_run_make_cmds`. `CleanupRaises` and `RetrieveRaises` are the `OSError`s that nothing
catches: the directory or a file of it has gone, or there is something in it again.

`dirs` has entries and temporary directories alike, and a cleanup looks at both. A file's
content is the key of the sources it was built from, so a stale or foreign artifact shows. A
build starts in a directory that holds the artifacts of the build before. `old` says which
directories' modification times are past the retention, the history `used` which entries were stored or
retrieved since, `torn` which entries a cleanup has begun to delete. `lost` are the processes that have a
directory open which has gone from its name; `raced` marks a process that was copying from or
evicting a directory when another one changed it. One assumption on time is in the
guards: filling a temporary directory takes less than the retention (72 hours). `scandir` is a
snapshot, and the removal of a temporary directory after a conflict (`rmtree` with `ignore_errors`, right
after it was filled) is one step. `rmtree` is that of Python before 3.13, which
raises when a file to unlink is missing.

### `ElementwiseFusion`

`SimpleDisjointSet.add` is `Add`, one `Merge` per dependent in any order (it is a
Python set), and `Added`. `FuseGroup` is one turn of the loop of
`fuse_elementwise`: `PartsOf` splits the group by the shapes of its outputs, `FusedOp` computes inputs
and outputs of a part from the graph as the earlier groups have left it, and `Asserted`
are the assertions of `_get_inputs_outputs`, those on `src_ops` and `dst_ops` included, and the one of
`_collect_info` that a topological order is found. `Sort` keeps the tensors that
`toposort` reaches and `sanitize_sorted_graph` does not remove. An operator is
elementwise or not; what it computes, and constant numbers as inputs, are left out. An
operator is an output of the model or read by another one (`FusionAssumption`), because
`sorted_graph` holds what `toposort` finds from the outputs (`compiler.py:226`).

## 4. Runs

| Run | What it shows | Bounds, and why they are enough |
|---|---|---|
| `PoolServing` | Models under `Benchmark` with workers, `Profile`, `Run` and `RunWithOutputsOnHost`: one owner each, none lost, idle when taken; the pool implements `ModelLease`; a check or a wait may fail once | a `Benchmark` with a worker and another call need 3 threads; counts 1 and 2 are the last and a middle iteration; 2 streams: runs finish in any order |
| `PoolErrors` | every error path, two failures, around the first fold: one owner, and the first fold happens once | 2 threads see `constant_folded_once_` unset together |
| `PoolLiveUpdates` | constants set between inferences: only when nothing runs; every call returns | 3 threads, 1 Model: two wait at once; 4 calls: an inference, an update, and two inferences that compete for the Model the update put into both lists; one stream, see section 6 |
| `ConstUpdates` | sessions, one broken off and repeated, and updates in place, through the Python `Model`, beside inferences on 2 Models; tensors that are read are held | 3 versions: one broken off, its repetition, and a session after the swap, which uses the first buffer again; `Accepted`: a `ValueError` after an unbound constant of the Models; `Interrupted`: the library throws after one unbound constant of the Models and one bound constant of the folder, in a session or in place; the sessions share a stream |
| `PlannedRun` | plans never overlap, inputs stay intact, scratch is apart, in both modes | 4 operators and 4 tensors with sizes 1 and 2: long lives around short ones, gaps to fit and not to fit, one view, one split, one join, 2 results; groups of 3 on 2 streams: one stream gets two operators |
| `OutputBinding` | outputs arrive, on all graphs where an internal tensor has one view at most | 5 tensors: a view of a view of an output or input, with a tensor beside it |
| `Profiling` | devices are not shared, results are complete before the choice, what is chosen and kept was measured, profiling ends | 3 graphs: two GEMMs, one with two splits; then a hit of one of them beside a norm; then a hit of the norm. 1 and 2 devices, 2 configurations, times 1 and 2, failing profilers and launches with 2 attempts, join timeouts, a timeout of one tick, crashes at any time |
| `BuildCache` | artifacts fit, entries are whole, only unused ones are evicted, an error of the cache needs another process in the same directory | 3 processes, 2 keys, 2 temporary directories, 2 files, 3 builds, 1 crash anywhere: two cleanups at once, a store that races a store or a cleanup, a retrieval during a deletion, what a crashed store or deletion leaves, a build in a directory with the artifacts of other sources |
| `ElementwiseFusion` | groups are convex, the assertions hold, one producer each | all graphs of 5 operators that read one or two tensors, with at most two unread tensors, one non-elementwise operator, one further output and one wide input: diamonds, branches around another operator, groups that are split by shape |
| `BugReuseAfterUpdate`, `BugBestLost`, `BugFusionCycle` | divergences, section 6 | the smallest instances that show them |

`MaxCalls`, `MaxIters`, `MaxFailures`, `MaxVersion`, `MaxBuilds`, `MaxCrashes` and the length of
`Graphs` in `Profiling` bound what clients do and how much fails; nothing else is cut. Threads and streams are symmetric in the runs that use
`SYMMETRY` (none of them checks liveness).
Deadlock is checked in the runs of `ConstantBuffers`. In the others
the system may stop, because clients need not call again and a compilation or a run
of a graph ends; that nobody is left waiting is `EveryCallReturns`.

What the properties of the passing runs say about the code:

* `OneOwner`, `NoModelLost` - the two lists and the threads share out the
  Models, one place each. Broken by a handler that forgets a Model or returns it
  twice, by `back()` without `pop_back()`.
* `NoReuseInFlight`, `ImplementsLease` - "Once an inference run has started, it
  is not safe to re-use the Model until the run has finished"
  (`main_templates.py:51`).
* `MaintenanceIsQuiet` - `WaitForAllModels` under the exclusive mutex really
  waits for all.
* `FirstFoldOnce` - the check is repeated after the shared lock was exchanged
  for the exclusive one.
* `EveryCallReturns` - waits for a Model, for the mutex, for workers and for the
  device all end.
* `ReadsWhatIsDue` - an inference reads the weights in effect when it was
  called, all of them, although addresses, contents and kernels change hands at
  different times.
* `SessionsWriteInactive`, `SwapInstallsOneGeneration`,
  `FoldedSessionIsSwapped` - a session stays away from the active buffer, and what it
  swaps in is complete and of one version. A broken-off attempt may come before it on the
  same stream; on a stream of its own it breaks this (section 6).
* `SettledTensorsAreHeld` - "to avoid lifetime issues caused by user misuse"
  (`model.py:244`): between updates, whatever a table or a queued kernel or copy
  points to is held, unless a `ValueError` or a call in place that threw half way has dropped
  its reference (section 6).
* `PlacedApart`, `BlobLargeEnough` - the greedy placement.
* `InputsIntact` - schedule, lives, views and placement together: at no moment
  of a concurrent run does an operator read overwritten memory.
* `ScratchApart` - slices of scratch memory neither meet nor leave the
  workspace (without operators that have scratch of their own, see section 6).
* `OneTaskPerDevice`, `OneProfilerPerDevice` - a measurement has its device to
  itself, whoever times out, fails or cannot be launched ("This queue is used to
  ensure only one task is executed on a device at a time", `profiler_runner.py:272`).
* `AllResultsIn` - "postprocessing in `join()` happens *after* done_callbacks
  complete" (`profiler_runner.py:274`), although futures are done before their callbacks.
* `ChosenWasMeasured` - over runners, delegate, database and crashes: no kernel
  is chosen for a problem it was not measured for, or for the output of a killed profiler.
* `FastestOnOneDevice`, `SplitKFits`, `UndecidedOnlyIfFailed` - the choice is
  the fastest, fits the operator's attribute, and is made wherever there is a result.
* `ProfilingEnds` - with profilers that hang, in both runners.
* `ArtifactsFit`, `EntriesAreWhole`, `EvictsUnusedOnly`, `CacheRaisesInRacesOnly` -
  "atomic update later to prevent race conditions in a distributed / parallel build
  setting" (`build_cache_base.py:516`), and the modification time as a mark of use.
  A build fails because of the cache only if another process has changed the very directory it was evicting
  or copying from: racing stores, and what crashed processes leave, fail nobody.
* `GroupsAreConvex`, `AssertionsHold`, `OneProducer` - the local test of
  `_detect_cycle` is enough for one group, and the surgery of one group leaves what
  the next one relies on: each operator is still the only producer of its tensor and among the
  consumers of what it reads.
* `OutputsDelivered` - three passes that each decide from local marks agree on where an
  output lives.

## 5. Fairness and proofs

**Fairness.** `EveryCallReturns` assumes weak fairness of each thread's `Step`
(the operating system runs what can run) and of each stream's `DeviceFinishes`
(kernels end). New calls, failures and spurious wakeups are not fair: nothing
relies on them. Weak fairness says nothing of a thread that finds a mutex
occupied again and again, but calls are bounded by `MaxCalls`, so only waits
that nobody would ever end count.

`ProfilingEnds` assumes weak fairness of the main thread and of the clock, so
that timeouts pass. Profilers and worker threads are not fair: a profiler may hang.
The property starts at the phase of the tasks and ends when profiling is over or has raised.

**Proved for all values of the constants** (TLAPS; any number of Models,
threads, streams, calls, failures, devices, profilers, processes, crashes; any graphs):

* `TypeCorrect`: `Spec => []TypeOK` of `ModelPool`. `TypeOK` is not inductive: that
  `PushPending` pushes a Model, and not the value "none", needs `HeldExactly` (a
  thread holds a Model exactly between taking and giving back), and `todo` stays
  a natural number by `Counting` (a Benchmark iterates only while iterations are
  left).
* `OneOwnerCorrect`: without `LiveUpdates`, `[]OneOwner`. `WaitForAllModels`
  copies Models into a second list, so the proof must show it never finds any:
  `Ordered` says that maintenance calls are over before the first inference and
  that the first fold comes before anything is pushed. The induction over the
  list operations rests on four lemmas about stack, queue and stable partition.
* `NoModelLostCorrect`: with live updates too, and any failure but that of the
  timing events of `Benchmark` (section 6), `[]NoModelLost`.
* `NoReuseInFlightCorrect`: without live updates and operators that throw half
  way, `[]NoReuseInFlight`. The pool asks one event per Model, the one recorded
  last, while the Model's work may be on several streams. `ReuseInv` says why
  that is enough: a Model in `pending_models_` is `Covered` (on each stream an
  event recorded last comes behind all of its work), one in `available_models_` has
  no work queued, and a thread in the middle of `Benchmark` or `Profile` has the Model's work on
  its own stream only.
* `PoolImplementsLease`: under the same assumptions `Spec => ImplementsLease`, each
  step of the pool being one of `ModelLease` or none. Taking a Model is
  `Acquire`, which needs `ReuseInv`: it must be idle.
* `MaintenanceIsQuietCorrect`: `[]MaintenanceIsQuiet` where it is true (section 6): without
  live updates, or with clients that share one stream and operators that do not throw
  half way. `LockedOut` says that a thread inside an inference holds the shared mutex, so that
  nobody waits for all Models meanwhile. `QuietInv` is about the loop of `WaitForAllModels`: a
  Model with work in flight is in `pending_models_` (`BusyKept`), its last event comes behind its
  work also while it is in both lists (`AllCovered`), and the Models the loop has passed
  stay idle (`WaitedFor`).
* `FirstFoldOnceCorrect`: whatever fails and whenever constants are set; `WaitInv` says
  that who is on the way to the first fold holds the exclusive mutex and that nobody has
  folded since it looked.
* `PlacedApartCorrect`, `BlobLargeEnoughCorrect`: in every plan, and at all times
  of a run. `PlanInvariant` has the inductive invariant `PlanInv`: the records
  are in the order of their offsets (`OffsetsSorted`), and in the middle of a
  scan `prevOffset` is behind all overlapping records seen so far, and the best
  gap is free of those before and of all those still to come (`ScanInv`). This
  is what the code relies on without saying so: it compares each record with its predecessor only, and the
  order makes that enough.
* `RunFollowsPlan`: every behaviour of `PlannedRun` is one of `MemoryPlanning`
  (`RunSpec => Spec`), which carries the two theorems over.
* `PlanningTypes`: the invariant `DetailInv` adds to `PlanInv` the schedule (`ScheduleInv`:
  producers come in earlier groups, operators of a group are of one round, groups come in the order of
  rounds) and the records (`RecordInv`: they are the first and last use that the schedule gives).
* `InputsIntactCorrect`: `RunInv` follows the memory during a run. What an operator
  has written is there until the last use of the tensor (`MemoryInv`); operators of other groups
  have run or have not started (`ProgressInv`). The step that matters is a start: what the
  operator writes is alive in the group that runs, as is each tensor that must survive, a view
  through the chain to its original (`AliveWhenUsed`), and `PlacedApart` keeps them apart.
* `ScratchApartCorrect`: if operators never run side by side, or if no graph has both shared and unique
  scratch memory. That is the condition under which the last slice ends inside the
  workspace (section 6); `ScratchGraphs` violates it.

* `ConstantTypes`, and, if sessions share a stream (`Destroyed = {}`), `SessionsStayAside`
  (`SessionInv`: nothing is left on the update
  stream when the buffers change roles, and the folder has moved before a
  session folds), for every policy of swapping.
* `FoldedSessionsSwap`, if sessions start after a first fold (`FoldFirst`), and
  `SwapsInstallOneGeneration`, if they also share a stream. `FoldInv` keeps folds of inferences and of sessions in their own
  buffers; `GenerationInv` follows one version through what is staged, the copies
  still queued (`Copied`), the slots and the folder's output. A session broken off
  half way leaves older copies in the queue, so the invariant is about the end
  of the queue: what comes last is of the newest version. That is where the shared stream is needed.
* `InferencesReadWhatIsDue`, if also `SwapPolicy = "drained"`: `ReadsWhatIsDue`. `ReadInv` is
  about all queued kernels at once: those of one inference have the addresses that were in
  effect when it was called (`QueueInv`), they are in order (`OrderInv`), and the
  tables, during a swap those the two loops have passed, hold what was given last (`TableInv`).
* `ModelDrivesContainer` (`ModelSpec => Spec` of `ConstantBuffers`) carries these over to the
  Python `Model`, whose sessions do share a stream; `TensorsAreHeld` (`SettledTensorsAreHeld`,
  assumptions of `InferencesReadWhatIsDue`): `HeldInv` says
  which version the dictionary holds before, during and after a session, against the one that
  tables, staged pointers and queued work have.

* `OneTask` (`OneTaskPerDevice`): the inductive invariant `TaskInv` says that a
  task that was started and has not ended has a device of its own that is marked
  busy, that ended tasks are known by their index, and that indices are distinct:
  without the last, `SkipTask` would leave a task running that counts as finished.
* `OneProfiler` and `ResultsIn`: the invariant `PoolInv`. `DeviceInv` says devices in the
  queue and at workers are distinct. `FutureInv` ties each running future to one
  worker. `Counted` is the argument of `join`: the items in `_done_queue` and those
  already taken count exactly the futures whose callback has signalled, so `join`
  gets its last item only when all have. Counting needs the cardinality theorems
  of the library.
* `Measurements` (`ChosenWasMeasured`), if failing profilers write to stderr
  (`Silent \notin Faults`): `ChoiceInv` follows a time from the process that printed
  it through results, instances and the choice into the database and back. That the
  choice, a `CHOOSE` of a minimum, exists is proved by well-founded induction.
* `ProfilingTypes`: `[]TypeOK` of the composition, from `TaskInv`, `PoolInv`, and what is known
  of jobs, results and choices.
* `FastestWithOneDevice`: `FastestOnOneDevice` for every input. On one device results arrive in the order
  of submission, so those of a workload are neighbours (`OneDeviceInv`), which is what `itertools.groupby`
  needs; `InGroup` and `GroupChoice` are the lemmas about its groups.
* `UndecidedIfFailed`, `SplitIsMeasured`: `UndecidedOnlyIfFailed` and `SplitKFits`, if a GEMM has at most one
  workload (`OneWorkload`; false otherwise, section 6). `VisitInv` says which GEMMs the walk over the graph
  has passed, and that each of those is decided or has its jobs submitted.
* `Typed`, `EvictionsAreDue`, `WholeEntries`, `FittingArtifacts`, `RaisesInRacesOnly` of
  `BuildCache`, wherever processes crash and however many clean up at once. The invariant `IInv` says that an
  entry is complete unless someone has begun to delete it (`Whole`), that an old entry is unused
  (`OldIsUnused`), that each process fills a temporary directory of its own which no
  cleanup finds old (`Filling`), and where a process stands with its copies (`Building`) and deletions
  (`Cleaning`): without a race, the files it has still to copy and those copied make up
  the artifacts of its key, and the files it has still to delete are what is left in the directory.

* `FusionTypes`, `GroupsStayConvex`, `NoAssertionFails` and `EveryTensorHasOneProducer`: the properties
  of `ElementwiseFusion` for every graph, with no further hypothesis, from one invariant
  `FusionInv`. While groups are built they are disjoint (`Disjoint`) and convex in the original graph
  (`Grouping`); `AncestorsClosed` shows that the search for ancestors is a transitive closure,
  so the test for a cycle misses none. While groups are replaced the graph is partly
  the old and partly the new one. `Fusing` says what is still true of it: `src_ops` and
  `dst_ops` agree, the members of a group that is left are untouched and needed by someone, and a tensor that
  nobody makes any more is needed by nobody. The assertions (both fields name the operator, the inputs and
  outputs found twice agree, the sorted graph has what is read) and the single producer follow from
  that; neither is inductive without it, nor without the sorting that gives the pass only operators on the way to an output.
* `OutputsAreDelivered`: `[]OutputsDelivered` for every graph in which an internal tensor has one view
  at most (`OneViewEach`; false without it, section 6). `BindInv` says that each pass
  has found what the graph determines; `IndexTravels` follows the output index up a chain of
  views to the tensor that a kernel makes, and `WrittenOnce` says that one tensor is written to each
  output's memory.

**Recursion.** `Original`, `Round`, `UniqueOffset`, `Ancestors` and the marks of `OutputBinding` are recursive functions
over numbers. The prover has no induction to instantiate, so `Recursion` takes a way round: a set of
numbers that is not empty has a least element (well-founded induction of the
library), hence a statement about a recursive function that fails has a least counterexample. That
a recursively defined function satisfies its equation is shown the same way (`RecursiveFunction`): of the bounds up
to which no function satisfies the equation there would be a least one, and a solution below it extends to it. `LevelsClose`
is a further case: levels of a search that grow within a finite set stop growing
after as many levels as the set has members.

Assumptions are `ConstantsAssumption` and `ProfileAssumption` of `ModelPool`,
`ConstantsAssumption` and `UpdatesAssumption` of `ConstantBuffers`, `AcceptedAssumption` of `PythonModel`,
`GraphsAssumption` and `SortedAssumption` of `MemoryPlanning`, `ExtraStreamsAssumption` of `PlannedRun`,
`BindingAssumption` of `OutputBinding`, `ProfilersAssumption`, `RunnerAssumption`,
`PoolAssumption`, `GraphsAssumption`, `ProfilingAssumption`, `JobsAssumption` and `NoAlgoAssumption`
of `Profiling` and what it extends, `CacheAssumption` of `BuildCache`, and `FusionAssumption` of
`ElementwiseFusion`, all evaluated in the runs.

**Only model-checked.** `EveryCallReturns` and `ProfilingEnds`: liveness under fairness is not in
the prover's reach. What `Sorted` of `ElementwiseFusion` computes (that the sorted graph keeps every output
is false, `BugFusionCycle`) is used in the proofs only as far as its type.

## 6. Divergences

With a run, and what they say against the code's documentation (quoted in
`PROJECT.json`):

* `BugReuseAfterUpdate` - `WaitForAllModels` leaves each Model in
  `pending_models_` and also pushes it to `available_models_`. After a
  `SetConstant` that follows an inference, two calls get the same Model.
* `BugBestLost` - `postprocess_results` groups with `itertools.groupby`, which
  gathers neighbours only, what is in the order of completion. On two devices the
  splits of two GEMMs come interleaved, and the last run of neighbours wins in the graph, the
  first one in the database, whichever is faster.
* `BugFusionCycle` - `_detect_cycle` tests one group. Two groups may depend on one
  another; fused, they are a cycle, sorting drops everything, and the outputs
  are missing from the graph that `fuse_elementwise` returns. (Compilation then stops in
  `_verify_outputs_still_in_graph`, `compiler.py:79`.)

Without a run. Each is found by changing the named constant or property in the
named configuration:

* Error paths give a Model back to `available_models_` and notify nobody, and
  the waiting predicate asks only for `pending_models_` (`MC:135`). With one Model, a caller
  sleeps on: `PoolLiveUpdates` with `FailureKinds = {"prepare"}` and
  `MaxFailures = 1` violates `EveryCallReturns`.
* The first double-buffer session of a container that has never folded ends in a
  refused swap, reported as success (`MC:619`): `ConstUpdates` with `FoldFirst = FALSE`
  violates `FoldedSessionIsSwapped`.
* The last sub-stream's slice of shared scratch memory ends behind the
  allocation when operators have unique workspace too (`main_templates.py:196`): `PlannedRun` with
  `Graphs <- ScratchGraphs` violates `ScratchApart`.
* The earliest view of an internal tensor decides whether it counts as alias of
  an output (`mark_param_tensor.py:70`); if it is none, a later one that is an output is never
  written: `OutputBinding` with `Graphs <- OneOutputGraphs`.
* An operator that throws half way leaves kernels in flight without an event
  and the Model in the pool (`MC:136`): `PoolServing` with `"midrun"` added to
  `FailureKinds` violates `NoReuseInFlight` and `ImplementsLease`.
* A failing event creation in `BenchmarkImpl` loses the Model (`MC:867`):
  `PoolErrors` with the invariant `NoModelLost`.
* Folding is queued, and the mutex given up, before it is executed (`MC:641`):
  an inference on another stream reads half-folded constants. `PoolErrors` with
  two streams violates `NoInferenceWhileFolding`.
* After live updates, one Model in both lists also defeats the wait of the next
  update, if clients use two streams: the last event of the Model says nothing of
  its work on the other stream. `PoolLiveUpdates` with two streams and
  `MaxCalls = 5` violates `MaintenanceIsQuiet`; on one stream it holds, because
  the stream's order makes the last event cover all earlier work.
* `SwapConstants` changes the tables of Models that `Run` is using (`MC:670`):
  `ConstUpdates` with `SwapPolicy = "any_time"` violates `NoTornRead` even
  without updates in place (`InPlace = {}`).
* A session after a swap overwrites the buffer that kernels queued before the
  swap still read: `SwapPolicy = "between_calls"` violates `ReadsWhatIsDue`. The
  double buffer takes effect as documented when the client swaps with no
  inference in flight.
* With `FoldFirst = FALSE` the first inference reads weights of a session that
  was never swapped in: the folder's buffer has moved, and the first fold of `Run`
  writes what nobody asked for (`AITModelImpl.cpp:592` says the weights "will
  not take effect until swapConstants is being called"). `ReadsWhatIsDue`.
* The Python `Model` replaces its reference before the library is called, and the
  kernels and tables that still point to the old tensor follow only at the swap, or after the
  wait of an update in place (`model.py:873`, `:888`); a `ValueError` half way replaces
  references to tensors that stay in use for good, and so does a call in place that sets some constants
  and throws at a later one (`MC:473`, the checks at `MC:381`). The references are there "to avoid lifetime issues
  caused by user misuse" (`:244`), but the client has to keep the old tensors that long.
  `ConstUpdates` with the invariant `ReadTensorsAreHeld` shows it, with `Accepted = {}` and
  `Interrupted = {}` too; `SettledTensorsAreHeld` excepts what was refused.
* Two folds in place set `buffer_state_` to `CONSTANTS_FOLDED`; a
  `SwapConstants` by itself then installs a buffer nobody has written. The
  client of `ConstantBuffers` swaps only after a session.
* Of two outputs that are views of one internal tensor, one memory is written:
  `OutputBinding` with `Graphs <- AllGraphs` and two outputs. The comment at
  `codegen.py:326` knows that only one index is handed on; nothing copies the
  other output.
* A GEMM with two workloads of which the first is cached: `profile` returns at
  it (`gemm_common.py:748`) and the second is left without a kernel. `Profiling` with
  `Graphs <- TwoWorkloads` and `Faults = {}` violates `UndecidedOnlyIfFailed`.
* A profiler that dies without a word has the result `("", 0, 0)`: `process_task`
  sets `_ret` although it failed, and `pull` looks at `_ret` only (`profiler_runner.py:95`; its
  docstring promises "all successful tasks"). The duration 0 wins, and is kept in the database.
  `Profiling` with `Faults <- AllFaults` violates `ChosenWasMeasured`.
* Normalisation operators compare whole `ProfileResult` tuples
  (`softmax.py:294`), so the name of the kernel comes before its time;
  `profile` "selects the fastest". `Before` of `TaskRunner` has this order, and
  no property is claimed of that choice.
* After the last failed launch the device is not put back
  (`profiler_runner.py:237`). With one device the next future of the pool waits for
  ever: `join` raises, but the process, which waits for its threads when it exits, does
  not end. In the model `EndProcess` stays disabled.
* The callback of a profiler without a result raises inside the executor, which
  logs it: nobody is told that a split was not measured.
* A build that copies an entry while another process deletes it, or after one has died
  deleting it, gets a part of it and reports a hit: the invariants `ArtifactsFit` without `~raced[p]` and
  `EntriesAreWhole` without `\ torn` are violated in `BuildCache`. (The deletion also renews the modification time.)
* Cleanups make builds fail. `maybe_cleanup` reads the age and touches the file in two steps
  (`build_cache_base.py:568`, `:577`), so two processes may clean up at once, and neither `getmtime` (`:585`)
  nor `rmtree` (`:591`) tolerates what has gone: the `FileNotFoundError` leaves
  `retrieve_build_cache`. One cleanup is enough, if a store renames its temporary directory between `isdir` and
  `getmtime`. `BuildCache` with the invariant `CacheNeverRaises` shows it.
* A retrieval between `getmtime` and the unlinks of `rmtree` does not save the entry, although
  its modification time is new again: `BuildCache` with the property `DeletesUnusedOnly`.
* `AITModelImpl` gives each session a stream (`AITModelImpl.cpp:635`) and destroys it without waiting
  when setting throws. The copies of that session may come after those of its repetition and even
  after the swap, into the buffer in use ("This call should only set the unused buffer", `:590`).
  `ConstUpdates` with `Destroyed = {d1}` violates `SessionsWriteInactive`,
  `SwapInstallsOneGeneration`, `ReadsWhatIsDue` and `SettledTensorsAreHeld`.
* Elementwise operators around a broadcast with a residual connection: a part
  may have outputs of two shapes, and `fused_elementwise` raises. The graph is `op1`,
  `op4 = f(op1)`, an operator `z` on `op4` that is not elementwise, `op3 = op1 + z`, and
  `op2 = op1 + wide`; the phase is then "shapes differ".
* Read, not modelled: two tasks with one index make `BaseRunner.join` loop for
  ever (`task_runner.py:272`; `ProfilingAssumption` has distinct ones). `_run_make_cmds`
  passes its timeout as the input of the process (`builder.py:160`), so make has
  none. `process_return` of `builder.py` raises only when a task is *not* timed out, its docstring
  says timeouts raise (`:214`). Removing an operator that does nothing between two
  outputs loses one of them (`transform_utils.py:205`).
* Read, not modelled: `WriteAllConstantNamesTo` takes the wrong one of two
  counts in its check for a null pointer (`MC:706`).

## 7. Not modelled

* `cpu_memory_fusion.py`, which rewrites the graph before planning on the CPU,
  and `naive_memory_planning`, which nothing calls.
* The grouping of operators is computed twice, by the planner and by code
  generation, each from a Python set. The models use one grouping; if the two
  orders differed, operators would run in other groups than planned for.
* `Profile` against maintenance calls: it takes no `constants_sync_mutex_`, so
  together they race on the lists themselves (`ProfileAssumption`).
* Graph passes that rewrite operators by patterns (other fusions, split,
  concatenation, dead code, constant folding at compile time): their correctness is the meaning of some
  200 operators, not an order of events. `fuse_elementwise` is the one whose
  correctness is about the graph alone.
* The order in which `toposort` returns a graph: any topological order is
  allowed. Forced and dummy profiling results, the tables and versions of the
  database, ROCm's profilers with several results per task.
* What a killed process still does on its device: `kill` returns before the
  process is gone (`task_runner.py:138`), and the device is idle at once.
* Kernels, their generation and their numerical results; dynamic shapes, which
  the planner reduces to their largest size before it starts.
* The C interface and the standalone driver: forwarding and input and output.
* Python `Model`, other than the tensors of constants: one thread; the handle, the device memory of numpy arrays
  and the library are closed together, once. CPU runtime: a loop's thread pool and thread-local
  memory under numerical kernels.
* Most of the repository by size is generated text, kernels, converters between
  front ends and tests (section 1): pure functions, for which a state machine
  would say nothing.
