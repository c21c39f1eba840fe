# HeteroAccel in TLA+

HeteroAccel is a C++ runtime that runs language models on heterogeneous
hardware: it analyses a model file and plans where it goes, keeps its regions
resident in RAM and on an accelerator, schedules work on CPU, Vulkan and CUDA
workers, and runs inference through llama.cpp or its own engine (HydroXL). This
directory models the parts of it that keep state, decide something or are shared
between threads, checks them with TLC on small instances, and proves the most
important results for all instances with TLAPS. Paths below are relative to the
repository's `src/` unless they say more.

## Inventory

| Component | State it keeps | Operations | What makes it hard |
|---|---|---|---|
| Model residency (`model/ModelResidencyManager`) | a record per region: state, RAM and accelerator buffer, pins, last use, `transferring`; byte counters | `ensureResident`, `prefetch`, `pin`, `unpin`, `evict`, `releaseAll` | every step of a load or upload may fail after others have taken effect; making room evicts other regions |
| Runtime (`inference/HeteroRuntime`, `scheduler/WorkloadRegistry`, `engine/LlamaCppExecutionEngine`, `llm/LlamaCppEngine`) | the engine and placement of each model path, workload entries with cancel flags, the count of users of the llama.cpp backend | `generate*`, `loadModel`, `unloadModel`, `shutdown`, `initialize`, `cancelWorkload` | two levels of locks, an engine used outside the lock it was fetched under, cancellation from any thread |
| Model streaming (`model/ModelManager`, `StreamingEngine`, `PrefetchEngine`, `ResourceResidencyManager`) | residency and memory block of each resource | `executeLayer`, `loadToWarmAsync`, `promoteToHotAsync`, `evict` | asynchronous tasks that meet on one resource, with nothing but a compare-and-set between them |
| Planning (`analysis`, `planner`) | none: a plan is a function of file, machine, registry and configuration | `inspect`, `discover`, `analyze`, `plan` | thresholds, roundings and an order of fallbacks |
| Plan residency adapter, region extractor, graph builder (`model`, `execution`) | the regions, the graph being built | `apply`, `extract`, `build` | each translates the plan for itself; loads fail, the caller cancels |
| Policy and tuning (`scheduler/ExecutionPolicyEngine`, `AutoTuner`, `PerformanceHistory`, `profiler`) | the exploration of each key, averages, the saved profile | `selectStrategy`, `suggestConfiguration`, `recordResult` | requests that overlap share one exploration |
| Execution graph (`execution/ExecutionGraph`) | nodes, adjacency and reverse adjacency | `addNode`, `addDependency`, `validate` | cycle detection over hash maps |
| Graph scheduler (`execution/ExecutionGraphScheduler`) | a tracker per node, resources in use, futures | `execute` | failures, exceptions and cancellation among running tasks |
| Workers (`scheduler/AdaptiveScheduler`, `CostModel`, `CPUWorker`, `VulkanWorker`, `CUDAWorker`) | queues, jobs, handles, threads | `schedule`, `wait`, destruction | condition variables, overlapping handles, stopping |
| Plugins (`plugin/PluginLoader`) | the plugin cache, module handles | `plugin_discover`, `plugin_load`, `plugin_execute`, `plugin_unload` | discovery loads modules outside the mutex |
| Memory manager (`mem`) | allocators, pools, active blocks | `allocate`, `release`, `move`, `enforcePressureLimits` | eviction under the callers' feet, two allocators with one key space |
| Orchestration (`orchestration`) | registered backends, performance history and profile | detect, estimate, select and create an engine, record, save, load | fallbacks; what was measured with one model steers the choice for another |
| SDK (`sdk`) | runtime, model and session handles with cancel flags | `ha_*` | cancellation that meets a call, detached saves of copies taken without the mutex, restarts |
| HydroXL engine (`hydroxl`) | model, KV cache, tokenizer | load, execute, shutdown | contradictory files, threads that decode one tensor, what an earlier call left in the cache |
| HydroXL formats (`hydroxl/GGUFLoader`, `HydroXLDequant`, `HydroXLTokenizer`, `HydroXLSampler`) | none | parse, decode, encode, sample | widths of integers, packed bit fields, look-ahead rules, ties |
| Vulkan (`gpu/VulkanBackend`, `hydroxl/VulkanTensorOps` and their clients) | Vulkan handles, buffers, scratch buffers | initialize, buffers, dispatch, shutdown | any call may fail between two others |
| Command line (`cli`) | none that survives a command | `residency`, `graph`, `chat`, ... | composes the components above |
| Devices, primitives, file sources, JSON, bindings, plugin SDK | mostly none | | arithmetic, I/O, drivers, formatting |

They interact by calls. The command line asks the runtime to analyse and plan, and
hands the plan to the residency adapter (which calls the residency manager) or to
the graph builder (which fills an execution graph for the graph scheduler). The
runtime uses the policy engine, the tuner, the workload registry and execution
engines. `ModelManager` uses the streaming engine, which uses the memory manager.
The SDK uses the orchestrator, which creates an engine adapter over HydroXL and, on a
device, over the Vulkan tensor operations. `PROJECT.json` lists every component
with its status, the lines of every definition, and the hazards by line.

## Modules

A component has a module named after it; an `MC` module gives sets and functions
that a `.cfg` cannot write. Operators called "Mutant:" in their comments are faulty
versions of the definition that follows; nothing uses them, and
`PROJECT.json` says which property each of them breaks.

### ModelResidency and ResidencyCache

`ModelResidency` is `ModelResidencyManager` over `HostAcceleratorMemory`. All
public operations hold `mutex_` throughout, so there is one `call` in progress; its
steps are actions of their own, so that each early return is one: `Begin`,
`LoadStart`, `RamRoomEvict` (one turn of the loop in `makeRamRoomLocked`),
`ReadStart`, `ReadFails`, `ReadDone`, `UploadStart`, `AccelRoomDemote`, `Allocate`,
`CopyFails`, `CopyDone`. `pickLruLocked` is the set of regions that may be the
victim. Times of use are ranks. The sizes of sets of regions are the constant
`Bytes`, of which only additivity is assumed.

`ResidencyCache` is the abstract specification: a two-level cache with budgets
in which held regions are neither dropped nor demoted. `ImplementsCache` states
the refinement, with `inRam`, `onAccel` and `held` mapped to the buffers that
exist and the regions that are pinned.

### HeteroRuntime

Client threads with one request each, an administrating thread, and
cancellation from anywhere. `doGenerate` is cut where its locks are: `Enter`,
`Admit`, `Place`, `Reload`, `Create` under `mutex_`; `LockEngine`, `Evaluate`,
`GenerateTokens` under the engine's `engine_mutex_`; `Record` under `mutex_`
again. `isCancelled` and `setRunning` are two accesses of the registry, so they
are two steps. Engine objects live as long as something references them
(`shared_ptr`). A streaming request loads an engine of its own outside `mutex_`
and releases it when it ends; all loaded engines share one llama.cpp backend, which
`backendRefs` counts as `LlamaCppEngine` does and which is up while it is positive. The
placement that `resolveAndApplyConfig` computes is a free choice here (it is the
subject of `AutoTuner`). Clients let requests return before `shutdown`, as the
header's order of use says.

### ModelStreaming

One thread executes layers; its loads and promotions, the prefetches and the
clients' evictions run beside it. An asynchronous task is a slot of `task`.
Residencies change by the compare-and-set of `tryBeginTransition`, one step each,
and blocks are allocated and released between.

### CommandLine, over CapabilityAnalyzer, ExecutionPlanner, AutoTuner, ExecutionGraph

`CapabilityAnalyzer` has `inspect`, `discover` and `analyze` as operators: from a file
and a machine to requirements and a report. `ExecutionPlanner` has `plan`: the
candidates among the engines, the choices in the order the code tries them
(`Placements`), and the plan of the first. `CommandLine` runs one command per
behaviour. `residency` plans and then applies, region by region, with loads that
fail and a cancellation that may come between two; `graph` plans and builds node by node and
edge by edge, then validates; `apply` and `build` do the same with a plan that a client
made, among them the partial and hybrid ones for an accelerator that the planner never makes; `library` is a client that builds graphs in every
order with `addNode` and `addDependency` and validates them; `chat` makes requests that
overlap. In `ExecutionGraph` the recursive search of `validate` is a stack of its calls
(`search`): `detectCycle` calls `dfs` for a node not yet visited, `dfsLoop` is one turn
of its loop (with the call it makes), `dfsReturns` its return, `validateSucceeds` the end, and the
iteration order of the hash map is a free choice. `AutoTuner` is what these requests touch:
`selectStrategy` gives a ceiling on the layers, `suggestConfiguration` explores under it,
and the result is recorded when the request ends, with the file at the path
replaced or the process restarted (from the saved profile) in between. Measured speeds are faster or
slower.

### ExecutionGraphScheduler

The loop of `execute` over any graph: `Prepare`, `CheckCancel`, `Dispatch` (one node
of the for-loop), `StartPolling`, the outcomes of polling one future,
`Again` and `Return`; tasks end by themselves in one of three ways and `Cancel`
comes at any time. A task that throws leaves `execute` through `PollThrew` and
`Unwound`: futures of `std::async` are joined as they are destroyed. It uses the
graph's acyclicity and not the search: in every nonempty set of nodes one has no
predecessor. What `failDependentNodes` reaches is the least set that is closed
under successors that are still waiting. Both forms need no recursion, so that they can be
proved about.

### AdaptiveScheduler

Workers with a queue, a thread and condition variables (`WorkerSleeps`,
`WorkerTakes`, `WorkerRuns`, `WorkerNotifies`, `WorkerExits`), clients that schedule and
wait, and the destructor, which stops and joins the workers in turn. `schedule`
takes a backend that the cost model calls feasible, and which of several is cheapest is a
free choice; `scheduleToBackend` takes the one it is told. A wakeup reaches a
thread only if it sleeps. The three worker classes have the same code.

### PluginLoader

The entry, the module handle, the operating system's count of loads and the
plugin's own state. `plugin_discover` is three steps, of which only the last
holds the mutex; the other operations are one step each.

### MemoryManager

Blocks are an id, a kind (a pooled size or another), a location and a priority.
`freeInternal` returns a block to its pool or to its allocator. `enforcePressureLimits`
selects what to evict (`selectForEviction` gives the sequences the sort may produce among
equal scores) and holds the mutex while `evictNext` drops the blocks one by one
(`toEvict`); every other operation needs the mutex. Its specification is `ManagerSpec`, and that of
`VulkanClients` is `ClientSpec`, so that a module of proofs may extend each beside another component.

### HeteroAccelSDK, over HardwareDetector, MemoryEstimator, EngineOrchestrator, PerfProfile

The first four modules are operators: what `detect` finds on a machine, the
estimated bytes of a model, the score and choice of a backend, and `record`,
`load` and `save` of the profile. `HeteroAccelSDK` has client threads that share
sessions. A call is `Enter`, then `Sample` and `Callback` in turn (the adapter's
`run_stream`), then its last look at the flag and the recording of its speed. `ha_session_cancel`,
`ha_runtime_perf_reset` and `Restart` of the process come between any
two steps. The copy of the profile that a finished call takes, and the detached
thread that writes it, are steps of their own because no mutex covers them.

### HydroXLEngine, over GGUFLoader, HydroXLModel, HydroXLDequant, HydroXLTokenizer, HydroXLSampler, HydroXLForwardPass

`GGUFLoader` is `parse`: the checks of a file's counts, dimensions and offsets, with the
widths of their integers. `HydroXLModel` is `load`: which tensors are wanted, the sizes
compared, the head tied to the embedding. `HydroXLDequant` decodes a block of each
packed type, over blocks shorter than the real ones, beside the packing that the
format defines. `HydroXLTokenizer` is the byte map, the Qwen2 split with its
look-ahead and the merges; `HydroXLSampler` the choice of a token from logits;
`HydroXLForwardPass` the cells of the KV cache that one token writes and that
`causal_attention` reads. `HydroXLEngine` composes them: one public method
at a time (`EngineNext`; they hold `mutex_`), with the threads that decode a tensor and the client's
cancel flag beside it. What the arithmetic computes is a free choice among a few logits.

### VulkanClients, over VulkanBackend and VulkanTensorOps

A state of the backend is a record of what exists; an operation is a set of
outcomes, one for each Vulkan call that may fail and one for success, each
with what was created, destroyed and bound on the way. `VulkanClients` drives them: the engine
adapter (`initialize` upload by upload in `UploadWeight`, `run_stream` operation by
operation, destruction), or a host with `VulkanAcceleratorMemory` and the benchmark. `Weights` and
`forward_token` are the uploads and the operations of a model in the order of the code.

## What the runs check

| Run | Bounds | Shows |
|---|---|---|
| `residency` | 4 regions of sizes 1, 1, 2, 3; RAM 4, accelerator 2 | state and buffers agree (`ResidencyHonest`), counters are exact (`Accounting`), `true` means resident (`GrantedMeansResident`), the cache is implemented (`ImplementsCache`), calls return (`CallReturns`) |
| `runtime` | 2 requests, 1 model, 3 engines, 2 placements, 2 administrative calls | an execution owns its engine and the backend under it is up (`ExecutionOwnsEngine`), stored engines are usable (`StoredEnginesServe`), entries record the outcome and keep it; a CANCELLED one may be revived by its request's own `setRunning`, and never completes (`ExecutedEntriesEnd`), nobody blocks for good (`CallsReturn`) |
| `streaming` | 2 resources, 2 layers, 3 tasks, 1 evictor | resident resources have a live block (`BlockWhenResident`), no block is lost or shared (`NoBlockLost`), `executeLayer` returns (`LayerReturns`) |
| `planning` | files of 2, 7 and 40, with and without metadata; RAM 3, 9, 64; Vulkan absent, unreported, 3, 9, 64; 7 registries; 6 configurations; 10 strategies and modes of a client's plan with budgets 0, 4, 7 (of the two regions of the file of 7: none, either, both); 3 graph nodes; 2 overlapping requests, 6 results, 1 replacement or restart | `validate` is acyclicity and the in-degrees count the edges (`ValidateIsAcyclic`), an executable plan can be carried out (`PlanIsCarriedOut`), what is uploaded of the planner's plans and of partial ones fits (`UploadsFit`), the adapter and the builder ask for the same regions whatever loads fail, and differ in the places only where a client's partial or hybrid plan is for an accelerator (`OneReading`), a suggestion obeys the ceiling in force (`SuggestionObeysCeiling`) |
| `graph_scheduler` | every graph over 3 nodes, two of them on one accelerator | predecessors first, exclusive resources, exact failure propagation and a complete result, no task left, termination |
| `workers` | 2 workers, 2 clients, 2 workloads | results go to their own wait, no job is lost, waits return, the destructor drains and ends |
| `plugins` | 2 files, 2 discovering threads | loads and frees match (`LoadsAreFreed`); entry, handle and plugin agree (`LifecycleAgrees`) |
| `memory` | 2 handles, both locations, pools of 1, 3 allocations each, 2 blocks evicted at a time | entries are backed by memory of their own; memory and handles lose their entry by equal ids of the two allocators and by completed moves only, both of which happen (`MemoryHasOwner`) |
| `sdk` | 2 threads, 2 sessions, 3 machines, 2 model files, 2 new tokens, 2 calls, 2 opens, 1 event | a streaming call stops within a token of a cancellation (`StreamStopsSoon`) and says so (`CancelReported`); neither profile nor file claims measurements nobody made (`NoFabricatedSamples`); a session is on the device only where the model fits (`VulkanOnlyWhereItFits`) |
| `hydroxl` | 15 files (7 types, truncated, contradictory, near the widths, a text that begins with a token of its own, byte tokens marked as control tokens), texts up to 3 characters, a context of 5 | attention reads exactly the call's history (`AttentionReadsHistory`), a loaded model holds all that is read (`LoadedMeansUsable`), blocks decode to what was packed (`DecodedAsPacked`), tokens stand for the text (`TokensStandForText`), no call overruns the cache (`NoCallOverrunsCache`) |
| `hydroxl_layout` | two KV heads | finding: the cache is written in one layout and read in another |
| `vulkan` | 4 lists of devices, 2 models, every call may fail | what exists is what is owned (`HandlesOwned`); a bound buffer is as large as what its shader goes through (`DispatchFits`) |

Why the bounds are enough. *Residency*: with these sizes a load may need two
evictions, or find none to make; an upload may need two demotions, while a
bystander is in RAM only; r4 never fits on the accelerator. *Runtime*: two
requests are needed to wait for one engine, a third engine for the one just
created while two old ones are still referenced; two administrative calls are
an unload or shutdown followed by a load or initialize. *Streaming*: the layers
share a resource, so that a prefetch, the executing layer and the evictor meet
on it; the block pool is as large as the set of resources, so a leaked block
shows as a failed allocation as well. *Planning*: the sizes lie on both sides of
each threshold (fits, fits partly, rounds to no layer, to all of them), and
each registry lacks another engine or backend. Six results are enough to pass
the tuner's minimum of samples for the first configuration and to arrive while
the next is explored. *Graph scheduler*: three nodes have chains,
forks, joins and a bystander; four nodes (731,000 states) were checked once with
the same result. *Workers*: two workers with jobs of their own have overlapping
handles, and two clients may wait on one worker. *Memory*: three allocations on
each side suffice for equal ids, a reused pooled block and an eviction of two
with a choice. *SDK*: two calls record and save beside each other, the second session is
opened with what the first taught, one event is a cancellation, a reset or a
restart at any moment. *HydroXL*: a context of 5 is shorter than the longest prompt
with its generation, and a model serves two calls, of which the first may be
cancelled anywhere; three characters reach every look-ahead rule of the split.
*Vulkan*: two models of different shapes make scratch buffers grow, and reuse
them smaller; 32 buffers are enough for two initializations with a call after each.

Fairness. Weak fairness of each thread inside a call: it is scheduled, reads,
callbacks and tasks return, and a free mutex is eventually given to its waiters. A
thread that waits on a condition variable is only awakened by a notification. No
fairness is assumed of clients: nobody must call, cancel or shut down. `planning`,
`sdk`, `hydroxl` and `vulkan` check safety only and assume none.
In `streaming`, `graph_scheduler`, `workers`, `runtime`, `memory`, `sdk` and `planning`
the clients may stop for good (or a bound is reached), so deadlock is not
checked there; where something must end, a liveness property says so.

## Proofs

`ModelResidencyProofs` proves, for every finite set of regions, additive sizes,
budget and capacity: the type invariant, `ResidencyHonest`, `Accounting`,
`GrantedMeansResident`, that `Spec` implies `ResidencyCache`'s specification, and
three facts that no run lists because the refinement contains them: `WithinBudget`,
`NoTransferAtRest` and `PinnedStay`. The inductive invariant is the
conjunction of the state invariants and `CallConsistent`, which says what the call in
progress has established at each of its steps. Without it nothing is inductive:
that a read fits the budget is decided before the read starts, and the record it completes
is the one that was marked. `ResidencyHonest` is needed for `Accounting` (an
eviction subtracts by buffers, a demotion by states), and `NoTransferAtRest` for
both (a victim is never the region in transfer). There is a lemma per action;
`EraseStep` and `CallOnly` serve several.

`ExecutionGraphSchedulerProofs` proves, for every graph, set of resources and
assignment: the type invariant (no counter goes below zero),
`PredecessorsFirst`, `ExclusiveResources`, `NoTaskOutlives` and `FailurePropagates`. The loop decides
by counters, so the invariant says what they count: `in_degree` is the number
of predecessors that have not completed, `active_resources` the number of
futures held for a resource (until an exception, the only way to drop a future
without giving the resource back). READY is as strong as started
(`ReadyHaveAll`), and a future is held only for a RUNNING node (`TasksRunning`).
`FailurePropagates` adds three parts: a BLOCKED node has a failed or blocked
predecessor and the successors of such a node are BLOCKED or CANCELLED
(`Propagated`); in an acyclic graph a node that is still CREATED misses a
predecessor, and a cancellation has found all that had not started
(`Leftovers`); what `execute` returns leaves nothing CREATED, READY or RUNNING,
and a success means that all completed (`Returned`). The last needs acyclicity:
a set of nodes in which everyone waits for another would have no first member.

`HeteroRuntimeProofs` proves, for any number of requests, models, engines and
placements, `ExecutionOwnsEngine`, `StoredEnginesServe` and `ExecutedEntriesEnd`. Assumed of the constants: names are distinct from `None`, there is a
model, and requests and engines are finite (the references to the llama.cpp backend are
counted by a cardinality). The invariant has a part per thread (its place
decides whether it holds `mutex_`), per request (what its place says of its entry and of the
engine it uses) and per engine: an engine is loaded exactly while some path
leads to it (the table, a request, a streaming request's own) and is
EXECUTING exactly while its lock is taken. That a CANCELLED workload never
completes rests on the flag, which is set with the state and which `setRunning` leaves
alone: such a request is turned away before its prompt is evaluated (`Lost`). The last is what makes the table's entries
usable after any unload and reload that overlaps a request.

`ModelStreamingProofs` proves `BlockWhenResident` and `NoBlockLost` for any number of
resources, layers, tasks and evictors. The difficulty is the compare-and-set: an eviction
may take LOADING away from a transfer that is still under way, and put it back when the
transfer has already stored its block. The invariant says who owns
each transitional residency (at most one eviction per resource, one transfer)
and where the resource's block is at each place of the owner. Its last part proves
`MemoryHasOwner` of `MemoryManager` for any number of handles and blocks evicted at a
time, assuming that the limit of a pool is a natural number and that the locations are
those of the two allocators. The invariant says that every record has an id below
`nextId_`, that a free list has distinct ids of records, and that an entry with an id
has a record which is in no free list. Ids of the two allocators coincide, so each
part is about one of them. The two action parts follow action by action: what each takes
from the memory in use, and which entry it takes with it.

`ExecutionProofs` is about the two components that hand work to threads. Of
`AdaptiveScheduler` it proves `ResultOfOwnTask` and `NoJobLost` for any
number of workers, clients and workloads. The invariant relates a worker's queue,
its thread and the status of the jobs (a queue has no job twice, a job is RUNNING
exactly at the worker that took it), and says what a client holds while it waits. Nothing is
lost in the destructor because only the destructor stops a worker and no client is left to submit.

Of `HydroXLEngine` it proves `LoadedMeansUsable`, `NoCallOverrunsCache` and `DecodedAsPacked` for all files, prompts,
contexts, logits, samplers and numbers of threads, and `HistoryStored`: which token's key
and value each cell of the cache holds, for any number of heads and whatever earlier calls
have left. That attention looks in those cells is not true of more than one KV head
(see the Finding). The invariant (`EngineInv`)
has a part per phase:

- `LoadedInv`: the model, vocabulary and cache are those of one file that `load` accepts, with
  the cache's dimensions equal to the model's.
- `LoadingInv`, `DecodingInv`: a thread has decoded the blocks of its chunk before its next one.
  That the chunks cover all blocks of the tensor is a lemma about the division by the
  number of threads.
- `CallInv`: the position is the number of tokens that went through the forward
  pass, one less than there are from the choice of a token to its own pass, and
  never beyond the limit of the call, which is at most the cache's.
- `CacheHoldsHistory`: the cells of every position so far.

Assumed: hyperparameters and limits are natural numbers (`EngineAssumption`), `encode` yields
integers (`EncodeAssumption`), and decoding a block gives the numbers that were packed
(`BlockAssumption`). The last two are about what folds compute; TLC evaluates them
on the files and prompts of the runs, in which every packed type occurs.

`HandlesProofs` is about the two components that keep handles of what is outside the
process. Of `PluginLoader` it proves `LoadsAreFreed` and `LifecycleAgrees` for any
number of files and finitely many discovering threads. The count of loads of a file is the
handle of its entry plus the discoveries that hold its module, so the invariant says when
one does (`ProbesHold`): between its load and its free only, and of a file it knows. Of
`VulkanClients` it proves `DispatchFits` and `HandlesOwned` for all models, prompts, lists of devices and hosts,
with any call of Vulkan failing; assumed is that the layers of a model are a natural number and
its other dimensions natural numbers but 0, which `Qwen2HParams::isValid` and
`HydroXLKVCache::allocate` check (`ModelsAssumption`), and that what a host asks for is a natural
number (`HostAssumption`; they are `size_t` in the code). The invariant for the first (`ClientInv`): what is noted of a tensor or a
transient buffer is the size of the buffer as long as that exists (`Sized`; ids are never
given out twice, so a stale one finds nothing), and the weights of an engine that is
ready are on the device with their sizes, those of one that loads as far as it has
come (`Supply`). A second model may leave tensors of the first behind, so the proof
needs that equal names have equal sizes within a model and that `forward_token` names
only weights that `initialize` uploads (`OperationSupplied`).

For `HandlesOwned` the invariant `OwnInv` says who owns what, by client. An operation takes a state
in which members and `buffers_` name exactly what exists, each buffer once (`Owns`), to such a
state again, at whichever call it fails. `initialize` passes through states that are not of this form, since a
pipeline that fails to load leaves the names of layouts it has destroyed; a shutdown therefore starts
from less (`Leaves`) and ends with nothing (`Idle`, `Bare`). That
`used_` is the sum of a host's buffers (`HostOwns`) is an induction over sets of naturals, by the smallest
counterexample.

`HeteroAccelSDKProofs` proves `StreamStopsSoon`, `CancelReported`,
`VulkanOnlyWhereItFits` and `NoFabricatedSamples` for any number of threads, sessions, machines,
model files, resets and restarts. For the
first two, the place of a thread decides whether it holds its session's mutex (`Holds`),
a call's session exists as long as the call (`InUse`), and so nobody
clears the flag between a request and the call's last look at it (`FlagKept`). For the third,
an engine on Vulkan was a candidate for the model of its time, and the model stays
while a session exists. Assumed: the Vulkan backend lists at least one quantization, and sizes
and hyperparameters are natural numbers. That there is a best GPU among those
of the registry is an induction on their number; `SetInduction` derives it from the library's
well-foundedness of the naturals, by the smallest counterexample, which needs no
operator as a parameter.

For `NoFabricatedSamples` the invariant `ProfileInv` says that there is a ledger. An era is the time
from the start of the process or a reset to the next one; the ledger has an entry for every record of
every era of the process, with the number of measurements that may be claimed for it, and its entries
of a backend add up to at most what was measured (`LedgerOK`). The profile is covered by the entries of
the present era, every save by those of the era it was copied in (`WritersOK`), and a measurement
that is being recorded is either in its entry already or not yet in the ledger (`RecordingOK`), which is
why a copy that is made without the mutex in the middle of it claims nothing too much. The
file is the hard part: saves of several eras write it, each over what the others left, so that it
can hold lines of many eras. No two of them are of the same entry, because a line is never further
from the front than it was in its era (`FileOK`): what a save leaves lies behind its own lines. A
process that restarts begins a new ledger with what the file holds (`Fresh`). The sums are compared
through an injection of lines into entries (`SamplesCovered`). TLC checked the same invariant with the
ledger as history variables. Assumed: speeds are natural numbers.

`CommandLineProofs` proves `ValidateIsAcyclic`, `PlanIsCarriedOut`, `UploadsFit`,
`OneReading` and `SuggestionObeysCeiling` for all files, machines, registries,
configurations, graphs and callers. Assumed: sizes, layers and key-value bytes of a file are
natural numbers, the memory of a machine is one or, for Vulkan, not reported, a plan of a
client has one of five strategies, one of four modes and a budget (`MadePlansAssumption`),
`KeyOrder` is a sequence of strings, and of the tuner's constants what
`TunerAssumption` says. The invariant has a part per variable:

- `GraphInv`: while the search runs, the visited nodes that are finished are closed under
  successors and reach no cycle, and the gray ones are exactly the nodes of the
  calls on the stack, each an edge before the next. So an edge to a gray node closes a cycle, and a
  search that ends without one has shown every node to be on none. That the in-degrees count the
  edges uses a bijection between the predecessors before and after an edge is added.
- `DecisionOK`: a viable plan of the planner is one of four placements, each with what it knew
  when it chose it (`Promise`); a plan that a client made is any. That there is a smallest file key among several is the
  well-foundedness of the naturals.
- `ApplyOK` and `BuilderOK`: which nodes and edges the builder has added is a function of how
  far it has come; the adapter has asked for every region that far in the place of the
  first call (`Asked`) and for no more than a partial plan's budget in the other (`Sent`). The built graph
  is a chain that ends in the compute node, hence acyclic, so the search cannot refuse it.
- `RequestsOK`: what is explored has the layers of the best configuration for as long as it
  is explored, because a lowered ceiling ends the exploration; without that the ceiling of the
  request that began it would be the one in force. That `CPU` is used with no
  layers and `VULKAN` with some makes the clamp of `HeteroRuntime` leave the key alone.

Each inductive invariant was also checked by TLC, on the instance of the component's run or a
larger one.

Only model-checked:

- the liveness properties: the prover has no fairness;
- that attention reads the history of the call (`AttentionReadsHistory`), which holds for models with
  one KV head only, as those of `hydroxl` are;
- what the tokenizer and the decoders compute: `TokensStandForText`, which says that decoding gives
  the text back only where the vocabulary shows every byte of it and every merge (a vocabulary
  that marks a byte's token as control loses that byte), would need an induction over the
  merges of a fold and over the bytes of a text, and the decoders behind `BlockAssumption` and
  `EncodeAssumption` one over the bits of a block.

## Finding

`HydroXLKVCache::writeKV` stores a position's keys for all heads side by side
(position, head, dim; `hydroxl/HydroXLKVCache.cpp:62`), while `causal_attention`
reads head h at position t as "head → position → dim"
(`hydroxl/HydroXLOps.cpp:182`). They agree for one KV head only
(`hydroxl_layout`); `hydroxl` therefore has models with one.

## Disagreements and surprises met while modelling

They are in the models as the code has them; no run is about them.

*Runtime.* `doGenerate` never calls `setCancelled`: a workload whose loop saw its
flag ends COMPLETED, one stopped before evaluation stays RUNNING
(`inference/HeteroRuntime.cpp:311`; `tests/test_p9_cancellation.cpp:32` says the
execution code calls it). A cancellation between `isCancelled` and `setRunning` takes the
entry to CANCELLED, which the registry counts as terminal (`scheduler/WorkloadRegistry.cpp:127`), and
`setRunning` takes it back to RUNNING; `ExecutedEntriesEnd` excepts this step (`Revived`). A load that fails after `setRunning` leaves the entry
RUNNING (`:221`). `s_currentEngine_` is raced by concurrent initializations (telemetry only).

*Streaming, memory, plugins.* `evict` accepts a LOADING resource and puts LOADING back
after the load has ended (`model/StreamingEngine.cpp:91`). `executeLayer`
dispatches a layer while a prefetch still loads one of its inputs. Registering a
resource again resets its residency. Blocks of the two allocators share ids in
`activeBlocks_` (`mem/MemoryManager.cpp:72`): the later one takes the entry, the memory of
the earlier one is never freed, and releasing either handle frees the later one. With
a device the usage in `docs/phase4-memory.md:60-74` meets this: the first CPU and the first
GPU block have the same id, so that the move from CPU to GPU is refused, as the entry is already
on the GPU, `release(cpuBlock)` frees the GPU block and `release(gpuBlock)` does nothing. A
completed `move` leaves an entry and a handle with id 0 (`:112`), which `release` ignores. These
are the two exceptions of `MemoryHasOwner` (`Overwritten`, `Arrived`). `plugin_execute` runs a
plugin whose `pluginInitialize` failed (`plugin/PluginLoader.cpp:342`; the header
says it fails).

*Planning.* The adapter uploads of a PARTIAL_RESIDENT plan what its budget has room for
(`model/PlanResidencyAdapter.h:9`), and of a HYBRID one everything, while the graph builder asks for RAM
only, "for simplicity" (`execution/ExecutionGraphBuilder.cpp:46`); `OneReading` excepts such plans. Of the
planner's own partial plans nothing reaches the accelerator at all: they have mode HYBRID, and the
adapter uploads only for VULKAN and CUDA. ACCELERATOR_OFFLOAD, which no plan of the planner
has, is PARTIAL_RESIDENT to the adapter and refused by the builder (not modelled). STREAMING, which
nothing carries out, is preferred to a CPU fallback that fits. The graph
builder asks whether a plan is viable, not whether it is executable. A full placement
is a success when any region was loaded, and counts regions evicted
since. CUDA memory is never set, so CUDA is never chosen. A model between 85 % and
100 % of the memory gets all of its "partial" layers.

*Tuning.* A result is credited to the configuration being explored whatever ran. Once
the history prefers the CPU nothing measures the GPU again. A ceiling that was lowered
is not raised. Of a policy decision only `n_gpu_layers` is read.

*SDK.* A streaming call that its callback stops leaves the flag set, and the next
call is refused. `ha_infer` does not look at the flag while it runs.

*HydroXL.* The fallback of the merges maps bytes that were mapped already
(`hydroxl/HydroXLTokenizer.cpp:395`); the test for contractions truncates code points
(`:208`); the sampler's random number lies in [0, 0.5] (`hydroxl/HydroXLSampler.cpp:25`); any
failure of `output.weight` ties the head; `advanceSeq` is never called.

*Vulkan.* A pipeline that fails to load leaves its layouts in the out-parameters,
and `shutdown` destroys them again (`hydroxl/VulkanTensorOps.cpp:168`;
`HandlesOwned` excepts them). A transient buffer that fails is bound as
`VK_NULL_HANDLE` (`DispatchFits` is about buffers that exist). Initializing again after
a failed initialization leaks. Any `fail()` makes the backend unavailable for good.

## Not modelled

- File reading and hardware queries: I/O whose outcome is a constant or a free
  choice of the models that use it.
- The arithmetic of tensor kernels, norms and activations, floating-point estimates and averages: TLC has
  no reals, and no decision modelled here depends on more than their order.
- JSON, report texts, the commands that only print, the Python bindings and the plugin SDK's headers.
- The non-native path of `ha_infer_stream` and the tensor operations `softmax`,
  `allocTransient` and `downloadTensor`, which nothing reaches; exceptions other than a graph node's.
- Data races on unprotected containers (`active_prefetches_`): C++ gives them no outcome to model.
- `HeteroAccel-Research` is an earlier copy of the code that is not built.

## Plan

What is left to prove is `TokensStandForText`, with the tokenizer's merges as steps of the
specification instead of a fold.
